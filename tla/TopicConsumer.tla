---------------------------- MODULE TopicConsumer ----------------------------
(***************************************************************************)
(* The inbound consumers of internal/consumer that import documents: a     *)
(* partition of a topic read by the processes of the service as one        *)
(* consumer group, every message turned into at most one row.              *)
(*                                                                         *)
(*   "commercial"  project-management and governance requisitions; looked  *)
(*       up and recorded in processed_events; five attempts, then the      *)
(*       dead-letter topic;                                                *)
(*   "finance"     settlements; looked up and recorded likewise; one       *)
(*       attempt, then left uncommitted;                                   *)
(*   "operations", "fleet"  requests of other services, fuel requests and  *)
(*       low-stock signals; never looked up, one attempt, then left.       *)
(*                                                                         *)
(* A handler looks the event up, writes the row, and records the event, in *)
(* three separate commits; the offset is a fourth.                         *)
(***************************************************************************)
EXTENDS Integers, Sequences

CONSTANTS
    Processes,   \* members of the group
    Topics,      \* the partitions to read: [consumer, messages]
    NoId,        \* the event id of a message that carries none
    MaxLength,   \* the longest partition
    MaxFaults    \* bound on errors, crashes and rebalances

\* What keeps a message from becoming a row: it does not decode; it lacks what
\* identifies it, or is of a state the consumer ignores; it carries no amount;
\* no budget, or no invoice, matches it.
Flaws == {"none", "undecodable", "malformed", "worthless", "unmatched"}

ASSUME ConsumerAssumption ==
    /\ Processes # {} /\ MaxFaults \in Nat
    /\ \A t \in Topics :
         /\ t.consumer \in {"commercial", "finance", "operations", "fleet"}
         /\ Len(t.messages) <= MaxLength
         /\ t.messages \in Seq([id : {t.messages[i].id : i \in DOMAIN t.messages},
                                key : {t.messages[i].key : i \in DOMAIN t.messages},
                                type : STRING, flaw : Flaws])
         \* Messages of one event id are copies of one message.
         /\ \A i, j \in DOMAIN t.messages :
              t.messages[i].id = t.messages[j].id /\ t.messages[i].id # NoId =>
                t.messages[i] = t.messages[j]
         \* The keys of the audit log are none of the requests'.
         /\ \A i, j \in DOMAIN t.messages :
              t.messages[i].key = t.messages[j].key =>
                (t.messages[i].type = "warehouseStockBelowMinimum" <=>
                   t.messages[j].type = "warehouseStockBelowMinimum")

VARIABLES
    topic,      \* the partition
    owner,      \* the process the partition is assigned to
    committed,  \* the group's committed offset: messages up to it are done with
    proc,       \* process -> its place in Run
    processed,  \* processed_events: event ids
    rows,       \* business key -> rows written for it
    parked,     \* offsets in the dead-letter topic
    left,       \* offsets a process has left uncommitted after an error
    faults      \* faults so far

vars == <<topic, owner, committed, proc, processed, rows, parked, left, faults>>

Messages == topic.messages
Offsets == 1 .. Len(Messages)
Keys == {Messages[i].key : i \in Offsets}

Is(consumer) == topic.consumer = consumer

maxHandleAttempts == IF Is("commercial") THEN 5 ELSE 1

\* Between two messages, the reader having fetched up to offset n.
Reading(n) == [at |-> "fetch", read |-> n, offset |-> n, attempt |-> 0]

Init ==
    /\ topic \in Topics
    /\ owner \in Processes
    /\ committed = 0
    /\ proc = [p \in Processes |-> Reading(0)]
    /\ processed = {}
    /\ rows = [k \in Keys |-> 0]
    /\ parked = {}
    /\ left = {}
    /\ faults = 0

-----------------------------------------------------------------------------
(* The handlers: where each goes with a message of each flaw.              *)

\* No amount ends the handler without recording the event.
handlePMRequisition ==
    [none |-> "exists", undecodable |-> "failed", malformed |-> "mark",
     worthless |-> "commit", unmatched |-> "commit"]

handlePMPurchaseRequisition == [handlePMRequisition EXCEPT !.worthless = "mark"]

handleGovRequisitionApproved == [handlePMRequisition EXCEPT !.worthless = "mark"]

\* A request without an amount is imported all the same.
handleProcurementRequest ==
    [none |-> "exists", undecodable |-> "failed", malformed |-> "commit",
     worthless |-> "exists", unmatched |-> "commit"]

handleFuelRequestApproved == handleProcurementRequest

\* Whatever the signal says is logged.
RecordLowStockSignal ==
    [f \in Flaws |-> IF f = "undecodable" THEN "failed" ELSE "audit"]

\* RecordVendorPayment of an unknown invoice is no error.
paymentMade ==
    [none |-> "insert", undecodable |-> "failed", malformed |-> "mark",
     worthless |-> "insert", unmatched |-> "mark"]

\* An event of another type needs only an envelope that decodes.
otherType == [f \in Flaws |-> IF f = "undecodable" THEN "failed" ELSE "commit"]

handleMessage(m) ==
    (CASE m.type = "pmRequisitionSubmitted" -> handlePMRequisition
       [] m.type = "pmPurchaseRequisitionSubmitted" -> handlePMPurchaseRequisition
       [] m.type = "govRequisitionApproved" -> handleGovRequisitionApproved
       [] OTHER -> otherType)[m.flaw]

operationsHandle(m) ==
    (CASE m.type = "procurementRequested" -> handleProcurementRequest
       [] m.type = "warehouseStockBelowMinimum" -> RecordLowStockSignal
       [] OTHER -> otherType)[m.flaw]

fleetHandle(m) ==
    (IF m.type = "fuelRequestApproved" THEN handleFuelRequestApproved
     ELSE otherType)[m.flaw]

financeHandle(m) ==
    (IF m.type = "financePaymentMade" THEN paymentMade ELSE otherType)[m.flaw]

Handle(m) ==
    CASE Is("commercial") -> handleMessage(m)
      [] Is("operations") -> operationsHandle(m)
      [] Is("fleet") -> fleetHandle(m)
      [] OTHER -> financeHandle(m)

\* Message m becomes a row of its business key.
Imported(m) == Handle(m) \in {"exists", "insert"}

\* The consumers that look events up in processed_events, and record them.
Recording == Is("commercial") \/ Is("finance")

IsEventProcessed(m) == Recording /\ m.id # NoId /\ m.id \in processed

Fault == faults < MaxFaults /\ faults' = faults + 1

Message(p) == Messages[proc[p].offset]
At(p, place) == proc[p].at = place
Goto(p, place) == proc' = [proc EXCEPT ![p].at = place]

-----------------------------------------------------------------------------
(* Run *)

\* FetchMessage: the next message after the last one fetched, committed or not.
FetchMessage(p) ==
    /\ At(p, "fetch") /\ p = owner
    /\ proc[p].read < Len(Messages)
    /\ proc' = [proc EXCEPT ![p] = [at |-> "handle", read |-> proc[p].read + 1,
                                    offset |-> proc[p].read + 1, attempt |-> 1]]
    /\ UNCHANGED <<topic, owner, committed, processed, rows, parked, left, faults>>

\* IsEventProcessed, then what the payload says.  An undecodable message fails
\* on every attempt.
HandleLookup(p) ==
    /\ At(p, "handle")
    /\ Goto(p, IF IsEventProcessed(Message(p)) THEN "commit" ELSE Handle(Message(p)))
    /\ UNCHANGED <<topic, owner, committed, processed, rows, parked, left, faults>>

\* The imports look for the key before their transaction.
HandleExists(p) ==
    /\ At(p, "exists")
    /\ Goto(p, IF rows[Message(p).key] = 0 THEN "insert"
               ELSE IF Recording THEN "mark" ELSE "commit")
    /\ UNCHANGED <<topic, owner, committed, processed, rows, parked, left, faults>>

\* Mutant: no unique index.
InsertRow(n) == n + 1

\* The unique index on pm_requisition_id, on (origin_system, origin_ref), or
\* on payments.reference.
InsertUnique(n) == IF n = 0 THEN 1 ELSE n

\* Where a handler goes after its INSERT met a row of that key: an error of
\* ImportPMRequisition, "exists" to ImportProcurementRequest (23505), and
\* nothing to the payment (ON CONFLICT DO NOTHING).
Duplicate == IF Is("commercial") THEN "failed" ELSE IF Recording THEN "mark" ELSE "commit"

\* The transaction that writes the row.
HandleInsert(p) ==
    /\ At(p, "insert")
    /\ rows' = [rows EXCEPT ![Message(p).key] = InsertUnique(rows[Message(p).key])]
    /\ Goto(p, IF rows[Message(p).key] > 0 THEN Duplicate
               ELSE IF Recording THEN "mark" ELSE "commit")
    /\ UNCHANGED <<topic, owner, committed, processed, parked, left, faults>>

\* The audit entry of a low-stock signal, one for every delivery.
HandleAudit(p) ==
    /\ At(p, "audit")
    /\ rows' = [rows EXCEPT ![Message(p).key] = @ + 1]
    /\ Goto(p, "commit")
    /\ UNCHANGED <<topic, owner, committed, processed, parked, left, faults>>

\* Mutant: the event is recorded before its row is written.
MarkAtLookup(p) ==
    /\ At(p, "mark") \/ (Recording /\ (At(p, "exists") \/ At(p, "insert")))
    /\ processed' = processed \cup ({Message(p).id} \ {NoId})
    /\ Goto(p, IF At(p, "mark") THEN "commit" ELSE proc[p].at)
    /\ UNCHANGED <<topic, owner, committed, rows, parked, left, faults>>

\* MarkEventProcessed.
HandleMark(p) ==
    /\ At(p, "mark")
    /\ processed' = processed \cup ({Message(p).id} \ {NoId})
    /\ Goto(p, "commit")
    /\ UNCHANGED <<topic, owner, committed, rows, parked, left, faults>>

\* A statement of the handler fails.
HandleError(p) ==
    /\ proc[p].at \in {"handle", "exists", "insert", "audit", "mark"}
    /\ Fault
    /\ Goto(p, "failed")
    /\ UNCHANGED <<topic, owner, committed, processed, rows, parked, left>>

\* Mutant: one attempt more than the constant says.
OneMore(p) == proc[p].attempt > maxHandleAttempts

Exhausted(p) == proc[p].attempt >= maxHandleAttempts

\* Mutant: a dead-letter write whose failure goes unnoticed.
NeverParked(p) == parked

Parked(p) == parked \cup {proc[p].offset}

\* Mutant: a retry that is not counted.
SameAttempt(p) == proc[p].attempt

NextAttempt(p) == proc[p].attempt + 1

\* The handler returned an error: try again, dead-letter, or leave the
\* message uncommitted and fetch the next one.  Only the commercial consumer
\* has a dead-letter topic, and the write to it may fail.
HandleFailed(p) ==
    /\ At(p, "failed")
    /\ \/ /\ ~Exhausted(p)
          /\ proc' = [proc EXCEPT ![p].at = "handle", ![p].attempt = NextAttempt(p)]
          /\ UNCHANGED <<parked, left, faults>>
       \/ /\ Exhausted(p) /\ Is("commercial")
          /\ parked' = Parked(p)
          /\ Goto(p, "commit")
          /\ UNCHANGED <<left, faults>>
       \/ /\ Exhausted(p)
          /\ IF Is("commercial") THEN Fault ELSE UNCHANGED faults
          /\ left' = left \cup {proc[p].offset}
          /\ Goto(p, "fetch")
          /\ UNCHANGED parked
    /\ UNCHANGED <<topic, owner, committed, processed, rows>>

\* CommitMessages: the group's offset is this message's, whatever was left
\* uncommitted before it.  A process that lost the partition is refused, and
\* an error is logged.
CommitMessages(p) ==
    /\ At(p, "commit")
    /\ \/ /\ p = owner
          /\ committed' = proc[p].offset
          /\ UNCHANGED faults
       \/ /\ p # owner /\ UNCHANGED <<committed, faults>>
       \/ /\ Fault /\ UNCHANGED committed
    /\ Goto(p, "fetch")
    /\ UNCHANGED <<topic, owner, processed, rows, parked, left>>

\* Where the reader of a group starts.
StartOffset == committed

\* A restart.
Crash(p) ==
    /\ Fault
    /\ proc' = [proc EXCEPT ![p] = Reading(StartOffset)]
    /\ UNCHANGED <<topic, owner, committed, processed, rows, parked, left>>

\* The partition moves to another process, whose reader starts over, while
\* both finish the message in their hands.
Rebalance(q) ==
    /\ q # owner
    /\ Fault
    /\ owner' = q
    /\ proc' = [proc EXCEPT ![q].read = StartOffset]
    /\ UNCHANGED <<topic, committed, processed, rows, parked, left>>

Step(p) ==
    \/ FetchMessage(p)
    \/ HandleLookup(p)
    \/ HandleExists(p)
    \/ HandleInsert(p)
    \/ HandleAudit(p)
    \/ HandleMark(p)
    \/ HandleError(p)
    \/ HandleFailed(p)
    \/ CommitMessages(p)

Next ==
    \/ \E p \in Processes : Step(p)
    \/ \E p \in Processes : Crash(p)
    \/ \E p \in Processes : Rebalance(p)

\* Every process keeps running its loop.
Spec == Init /\ [][Next]_vars /\ \A p \in Processes : WF_vars(Step(p))

-----------------------------------------------------------------------------
TypeOK ==
    /\ topic \in Topics
    /\ owner \in Processes
    /\ committed \in 0 .. Len(Messages)
    /\ proc \in [Processes -> [at : {"fetch", "handle", "exists", "insert", "audit",
                                      "mark", "failed", "commit"},
                               read : 0 .. Len(Messages), offset : 0 .. Len(Messages),
                               attempt : 0 .. maxHandleAttempts]]
    /\ processed \subseteq {Messages[i].id : i \in Offsets}
    /\ rows \in [Keys -> Nat]
    /\ parked \subseteq Offsets
    /\ left \subseteq Offsets
    /\ faults \in 0 .. MaxFaults

\* Redeliveries, duplicates of the producer and a process that works on after
\* losing the partition never write a second row for one business key
\* ("Belt-and-suspenders alongside the unique pm_requisition_id",
\* commercial.go:351), with or without the lookup in processed_events.
OneRowPerKey ==
    \A i \in Offsets : Imported(Messages[i]) => rows[Messages[i].key] <= 1

\* Message i has had its effect, or is kept in the dead-letter topic.
Settled(i) ==
    \/ i \in parked
    \/ Handle(Messages[i]) \in {"mark", "commit"}
    \/ Handle(Messages[i]) # "failed" /\ rows[Messages[i].key] > 0

\* No message is lost: what the group will never read again has had its
\* effect or is parked (commercial.go:129-131, finance.go:60-61).
NothingSkipped == \A i \in 1 .. committed : Settled(i)

\* What the group will never read again and has had no effect was left behind
\* by a process that saw it fail: no interleaving of two owners, and no commit
\* of a process that took over a half-handled message, loses another one.
SkippedWasLeft == \A i \in 1 .. committed : Settled(i) \/ i \in left

\* A recorded event will be ignored from now on, so its row must be there
\* already, whichever process recorded it and whatever failed in between.
RecordedHasRow ==
    \A i \in Offsets :
      Messages[i].id \in processed /\ Imported(Messages[i]) => rows[Messages[i].key] > 0

\* Every message of the partition is eventually settled or left behind,
\* through any finite number of errors, crashes and rebalances and behind
\* poison messages.
EventuallySettled ==
    \A i \in 1 .. MaxLength : <>(i \in Offsets => Settled(i) \/ i \in left)
=============================================================================
