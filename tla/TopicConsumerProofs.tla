------------------------- MODULE TopicConsumerProofs -------------------------
(***************************************************************************)
(* What the import consumers promise, for every partition, every number of *)
(* processes and every number of faults: at most one row for a business    *)
(* key, no event recorded before its effect, and nothing skipped that no   *)
(* process saw fail.  The proofs follow the place of every process in its  *)
(* handler, and what it knows of the message in its hands there.           *)
(***************************************************************************)
EXTENDS TopicConsumer, TLAPS

Places == {"fetch", "handle", "exists", "insert", "audit", "mark", "failed", "commit"}

\* The effect of message i is in the database, or it has none.
Done(i) ==
    \/ Handle(Messages[i]) \in {"mark", "commit"}
    \/ Handle(Messages[i]) # "failed" /\ rows[Messages[i].key] > 0

\* What process p knows of the message in its hands.
Knows(p) ==
    /\ ~At(p, "fetch") => proc[p].offset \in Offsets
    /\ At(p, "exists") \/ At(p, "insert") => Imported(Message(p))
    /\ At(p, "audit") => Handle(Message(p)) = "audit"
    /\ At(p, "mark") => Done(proc[p].offset)
    /\ At(p, "commit") => Settled(proc[p].offset)

\* What lies behind process p, but for the message in its hands, is settled or
\* was left: before the last one fetched, and before the one in its hands,
\* which is another one after the reader started over.
Behind(p) ==
    /\ \A i \in 1 .. proc[p].read :
         Settled(i) \/ i \in left \/ (~At(p, "fetch") /\ i = proc[p].offset)
    /\ ~At(p, "fetch") => \A i \in 1 .. (proc[p].offset - 1) : Settled(i) \/ i \in left

\* Every recorded event has had its effect.
RecordedDone ==
    /\ NoId \notin processed
    /\ \A i \in Offsets : Messages[i].id \in processed => Done(i)

ConsumerInv ==
    /\ TypeOK
    /\ OneRowPerKey
    /\ RecordedDone
    /\ SkippedWasLeft
    /\ \A p \in Processes : Knows(p) /\ Behind(p)

-----------------------------------------------------------------------------
\* A partition as ConsumerAssumption has it.
LEMMA Partition ==
  ASSUME topic \in Topics
  PROVE  /\ topic.consumer \in {"commercial", "finance", "operations", "fleet"}
         /\ Len(Messages) \in Nat /\ DOMAIN Messages = Offsets
         /\ \A i \in Offsets : Messages[i].flaw \in Flaws /\ Messages[i].key \in Keys
         /\ \A i, j \in Offsets : Messages[i].id = Messages[j].id /\ Messages[i].id # NoId =>
                                    Messages[i] = Messages[j]
         /\ \A i, j \in Offsets : Messages[i].key = Messages[j].key =>
              (Messages[i].type = "warehouseStockBelowMinimum" <=>
                 Messages[j].type = "warehouseStockBelowMinimum")
<1> DEFINE Ids == {Messages[i].id : i \in DOMAIN Messages}
           Names == {Messages[i].key : i \in DOMAIN Messages}
           Event == [id : Ids, key : Names, type : STRING, flaw : Flaws]
<1>1. Messages \in Seq(Event)
  BY ConsumerAssumption DEF Messages
<1>2. Len(Messages) \in Nat /\ DOMAIN Messages = Offsets
  <2> HIDE DEF Event
  <2> QED
    BY <1>1 DEF Offsets
<1>3. \A i \in Offsets : Messages[i].flaw \in Flaws
  <2>1. \A i \in Offsets : Messages[i] \in Event
    <3> HIDE DEF Event
    <3> QED
      BY <1>1, <1>2
  <2> HIDE DEF Ids, Names
  <2> QED
    BY <2>1
<1>4. \A i \in Offsets : Messages[i].key \in Keys
  BY DEF Keys
<1> QED
  BY <1>2, <1>3, <1>4, ConsumerAssumption DEF Messages

\* Where a handler goes with a message.
LEMMA HandlePlaces ==
  ASSUME topic \in Topics, NEW m, m.flaw \in Flaws
  PROVE  /\ Handle(m) \in {"exists", "insert", "audit", "mark", "failed", "commit"}
         /\ Handle(m) = "audit" => Is("operations") /\ m.type = "warehouseStockBelowMinimum"
         /\ Is("operations") /\ m.type = "warehouseStockBelowMinimum" => ~Imported(m)
<1>0. m.flaw \in {"none", "undecodable", "malformed", "worthless", "unmatched"}
  BY DEF Flaws
<1>1. handleMessage(m) \in {"exists", "mark", "failed", "commit"}
  <2>1. handlePMRequisition[m.flaw] \in {"exists", "mark", "failed", "commit"}
    BY <1>0 DEF handlePMRequisition
  <2>2. handlePMPurchaseRequisition[m.flaw] \in {"exists", "mark", "failed", "commit"}
    BY <1>0 DEF handlePMRequisition, handlePMPurchaseRequisition
  <2>3. handleGovRequisitionApproved[m.flaw] \in {"exists", "mark", "failed", "commit"}
    BY <1>0 DEF handlePMRequisition, handleGovRequisitionApproved
  <2>4. otherType[m.flaw] \in {"failed", "commit"}
    BY DEF otherType
  <2> QED
    BY <2>1, <2>2, <2>3, <2>4 DEF handleMessage
<1>2. /\ operationsHandle(m) \in {"exists", "audit", "failed", "commit"}
      /\ operationsHandle(m) = "audit" => m.type = "warehouseStockBelowMinimum"
      /\ m.type = "warehouseStockBelowMinimum" => operationsHandle(m) \in {"audit", "failed"}
  <2>1. handleProcurementRequest[m.flaw] \in {"exists", "failed", "commit"}
    BY <1>0 DEF handleProcurementRequest
  <2>2. RecordLowStockSignal[m.flaw] \in {"audit", "failed"}
    BY DEF RecordLowStockSignal
  <2>3. otherType[m.flaw] \in {"failed", "commit"}
    BY DEF otherType
  <2> QED
    BY <2>1, <2>2, <2>3 DEF operationsHandle
<1>3. fleetHandle(m) \in {"exists", "failed", "commit"}
  <2>1. handleFuelRequestApproved[m.flaw] \in {"exists", "failed", "commit"}
    BY <1>0 DEF handleProcurementRequest, handleFuelRequestApproved
  <2>2. otherType[m.flaw] \in {"failed", "commit"}
    BY DEF otherType
  <2> QED
    BY <2>1, <2>2 DEF fleetHandle
<1>4. financeHandle(m) \in {"insert", "mark", "failed", "commit"}
  <2>1. paymentMade[m.flaw] \in {"insert", "mark", "failed"}
    BY <1>0 DEF paymentMade
  <2>2. otherType[m.flaw] \in {"failed", "commit"}
    BY DEF otherType
  <2> QED
    BY <2>1, <2>2 DEF financeHandle
<1>5. \/ Is("commercial") /\ Handle(m) = handleMessage(m)
      \/ Is("operations") /\ Handle(m) = operationsHandle(m)
      \/ Is("fleet") /\ Handle(m) = fleetHandle(m)
      \/ Is("finance") /\ Handle(m) = financeHandle(m)
  BY Partition DEF Handle, Is
<1>6. Is("operations") => ~Is("commercial") /\ ~Is("fleet") /\ ~Is("finance")
  BY DEF Is
<1> QED
  BY <1>1, <1>2, <1>3, <1>4, <1>5, <1>6 DEF Imported

\* The topic is fixed, and what is settled, done or left stays so: rows and
\* dead letters are only added.
Grows ==
    /\ topic' = topic
    /\ \A k \in Keys : rows'[k] >= rows[k]
    /\ parked \subseteq parked' /\ left \subseteq left'

\* What depends on the partition alone never changes.
LEMMA Fixed ==
  ASSUME topic' = topic
  PROVE  /\ Messages' = Messages /\ Offsets' = Offsets /\ Keys' = Keys
         /\ maxHandleAttempts' = maxHandleAttempts
         /\ Recording' <=> Recording
         /\ \A m : Handle(m)' = Handle(m)
         /\ \A m : Imported(m)' <=> Imported(m)
  BY DEF Messages, Offsets, Keys, maxHandleAttempts, Recording, Handle, Imported, Is

\* Settled and Done messages stay settled and done.
LEMMA StaysSettled ==
  ASSUME TypeOK, TypeOK', Grows, NEW i \in Offsets
  PROVE  (Settled(i) => Settled(i)') /\ (Done(i) => Done(i)')
<1>1. Messages' = Messages /\ Handle(Messages[i])' = Handle(Messages[i])
  BY Fixed DEF Grows
<1>2. rows[Messages[i].key] \in Nat /\ rows'[Messages[i].key] \in Nat
      /\ rows'[Messages[i].key] >= rows[Messages[i].key]
  BY Partition, Fixed DEF TypeOK, Grows
<1>3. rows[Messages[i].key] > 0 => rows'[Messages[i].key] > 0
  BY <1>2
<1> QED
  BY <1>1, <1>3 DEF Settled, Done, Grows

\* The place of a process is within the partition.
LEMMA PlaceOf ==
  ASSUME TypeOK, NEW q \in Processes
  PROVE  /\ proc[q].at \in Places /\ Len(Messages) \in Nat
         /\ proc[q].read \in 0 .. Len(Messages) /\ proc[q].offset \in 0 .. Len(Messages)
         /\ proc[q].attempt \in 0 .. maxHandleAttempts
         /\ maxHandleAttempts \in {1, 5}
<1> DEFINE N == 0 .. Len(Messages)  M == 0 .. maxHandleAttempts
<1>1. proc \in [Processes -> [at : Places, read : N, offset : N, attempt : M]]
  BY DEF TypeOK, Places
<1> HIDE DEF N, M
<1>2. proc[q].at \in Places /\ proc[q].read \in N /\ proc[q].offset \in N /\ proc[q].attempt \in M
  BY <1>1
<1> QED
  BY <1>2, Partition DEF N, M, TypeOK, maxHandleAttempts

\* Process q knows what it knew while other processes take their steps.
LEMMA OthersKeep ==
  ASSUME TypeOK, TypeOK', Grows, NEW q \in Processes, proc'[q] = proc[q],
         Knows(q), Behind(q)
  PROVE  Knows(q)' /\ Behind(q)'
<1>1. Messages' = Messages /\ Offsets' = Offsets
  BY Fixed DEF Grows
<1>2. Message(q)' = Message(q) /\ \A a : At(q, a)' <=> At(q, a)
  BY <1>1 DEF Message, At
<1>3. Handle(Message(q))' = Handle(Message(q)) /\ (Imported(Message(q))' <=> Imported(Message(q)))
  BY <1>2, Fixed DEF Grows
<1>4. \A i \in Offsets : (Settled(i) => Settled(i)') /\ (Done(i) => Done(i)')
  BY StaysSettled
<1>5. /\ \A i \in 1 .. proc[q].read : i \in Offsets
      /\ \A i \in 1 .. (proc[q].offset - 1) : i \in Offsets
  BY PlaceOf DEF Offsets
<1>6. Knows(q)'
  BY <1>1, <1>2, <1>3, <1>4 DEF Knows, At
<1>7. Behind(q)'
  BY <1>2, <1>4, <1>5 DEF Behind, Grows
<1> QED
  BY <1>6, <1>7

\* What Goto does to the place of a process.
LEMMA GotoPlace ==
  ASSUME TypeOK, NEW p \in Processes, NEW a \in Places, topic' = topic, Goto(p, a)
  PROVE  /\ proc' \in [Processes -> [at : Places, read : 0 .. Len(Messages)',
                                     offset : 0 .. Len(Messages)',
                                     attempt : 0 .. maxHandleAttempts']]
         /\ proc'[p].at = a /\ proc'[p].read = proc[p].read
         /\ proc'[p].offset = proc[p].offset /\ proc'[p].attempt = proc[p].attempt
         /\ \A q \in Processes \ {p} : proc'[q] = proc[q]
<1> DEFINE N == 0 .. Len(Messages)  M == 0 .. maxHandleAttempts
           R == [at : Places, read : N, offset : N, attempt : M]
<1>1. proc \in [Processes -> R]
  BY DEF TypeOK, Places
<1>2. (0 .. Len(Messages))' = N /\ (0 .. maxHandleAttempts)' = M
  BY Fixed
<1>3. proc' = [proc EXCEPT ![p] = [proc[p] EXCEPT !.at = a]]
  BY DEF Goto
<1>4. proc[p] \in R
  BY <1>1
<1> HIDE DEF N, M
<1>5. [proc[p] EXCEPT !.at = a] \in R
  BY <1>4
<1>6. proc'[p] = [proc[p] EXCEPT !.at = a] /\ \A q \in Processes \ {p} : proc'[q] = proc[q]
  <2> HIDE DEF R
  <2> QED
    BY <1>1, <1>3
<1>7. proc' \in [Processes -> R]
  <2> HIDE DEF R
  <2> QED
    BY <1>1, <1>3, <1>5
<1>8. proc'[p].at = a /\ proc'[p].read = proc[p].read
      /\ proc'[p].offset = proc[p].offset /\ proc'[p].attempt = proc[p].attempt
  BY <1>4, <1>6
<1> QED
  BY <1>2, <1>6, <1>7, <1>8

\* What a step that leaves a table alone keeps of its invariant.
LEMMA Untouched ==
  ASSUME ConsumerInv, TypeOK', Grows
  PROVE  /\ processed' = processed => RecordedDone'
         /\ committed' = committed => SkippedWasLeft'
         /\ rows' = rows => OneRowPerKey'
<1>1. Messages' = Messages /\ Offsets' = Offsets /\ \A m : Imported(m)' <=> Imported(m)
  BY Fixed DEF Grows
<1>2. \A i \in Offsets : (Settled(i) => Settled(i)') /\ (Done(i) => Done(i)')
  BY StaysSettled DEF ConsumerInv
<1>3. \A i \in 1 .. committed : i \in Offsets
  BY Partition DEF ConsumerInv, TypeOK, Offsets
<1>4. ASSUME processed' = processed PROVE RecordedDone'
  BY <1>1, <1>2, <1>4 DEF ConsumerInv, RecordedDone
<1>5. ASSUME committed' = committed PROVE SkippedWasLeft'
  BY <1>2, <1>3, <1>5 DEF ConsumerInv, SkippedWasLeft, Grows
<1>6. ASSUME rows' = rows PROVE OneRowPerKey'
  BY <1>1, <1>6 DEF ConsumerInv, OneRowPerKey
<1> QED
  BY <1>4, <1>5, <1>6

\* A process with a message in its hands keeps what lies behind it, whatever
\* it does with the message.
LEMMA StillBehind ==
  ASSUME ConsumerInv, TypeOK', Grows, NEW p \in Processes,
         proc[p].at # "fetch", proc'[p].at # "fetch",
         proc'[p].read = proc[p].read, proc'[p].offset = proc[p].offset
  PROVE  Behind(p)'
<1>1. \A i \in Offsets : Settled(i) => Settled(i)'
  BY StaysSettled DEF ConsumerInv
<1>2. /\ \A i \in 1 .. proc[p].read : i \in Offsets
      /\ \A i \in 1 .. (proc[p].offset - 1) : i \in Offsets
  BY PlaceOf DEF Offsets, ConsumerInv
<1>3. Behind(p)
  BY DEF ConsumerInv
<1> QED
  BY <1>1, <1>2, <1>3 DEF Behind, At, Grows

\* A process done with its message has only settled and left ones behind it.
LEMMA DoneBehind ==
  ASSUME ConsumerInv, TypeOK', Grows, NEW p \in Processes,
         proc[p].at # "fetch", proc'[p].at = "fetch", proc'[p].read = proc[p].read,
         Settled(proc[p].offset) \/ proc[p].offset \in left'
  PROVE  Behind(p)'
<1>1. \A i \in Offsets : Settled(i) => Settled(i)'
  BY StaysSettled DEF ConsumerInv
<1>2. \A i \in 1 .. proc[p].read : i \in Offsets
  BY PlaceOf DEF Offsets, ConsumerInv
<1>3. Behind(p)
  BY DEF ConsumerInv
<1>4. \A i \in 1 .. proc[p].read : Settled(i)' \/ i \in left'
  BY <1>1, <1>2, <1>3 DEF Behind, At, Grows
<1> QED
  BY <1>4 DEF Behind, At

\* A step of process p concerns p alone, but for the tables.
LEMMA StepOf ==
  ASSUME ConsumerInv, TypeOK', Grows, NEW p \in Processes,
         \A q \in Processes \ {p} : proc'[q] = proc[q],
         Knows(p)', Behind(p)', OneRowPerKey', RecordedDone', SkippedWasLeft'
  PROVE  ConsumerInv'
<1>1. ASSUME NEW q \in Processes PROVE Knows(q)' /\ Behind(q)'
  <2>1. CASE q # p
    BY <2>1, OthersKeep DEF ConsumerInv
  <2> QED
    BY <2>1
<1> QED
  BY <1>1 DEF ConsumerInv

\* Nothing is read, recorded, written or committed at first.
LEMMA ConsumerInit == Init => ConsumerInv
<1> SUFFICES ASSUME Init PROVE ConsumerInv
  OBVIOUS
<1>1. TypeOK
  <2>1. Len(Messages) \in Nat /\ maxHandleAttempts \in Nat
    BY Partition DEF Init, maxHandleAttempts
  <2> DEFINE N == 0 .. Len(Messages)  M == 0 .. maxHandleAttempts
  <2>2. 0 \in N /\ 0 \in M
    BY <2>1
  <2>3. proc \in [Processes -> [at : Places, read : N, offset : N, attempt : M]]
    <3> HIDE DEF N, M
    <3> QED
      BY <2>2 DEF Init, Reading, Places
  <2> QED
    BY <2>1, <2>3, ConsumerAssumption DEF Init, TypeOK, Places
<1>2. OneRowPerKey
  BY Partition DEF Init, OneRowPerKey
<1>3. RecordedDone /\ SkippedWasLeft
  BY DEF Init, RecordedDone, SkippedWasLeft
<1>4. \A p \in Processes : Knows(p) /\ Behind(p)
  <2> TAKE p \in Processes
  <2>1. proc[p].at = "fetch" /\ proc[p].read = 0
    BY DEF Init, Reading
  <2> QED
    BY <2>1 DEF Knows, Behind, At
<1> QED
  BY <1>1, <1>2, <1>3, <1>4 DEF ConsumerInv

\* The next message is after the ones behind the process.
LEMMA FetchInv ==
  ASSUME ConsumerInv, NEW p \in Processes, FetchMessage(p)
  PROVE  ConsumerInv'
<1>0. Grows /\ TypeOK
  BY Partition DEF FetchMessage, Grows, ConsumerInv, TypeOK
<1>1. Messages' = Messages /\ Offsets' = Offsets /\ Keys' = Keys /\ maxHandleAttempts' = maxHandleAttempts
  BY <1>0, Fixed DEF Grows
<1> DEFINE N == 0 .. Len(Messages)  M == 0 .. maxHandleAttempts  n == proc[p].read + 1
           R == [at : Places, read : N, offset : N, attempt : M]
           x == [at |-> "handle", read |-> n, offset |-> n, attempt |-> 1]
<1>2. proc' = [proc EXCEPT ![p] = x] /\ proc \in [Processes -> R] /\ n \in N /\ 1 \in M /\ n \in Offsets
  <2>1. n \in N /\ 1 \in M /\ n \in Offsets
    BY <1>0, PlaceOf DEF FetchMessage, Offsets
  <2> QED
    BY <1>0, <2>1 DEF FetchMessage, TypeOK, Places
<1>3. x \in R
  <2> HIDE DEF N, M, n
  <2> QED
    BY <1>2 DEF Places
<1>4. proc' \in [Processes -> R] /\ proc'[p] = x /\ \A q \in Processes \ {p} : proc'[q] = proc[q]
  <2> HIDE DEF R, x
  <2> QED
    BY <1>2, <1>3
<1>5. TypeOK'
  BY <1>0, <1>1, <1>4 DEF FetchMessage, TypeOK, Places
<1>6. proc'[p].at = "handle" /\ proc'[p].read = n /\ proc'[p].offset = n
  BY <1>4
<1>7. Knows(p)'
  BY <1>1, <1>2, <1>6 DEF Knows, At
<1>8. Behind(p)'
  <2>1. \A i \in Offsets : Settled(i) => Settled(i)'
    BY <1>0, <1>5, StaysSettled
  <2>2. \A i \in 1 .. proc[p].read : i \in Offsets /\ (Settled(i) \/ i \in left)
    BY <1>0, PlaceOf DEF ConsumerInv, Behind, FetchMessage, At, Offsets
  <2>3. \A i \in 1 .. proc[p].read : Settled(i)' \/ i \in left'
    BY <1>0, <2>1, <2>2 DEF Grows
  <2>4. \A i \in 1 .. n : i = n \/ i \in 1 .. proc[p].read
    BY <1>0, PlaceOf
  <2>5. \A i \in 1 .. (n - 1) : i \in 1 .. proc[p].read
    BY <1>0, PlaceOf
  <2> QED
    BY <1>6, <2>3, <2>4, <2>5 DEF Behind, At
<1>9. OneRowPerKey' /\ RecordedDone' /\ SkippedWasLeft'
  BY <1>0, <1>5, Untouched DEF FetchMessage
<1> QED
  BY <1>0, <1>4, <1>5, <1>7, <1>8, <1>9, StepOf

\* A step that only moves process p, with a message in its hands, to a place
\* whose knowledge it has.
LEMMA MoveInv ==
  ASSUME ConsumerInv, NEW p \in Processes, NEW a \in Places \ {"fetch"},
         proc[p].at # "fetch", Goto(p, a),
         UNCHANGED <<topic, owner, committed, processed, rows, parked, left>>,
         faults' \in 0 .. MaxFaults,
         a \in {"exists", "insert"} => Imported(Message(p)),
         a = "audit" => Handle(Message(p)) = "audit",
         a = "mark" => Done(proc[p].offset),
         a = "commit" => Settled(proc[p].offset)
  PROVE  ConsumerInv'
<1>0. Grows /\ TypeOK
  BY Partition DEF Grows, ConsumerInv, TypeOK
<1>1. Messages' = Messages /\ Offsets' = Offsets /\ Keys' = Keys
      /\ (\A m : Handle(m)' = Handle(m)) /\ (\A m : Imported(m)' <=> Imported(m))
  BY <1>0, Fixed DEF Grows
<1>2. /\ proc' \in [Processes -> [at : Places, read : 0 .. Len(Messages)',
                                  offset : 0 .. Len(Messages)',
                                  attempt : 0 .. maxHandleAttempts']]
      /\ proc'[p].at = a /\ proc'[p].read = proc[p].read
      /\ proc'[p].offset = proc[p].offset
      /\ \A q \in Processes \ {p} : proc'[q] = proc[q]
  BY <1>0, GotoPlace
<1>3. TypeOK'
  BY <1>0, <1>1, <1>2 DEF TypeOK, Places
<1>4. PICK n \in Offsets : n = proc[p].offset
  BY DEF ConsumerInv, Knows, At
<1>5. (Settled(n) => Settled(n)') /\ (Done(n) => Done(n)')
  BY <1>0, <1>3, StaysSettled
<1>6. Message(p)' = Message(p)
  BY <1>1, <1>2 DEF Message
<1>7. Knows(p)'
  BY <1>1, <1>2, <1>4, <1>5, <1>6 DEF Knows, At
<1>8. Behind(p)'
  BY <1>0, <1>2, <1>3, StillBehind
<1>9. OneRowPerKey' /\ RecordedDone' /\ SkippedWasLeft'
  BY <1>0, <1>3, Untouched
<1> QED
  BY <1>0, <1>2, <1>3, <1>7, <1>8, <1>9, StepOf

\* An event found in processed_events has had its effect; what the payload
\* says leads to a place of its own.
LEMMA LookupInv ==
  ASSUME ConsumerInv, NEW p \in Processes, HandleLookup(p)
  PROVE  ConsumerInv'
<1>1. PICK n \in Offsets : n = proc[p].offset
  BY DEF ConsumerInv, Knows, At, HandleLookup
<1>2. Message(p) = Messages[n] /\ Messages[n].flaw \in Flaws /\ topic \in Topics
  BY <1>1, Partition DEF Message, ConsumerInv, TypeOK
<1>3. Handle(Message(p)) \in {"exists", "insert", "audit", "mark", "failed", "commit"}
  BY <1>2, HandlePlaces
<1>4. IsEventProcessed(Message(p)) => Settled(n)
  BY <1>2 DEF IsEventProcessed, ConsumerInv, RecordedDone, Done, Settled
<1>5. PICK a : /\ Goto(p, a)
               /\ a = IF IsEventProcessed(Message(p)) THEN "commit" ELSE Handle(Message(p))
  BY DEF HandleLookup
<1>6. a \in Places \ {"fetch"}
  BY <1>3, <1>5 DEF Places
<1>7. /\ a \in {"exists", "insert"} => Imported(Message(p))
      /\ a = "audit" => Handle(Message(p)) = "audit"
      /\ a = "mark" => Done(proc[p].offset)
      /\ a = "commit" => Settled(proc[p].offset)
  BY <1>1, <1>2, <1>4, <1>5 DEF Imported, Done, Settled
<1>8. proc[p].at # "fetch" /\ faults' \in 0 .. MaxFaults
      /\ UNCHANGED <<topic, owner, committed, processed, rows, parked, left>>
  BY DEF HandleLookup, At, ConsumerInv, TypeOK
<1> QED
  BY <1>5, <1>6, <1>7, <1>8, MoveInv

\* A key that has its row needs no second one.
LEMMA ExistsInv ==
  ASSUME ConsumerInv, NEW p \in Processes, HandleExists(p)
  PROVE  ConsumerInv'
<1>1. PICK n \in Offsets : n = proc[p].offset
  BY DEF ConsumerInv, Knows, At, HandleExists
<1>2. Message(p) = Messages[n] /\ Imported(Message(p)) /\ rows[Messages[n].key] \in Nat
  BY <1>1, Partition DEF Message, ConsumerInv, Knows, HandleExists, TypeOK
<1>3. PICK a : /\ Goto(p, a)
               /\ a = IF rows[Message(p).key] = 0 THEN "insert"
                      ELSE IF Recording THEN "mark" ELSE "commit"
  BY DEF HandleExists
<1>4. a \in Places \ {"fetch"}
  BY <1>3 DEF Places
<1>5. a # "insert" => Done(n) /\ Settled(n)
  BY <1>2, <1>3 DEF Done, Settled, Imported
<1>6. /\ a \in {"exists", "insert"} => Imported(Message(p))
      /\ a = "audit" => Handle(Message(p)) = "audit"
      /\ a = "mark" => Done(proc[p].offset)
      /\ a = "commit" => Settled(proc[p].offset)
  BY <1>1, <1>2, <1>3, <1>5
<1>7. proc[p].at # "fetch" /\ faults' \in 0 .. MaxFaults
      /\ UNCHANGED <<topic, owner, committed, processed, rows, parked, left>>
  BY DEF HandleExists, At, ConsumerInv, TypeOK
<1> QED
  BY <1>3, <1>4, <1>6, <1>7, MoveInv

\* A statement that fails changes nothing but the place.
LEMMA ErrorInv ==
  ASSUME ConsumerInv, NEW p \in Processes, HandleError(p)
  PROVE  ConsumerInv'
<1>1. proc[p].at # "fetch" /\ Goto(p, "failed") /\ faults' \in 0 .. MaxFaults
      /\ UNCHANGED <<topic, owner, committed, processed, rows, parked, left>>
  BY ConsumerAssumption DEF HandleError, Fault, ConsumerInv, TypeOK
<1> QED
  BY <1>1, MoveInv DEF Places

\* The rows after an insert or an audit entry of the message in p's hands.
LEMMA RowsStep ==
  ASSUME ConsumerInv, NEW p \in Processes, NEW a \in Places \ {"fetch"},
         NEW n \in Offsets, n = proc[p].offset, proc[p].at # "fetch", Goto(p, a),
         UNCHANGED <<topic, owner, committed, processed, parked, left, faults>>,
         NEW v \in Nat, v >= rows[Messages[n].key], v > 0,
         rows' = [rows EXCEPT ![Messages[n].key] = v],
         Handle(Messages[n]) # "failed", a \in {"mark", "commit", "failed"},
         OneRowPerKey'
  PROVE  ConsumerInv'
<1>0. TypeOK /\ Messages[n].key \in Keys
  BY Partition DEF ConsumerInv, TypeOK
<1>1. Messages' = Messages /\ Offsets' = Offsets /\ Keys' = Keys
      /\ \A m : Handle(m)' = Handle(m)
  BY Fixed
<1>2. /\ proc' \in [Processes -> [at : Places, read : 0 .. Len(Messages)',
                                  offset : 0 .. Len(Messages)',
                                  attempt : 0 .. maxHandleAttempts']]
      /\ proc'[p].at = a /\ proc'[p].read = proc[p].read
      /\ proc'[p].offset = n
      /\ \A q \in Processes \ {p} : proc'[q] = proc[q]
  BY <1>0, GotoPlace
<1>3. /\ rows' \in [Keys -> Nat] /\ rows'[Messages[n].key] = v
      /\ \A k \in Keys : rows'[k] >= rows[k]
  BY <1>0 DEF TypeOK
<1>4. TypeOK'
  BY <1>0, <1>1, <1>2, <1>3 DEF TypeOK, Places
<1>5. Grows
  BY <1>3 DEF Grows
<1>6. Done(n)' /\ Settled(n)'
  BY <1>1, <1>3 DEF Done, Settled
<1>7. Knows(p)'
  BY <1>1, <1>2, <1>6 DEF Knows, At
<1>8. Behind(p)'
  BY <1>2, <1>4, <1>5, StillBehind
<1>9. RecordedDone' /\ SkippedWasLeft'
  BY <1>4, <1>5, Untouched
<1> QED
  BY <1>2, <1>4, <1>5, <1>7, <1>8, <1>9, StepOf

\* The unique index keeps every key at one row.
LEMMA InsertInv ==
  ASSUME ConsumerInv, NEW p \in Processes, HandleInsert(p)
  PROVE  ConsumerInv'
<1>1. PICK n \in Offsets : n = proc[p].offset
  BY DEF ConsumerInv, Knows, At, HandleInsert
<1>2. Message(p) = Messages[n] /\ Imported(Messages[n]) /\ rows[Messages[n].key] \in Nat
      /\ Messages[n].key \in Keys
  BY <1>1, Partition DEF Message, ConsumerInv, Knows, HandleInsert, TypeOK
<1> DEFINE v == InsertUnique(rows[Messages[n].key])
<1>3. v \in Nat /\ v >= rows[Messages[n].key] /\ v > 0
      /\ (rows[Messages[n].key] <= 1 => v <= 1)
  BY <1>2 DEF InsertUnique
<1>4. rows' = [rows EXCEPT ![Messages[n].key] = v]
  BY <1>2 DEF HandleInsert
<1>5. PICK a : Goto(p, a) /\ a = IF rows[Message(p).key] > 0 THEN Duplicate
                                 ELSE IF Recording THEN "mark" ELSE "commit"
  BY DEF HandleInsert
<1>6. a \in Places \ {"fetch"} /\ a \in {"mark", "commit", "failed"}
  BY <1>5 DEF Places, Duplicate
<1>7. proc[p].at # "fetch" /\ UNCHANGED <<topic, owner, committed, processed, parked, left, faults>>
  BY DEF HandleInsert, At
<1>8. OneRowPerKey'
  <2>1. Messages' = Messages /\ Offsets' = Offsets /\ \A m : Imported(m)' <=> Imported(m)
    BY <1>7, Fixed
  <2>2. ASSUME NEW i \in Offsets, Imported(Messages[i]) PROVE rows'[Messages[i].key] <= 1
    <3>1. rows[Messages[i].key] <= 1 /\ Messages[i].key \in Keys /\ rows \in [Keys -> Nat]
      BY <2>2, Partition DEF ConsumerInv, OneRowPerKey, TypeOK
    <3> HIDE DEF v
    <3> QED
      BY <1>3, <1>4, <3>1
  <2> QED
    BY <2>1, <2>2 DEF OneRowPerKey
<1>9. Handle(Messages[n]) # "failed"
  BY <1>2 DEF Imported
<1> HIDE DEF v
<1> QED
  BY <1>1, <1>3, <1>4, <1>5, <1>6, <1>7, <1>8, <1>9, RowsStep

\* An audit entry is of no key that is imported.
LEMMA AuditInv ==
  ASSUME ConsumerInv, NEW p \in Processes, HandleAudit(p)
  PROVE  ConsumerInv'
<1>1. PICK n \in Offsets : n = proc[p].offset
  BY DEF ConsumerInv, Knows, At, HandleAudit
<1>2. Message(p) = Messages[n] /\ Handle(Messages[n]) = "audit" /\ rows[Messages[n].key] \in Nat
      /\ Messages[n].key \in Keys /\ topic \in Topics
  BY <1>1, Partition DEF Message, ConsumerInv, Knows, HandleAudit, TypeOK
<1> DEFINE v == rows[Messages[n].key] + 1
<1>3. v \in Nat /\ v >= rows[Messages[n].key] /\ v > 0
  BY <1>2
<1>4. rows' = [rows EXCEPT ![Messages[n].key] = v]
  BY <1>2 DEF HandleAudit
<1>5. proc[p].at # "fetch" /\ Goto(p, "commit")
      /\ UNCHANGED <<topic, owner, committed, processed, parked, left, faults>>
  BY DEF HandleAudit, At
<1>6. OneRowPerKey'
  <2>1. Messages' = Messages /\ Offsets' = Offsets /\ \A m : Imported(m)' <=> Imported(m)
    BY <1>5, Fixed
  <2>2. ASSUME NEW i \in Offsets, Imported(Messages[i]) PROVE rows'[Messages[i].key] <= 1
    <3>1. rows[Messages[i].key] <= 1 /\ Messages[i].key \in Keys /\ rows \in [Keys -> Nat]
      BY <2>2, Partition DEF ConsumerInv, OneRowPerKey, TypeOK
    <3>2. Is("operations") /\ Messages[n].type = "warehouseStockBelowMinimum"
      BY <1>2, Partition, HandlePlaces
    <3>3. Messages[i].flaw \in Flaws
      BY <1>2, Partition
    <3>4. Messages[i].type # "warehouseStockBelowMinimum"
      BY <1>2, <2>2, <3>2, <3>3, HandlePlaces
    <3>5. Messages[i].key # Messages[n].key
      BY <1>2, <3>2, <3>4, Partition
    <3> HIDE DEF v
    <3> QED
      BY <1>4, <3>1, <3>5
  <2> QED
    BY <2>1, <2>2 DEF OneRowPerKey
<1>7. "commit" \in Places \ {"fetch"} /\ Handle(Messages[n]) # "failed"
  BY <1>2 DEF Places
<1> HIDE DEF v
<1> QED
  BY <1>1, <1>3, <1>4, <1>5, <1>6, <1>7, RowsStep

\* An event is recorded by a process that knows its effect is there; every
\* copy of the message has the same effect.
LEMMA MarkInv ==
  ASSUME ConsumerInv, NEW p \in Processes, HandleMark(p)
  PROVE  ConsumerInv'
<1>0. TypeOK
  BY DEF ConsumerInv
<1>1. PICK n \in Offsets : n = proc[p].offset /\ Done(n)
  BY DEF ConsumerInv, Knows, At, HandleMark
<1>2. Message(p) = Messages[n]
  BY <1>1 DEF Message
<1>3. Messages' = Messages /\ Offsets' = Offsets /\ Keys' = Keys
  BY Fixed DEF HandleMark
<1>4. /\ proc' \in [Processes -> [at : Places, read : 0 .. Len(Messages)',
                                  offset : 0 .. Len(Messages)',
                                  attempt : 0 .. maxHandleAttempts']]
      /\ proc'[p].at = "commit" /\ proc'[p].read = proc[p].read
      /\ proc'[p].offset = n
      /\ \A q \in Processes \ {p} : proc'[q] = proc[q]
  BY <1>0, <1>1, GotoPlace DEF HandleMark, Places
<1>5. processed' \subseteq {Messages[i].id : i \in Offsets}
  BY <1>0, <1>2 DEF HandleMark, TypeOK
<1>6. TypeOK'
  <2>1. /\ topic' \in Topics /\ owner' \in Processes /\ committed' \in 0 .. Len(Messages')
        /\ faults' \in 0 .. MaxFaults
    BY <1>0, <1>3 DEF HandleMark, TypeOK
  <2>2. processed' \subseteq {Messages'[i].id : i \in Offsets'}
    BY <1>3, <1>5
  <2>3. rows' \in [Keys' -> Nat] /\ parked' \subseteq Offsets' /\ left' \subseteq Offsets'
    BY <1>0, <1>3 DEF HandleMark, TypeOK
  <2> QED
    BY <1>4, <2>1, <2>2, <2>3 DEF TypeOK, Places
<1>7. Grows
  BY <1>0, Partition DEF HandleMark, Grows, TypeOK
<1>8. \A i \in Offsets : (Settled(i) => Settled(i)') /\ (Done(i) => Done(i)')
  BY <1>0, <1>6, <1>7, StaysSettled
<1>9. Knows(p)'
  <2>1. Settled(n)'
    BY <1>1, <1>8 DEF Done, Settled
  <2> QED
    BY <1>3, <1>4, <2>1 DEF Knows, At
<1>10. Behind(p)'
  BY <1>1, <1>4, <1>6, <1>7, StillBehind DEF HandleMark, At
<1>11. RecordedDone'
  <2>1. NoId \notin processed'
    BY DEF ConsumerInv, RecordedDone, HandleMark
  <2>2. ASSUME NEW i \in Offsets, Messages[i].id \in processed' PROVE Done(i)
    <3>1. CASE Messages[i].id \in processed
      BY <3>1 DEF ConsumerInv, RecordedDone
    <3>2. CASE Messages[i].id = Messages[n].id /\ Messages[n].id # NoId
      <4>1. Messages[i] = Messages[n]
        BY <1>0, <3>2, Partition DEF TypeOK
      <4> QED
        BY <1>1, <4>1 DEF Done
    <3> QED
      BY <1>2, <2>2, <3>1, <3>2 DEF HandleMark
  <2> QED
    BY <1>3, <1>8, <2>1, <2>2 DEF RecordedDone
<1>12. OneRowPerKey' /\ SkippedWasLeft'
  BY <1>6, <1>7, Untouched DEF HandleMark
<1> QED
  BY <1>4, <1>6, <1>7, <1>9, <1>10, <1>11, <1>12, StepOf

\* A failed message is tried again, parked, or left behind.
LEMMA FailedInv ==
  ASSUME ConsumerInv, NEW p \in Processes, HandleFailed(p)
  PROVE  ConsumerInv'
<1>0. TypeOK /\ topic' = topic /\ At(p, "failed")
  BY DEF ConsumerInv, HandleFailed
<1>1. PICK n \in Offsets : n = proc[p].offset
  BY DEF ConsumerInv, Knows, At, HandleFailed
<1>2. Messages' = Messages /\ Offsets' = Offsets /\ Keys' = Keys /\ maxHandleAttempts' = maxHandleAttempts
  BY <1>0, Fixed
<1>3. Grows
  BY <1>0, Partition DEF HandleFailed, Grows, Parked, TypeOK
<1>4. CASE /\ ~Exhausted(p)
           /\ proc' = [proc EXCEPT ![p].at = "handle", ![p].attempt = NextAttempt(p)]
           /\ UNCHANGED <<parked, left, faults>>
  <2> DEFINE N == 0 .. Len(Messages)  M == 0 .. maxHandleAttempts  b == proc[p].attempt + 1
             R == [at : Places, read : N, offset : N, attempt : M]
             x == [proc[p] EXCEPT !.at = "handle", !.attempt = b]
  <2>1. b \in M
    BY <1>0, <1>4, PlaceOf DEF Exhausted
  <2>2. proc \in [Processes -> R] /\ proc[p] \in R
    BY <1>0 DEF TypeOK, Places
  <2>3. proc' = [proc EXCEPT ![p] = x]
    <3>1. proc' = [proc EXCEPT ![p].at = "handle", ![p].attempt = b]
      BY <1>4 DEF NextAttempt
    <3> HIDE DEF R, b
    <3> QED
      BY <2>2, <3>1, Zenon
  <2>4. x \in R /\ x.at = "handle" /\ x.read = proc[p].read /\ x.offset = proc[p].offset
    <3> HIDE DEF N, M, b
    <3> QED
      BY <2>1, <2>2 DEF Places
  <2>5. proc' \in [Processes -> R] /\ proc'[p] = x /\ \A q \in Processes \ {p} : proc'[q] = proc[q]
    <3> HIDE DEF R, x
    <3> QED
      BY <2>2, <2>3, <2>4
  <2> HIDE DEF x
  <2>6. TypeOK'
    BY <1>0, <1>2, <1>4, <2>5 DEF HandleFailed, TypeOK, Places
  <2>7. Knows(p)'
    BY <1>1, <1>2, <2>4, <2>5 DEF Knows, At
  <2>8. Behind(p)'
    BY <1>0, <1>3, <2>4, <2>5, <2>6, StillBehind DEF At
  <2>9. OneRowPerKey' /\ RecordedDone' /\ SkippedWasLeft'
    BY <1>3, <2>6, Untouched DEF HandleFailed
  <2> QED
    BY <1>3, <2>5, <2>6, <2>7, <2>8, <2>9, StepOf
<1>5. CASE parked' = Parked(p) /\ Goto(p, "commit") /\ UNCHANGED <<left, faults>>
  <2>1. /\ proc' \in [Processes -> [at : Places, read : 0 .. Len(Messages)',
                                    offset : 0 .. Len(Messages)',
                                    attempt : 0 .. maxHandleAttempts']]
        /\ proc'[p].at = "commit" /\ proc'[p].read = proc[p].read
        /\ proc'[p].offset = n
        /\ \A q \in Processes \ {p} : proc'[q] = proc[q]
    BY <1>0, <1>1, <1>5, GotoPlace DEF Places
  <2>2. TypeOK'
    BY <1>0, <1>1, <1>2, <1>5, <2>1 DEF HandleFailed, TypeOK, Places, Parked
  <2>3. Settled(n)'
    BY <1>1, <1>5 DEF Parked, Settled
  <2>4. Knows(p)'
    BY <1>2, <2>1, <2>3 DEF Knows, At
  <2>5. Behind(p)'
    BY <1>0, <1>1, <1>3, <2>1, <2>2, StillBehind DEF At
  <2>6. OneRowPerKey' /\ RecordedDone' /\ SkippedWasLeft'
    BY <1>3, <2>2, Untouched DEF HandleFailed
  <2> QED
    BY <1>3, <2>1, <2>2, <2>4, <2>5, <2>6, StepOf
<1>6. CASE /\ IF Is("commercial") THEN Fault ELSE UNCHANGED faults
           /\ left' = left \cup {proc[p].offset} /\ Goto(p, "fetch") /\ UNCHANGED parked
  <2>1. /\ proc' \in [Processes -> [at : Places, read : 0 .. Len(Messages)',
                                    offset : 0 .. Len(Messages)',
                                    attempt : 0 .. maxHandleAttempts']]
        /\ proc'[p].at = "fetch" /\ proc'[p].read = proc[p].read
        /\ proc'[p].offset = n
        /\ \A q \in Processes \ {p} : proc'[q] = proc[q]
    BY <1>0, <1>1, <1>6, GotoPlace DEF Places
  <2>2. faults' \in 0 .. MaxFaults
    BY <1>0, <1>6, ConsumerAssumption DEF Fault, TypeOK
  <2>3. TypeOK'
    BY <1>0, <1>1, <1>2, <1>6, <2>1, <2>2 DEF HandleFailed, TypeOK, Places
  <2>4. Knows(p)'
    BY <2>1 DEF Knows, At
  <2>5. Behind(p)'
    BY <1>0, <1>3, <1>6, <2>1, <2>3, DoneBehind DEF At
  <2>6. OneRowPerKey' /\ RecordedDone' /\ SkippedWasLeft'
    BY <1>3, <2>3, Untouched DEF HandleFailed
  <2> QED
    BY <1>3, <2>1, <2>3, <2>4, <2>5, <2>6, StepOf
<1> QED
  BY <1>4, <1>5, <1>6 DEF HandleFailed

\* The committed offset is that of a settled message, behind which everything
\* is settled or left.
LEMMA CommitInv ==
  ASSUME ConsumerInv, NEW p \in Processes, CommitMessages(p)
  PROVE  ConsumerInv'
<1>0. TypeOK /\ topic' = topic /\ At(p, "commit")
  BY DEF ConsumerInv, CommitMessages
<1>1. PICK n \in Offsets : n = proc[p].offset /\ Settled(n)
  BY DEF ConsumerInv, Knows, At, CommitMessages
<1>2. Messages' = Messages /\ Offsets' = Offsets /\ Keys' = Keys
  BY <1>0, Fixed
<1>3. Grows
  BY <1>0, Partition DEF CommitMessages, Grows, TypeOK
<1>4. /\ proc' \in [Processes -> [at : Places, read : 0 .. Len(Messages)',
                                  offset : 0 .. Len(Messages)',
                                  attempt : 0 .. maxHandleAttempts']]
      /\ proc'[p].at = "fetch" /\ proc'[p].read = proc[p].read
      /\ \A q \in Processes \ {p} : proc'[q] = proc[q]
  BY <1>0, GotoPlace DEF CommitMessages, Places
<1>5. committed' = n \/ committed' = committed
  BY <1>1 DEF CommitMessages
<1>6. committed' \in 0 .. Len(Messages) /\ faults' \in 0 .. MaxFaults
  BY <1>0, <1>5, ConsumerAssumption, Partition DEF CommitMessages, Fault, TypeOK, Offsets
<1>7. TypeOK'
  BY <1>0, <1>2, <1>4, <1>6 DEF CommitMessages, TypeOK, Places
<1>8. Knows(p)'
  BY <1>4 DEF Knows, At
<1>9. Behind(p)'
  BY <1>0, <1>1, <1>3, <1>4, <1>7, DoneBehind DEF At
<1>10. SkippedWasLeft'
  <2>1. CASE committed' = n
    <3>1. \A i \in 1 .. (n - 1) : Settled(i) \/ i \in left
      BY <1>0, <1>1 DEF ConsumerInv, Behind, At
    <3>2. \A i \in 1 .. n : i = n \/ i \in 1 .. (n - 1)
      BY <1>0, Partition DEF Offsets, TypeOK
    <3>3. \A i \in 1 .. n : i \in Offsets
      BY <1>0, Partition DEF Offsets, TypeOK
    <3>4. \A i \in Offsets : Settled(i) => Settled(i)'
      BY <1>0, <1>3, <1>7, StaysSettled
    <3> QED
      BY <1>1, <1>3, <2>1, <3>1, <3>2, <3>3, <3>4 DEF SkippedWasLeft, Grows
  <2>2. CASE committed' = committed
    BY <1>3, <1>7, <2>2, Untouched
  <2> QED
    BY <1>5, <2>1, <2>2
<1>11. OneRowPerKey' /\ RecordedDone'
  BY <1>3, <1>7, Untouched DEF CommitMessages
<1> QED
  BY <1>3, <1>4, <1>7, <1>8, <1>9, <1>10, <1>11, StepOf

\* A reader that starts over at the committed offset has nothing unsettled
\* behind it but what was left.
LEMMA CrashInv ==
  ASSUME ConsumerInv, NEW p \in Processes, Crash(p)
  PROVE  ConsumerInv'
<1>0. TypeOK /\ topic' = topic
  BY DEF ConsumerInv, Crash
<1>1. Messages' = Messages /\ Offsets' = Offsets /\ Keys' = Keys /\ maxHandleAttempts' = maxHandleAttempts
  BY <1>0, Fixed
<1>2. Grows
  BY <1>0, Partition DEF Crash, Grows, TypeOK
<1> DEFINE N == 0 .. Len(Messages)  M == 0 .. maxHandleAttempts
           R == [at : Places, read : N, offset : N, attempt : M]
           x == [at |-> "fetch", read |-> committed, offset |-> committed, attempt |-> 0]
<1>3. proc' = [proc EXCEPT ![p] = x] /\ proc \in [Processes -> R] /\ committed \in N /\ 0 \in M
  BY <1>0, PlaceOf DEF Crash, Reading, StartOffset, TypeOK, Places
<1>4. x \in R
  <2> HIDE DEF N, M
  <2> QED
    BY <1>3 DEF Places
<1>5. proc' \in [Processes -> R] /\ proc'[p] = x /\ \A q \in Processes \ {p} : proc'[q] = proc[q]
  <2> HIDE DEF R, x
  <2> QED
    BY <1>3, <1>4
<1>6. faults' \in 0 .. MaxFaults
  BY <1>0, ConsumerAssumption DEF Crash, Fault, TypeOK
<1>7. TypeOK'
  BY <1>0, <1>1, <1>5, <1>6 DEF Crash, TypeOK, Places
<1>8. OneRowPerKey' /\ RecordedDone' /\ SkippedWasLeft'
  BY <1>2, <1>7, Untouched DEF Crash
<1>9. proc'[p].at = "fetch" /\ proc'[p].read = committed'
  BY <1>5 DEF Crash
<1>10. Knows(p)' /\ Behind(p)'
  BY <1>8, <1>9 DEF Knows, Behind, At, SkippedWasLeft
<1> QED
  BY <1>2, <1>5, <1>7, <1>8, <1>10, StepOf

\* The reader of the new owner starts over; the message in its hands, of an
\* earlier assignment, is still behind what it was.
LEMMA RebalanceInv ==
  ASSUME ConsumerInv, NEW p \in Processes, Rebalance(p)
  PROVE  ConsumerInv'
<1>0. TypeOK /\ topic' = topic
  BY DEF ConsumerInv, Rebalance
<1>1. Messages' = Messages /\ Offsets' = Offsets /\ Keys' = Keys /\ maxHandleAttempts' = maxHandleAttempts
      /\ (\A m : Handle(m)' = Handle(m)) /\ (\A m : Imported(m)' <=> Imported(m))
  BY <1>0, Fixed
<1>2. Grows
  BY <1>0, Partition DEF Rebalance, Grows, TypeOK
<1> DEFINE N == 0 .. Len(Messages)  M == 0 .. maxHandleAttempts
           R == [at : Places, read : N, offset : N, attempt : M]
           x == [proc[p] EXCEPT !.read = committed]
<1>3. proc' = [proc EXCEPT ![p] = x] /\ proc \in [Processes -> R] /\ committed \in N /\ proc[p] \in R
  BY <1>0 DEF Rebalance, StartOffset, TypeOK, Places
<1>4. x \in R /\ x.at = proc[p].at /\ x.read = committed /\ x.offset = proc[p].offset
  <2> HIDE DEF N, M
  <2> QED
    BY <1>3 DEF Places
<1>5. proc' \in [Processes -> R] /\ proc'[p] = x /\ \A q \in Processes \ {p} : proc'[q] = proc[q]
  <2> HIDE DEF R, x
  <2> QED
    BY <1>3, <1>4
<1> HIDE DEF x
<1>6. faults' \in 0 .. MaxFaults /\ owner' \in Processes
  BY <1>0, ConsumerAssumption DEF Rebalance, Fault, TypeOK
<1>7. TypeOK'
  BY <1>0, <1>1, <1>5, <1>6 DEF Rebalance, TypeOK, Places
<1>8. OneRowPerKey' /\ RecordedDone' /\ SkippedWasLeft'
  BY <1>2, <1>7, Untouched DEF Rebalance
<1>9. proc'[p].at = proc[p].at /\ proc'[p].read = committed' /\ proc'[p].offset = proc[p].offset
  BY <1>4, <1>5 DEF Rebalance
<1>10. \A i \in Offsets : (Settled(i) => Settled(i)') /\ (Done(i) => Done(i)')
  BY <1>0, <1>2, <1>7, StaysSettled
<1>11. Knows(p)'
  <2>1. Knows(p) /\ Message(p)' = Message(p)
    BY <1>1, <1>9 DEF ConsumerInv, Message
  <2> QED
    BY <1>1, <1>9, <1>10, <2>1 DEF Knows, At
<1>12. Behind(p)'
  <2>1. \A i \in 1 .. (proc[p].offset - 1) : i \in Offsets
    BY <1>0, PlaceOf DEF Offsets
  <2>2. proc[p].at # "fetch" => \A i \in 1 .. (proc[p].offset - 1) : Settled(i)' \/ i \in left'
    BY <1>2, <1>10, <2>1 DEF ConsumerInv, Behind, At, Grows
  <2> QED
    BY <1>8, <1>9, <2>2 DEF Behind, At, SkippedWasLeft
<1> QED
  BY <1>2, <1>5, <1>7, <1>8, <1>11, <1>12, StepOf

\* The inductive step, one case per action.
LEMMA ConsumerStep == ConsumerInv /\ [Next]_vars => ConsumerInv'
<1> SUFFICES ASSUME ConsumerInv, [Next]_vars PROVE ConsumerInv'
  OBVIOUS
<1>1. ASSUME NEW p \in Processes, Step(p) PROVE ConsumerInv'
  BY <1>1, FetchInv, LookupInv, ExistsInv, InsertInv, AuditInv, MarkInv, ErrorInv,
     FailedInv, CommitInv DEF Step
<1>2. CASE UNCHANGED vars
  <2>1. TypeOK' /\ Grows
    <3>1. Messages' = Messages /\ Offsets' = Offsets /\ Keys' = Keys
          /\ maxHandleAttempts' = maxHandleAttempts
      BY <1>2, Fixed DEF vars
    <3>2. TypeOK'
      BY <1>2, <3>1 DEF vars, ConsumerInv, TypeOK
    <3> QED
      BY <1>2, <3>2, Partition DEF vars, ConsumerInv, TypeOK, Grows
  <2>2. OneRowPerKey' /\ RecordedDone' /\ SkippedWasLeft'
    BY <1>2, <2>1, Untouched DEF vars
  <2>3. \A p \in Processes : Knows(p)' /\ Behind(p)'
    BY <1>2, <2>1, OthersKeep DEF vars, ConsumerInv
  <2> QED
    BY <2>1, <2>2, <2>3 DEF ConsumerInv
<1> QED
  BY <1>1, <1>2, CrashInv, RebalanceInv DEF Next

\* The group keeps its strengthened invariant forever.
THEOREM ConsumerInvariant == Spec => []ConsumerInv
  BY ConsumerInit, ConsumerStep, PTL DEF Spec

\* Offsets, places, tables and attempts keep their types: no message is tried
\* more often than the consumer's limit (commercial.go, maxHandleAttempts).
THEOREM ConsumerTypes == Spec => []TypeOK
<1>1. ConsumerInv => TypeOK
  BY DEF ConsumerInv
<1> QED
  BY <1>1, ConsumerInvariant, PTL

\* However messages are redelivered, repeated or handled by two processes at
\* once, a business key has one row (the unique indexes behind
\* ImportPMRequisition, ImportProcurementRequest and RecordVendorPayment).
THEOREM OneRowForAKey == Spec => []OneRowPerKey
<1>1. ConsumerInv => OneRowPerKey
  BY DEF ConsumerInv
<1> QED
  BY <1>1, ConsumerInvariant, PTL

\* An event in processed_events has its row, so that ignoring it from then on
\* loses nothing (MarkEventProcessed comes after the import).
THEOREM RecordedEventsHaveRows == Spec => []RecordedHasRow
<1>1. ConsumerInv => RecordedHasRow
  BY DEF ConsumerInv, RecordedDone, RecordedHasRow, Done, Imported
<1> QED
  BY <1>1, ConsumerInvariant, PTL

\* What lies behind the committed offset without effect was left there by a
\* process that saw it fail, never by a race of two owners (CommitMessages).
THEOREM OnlyTheLeftAreSkipped == Spec => []SkippedWasLeft
<1>1. ConsumerInv => SkippedWasLeft
  BY DEF ConsumerInv
<1> QED
  BY <1>1, ConsumerInvariant, PTL
=============================================================================
