-------------------------- MODULE VendorMasterProofs --------------------------
(***************************************************************************)
(* What the four writers of the vendor master keep between them, for every *)
(* set of vendors, parties and messages.  None of the properties is        *)
(* inductive by itself: they rest on what a consumer in the middle of its  *)
(* handler has seen, and on a party minted here being nobody's before.     *)
(***************************************************************************)
EXTENDS VendorMaster, FiniteSetTheorems, TLAPS

VendorRow == [row : {"free", "live", "gone"}, party : AllParties \cup {None},
              biz : Refs \cup {None}, user : Users \cup {None},
              advice : Messages \cup {None}, adviceAt : Int, heard : SUBSET Messages]

Places == {"fetch", "update", "insert", "advise", "mark"}

Types ==
    /\ inbox \in Inboxes
    /\ vendors \in [Ids -> VendorRow]
    /\ worker \in [Workers -> [at : Places, msg : Messages \cup {None}, seen : SUBSET Ids]]
    /\ deleting # None => /\ deleting.id \in Ids
                          /\ deleting.party \in AllParties \cup {None}
    /\ told \subseteq AllParties

\* A consumer in its handler works on a message of its topic, about a party that
\* exists; one that is about to insert a peer's party saw no row of it; one that is about to mark advice
\* has applied it.
Knows(w) ==
    /\ worker[w].at # "fetch" => worker[w].msg \in inbox /\ Known(worker[w].msg.party)
    /\ worker[w].at = "insert" /\ worker[w].msg.kind = "upsert" => worker[w].seen = {}
    /\ worker[w].at = "mark" => worker[w].msg.id \in applied

\* Rows carry parties that exist, and a vendor that was not created yet, or has
\* no party yet, has not had its own announced.
Minted ==
    /\ \A v \in Ids : vendors[v].party = None \/ Known(vendors[v].party)
    /\ \A v \in Ids : OwnParty(v) \in announced =>
                         /\ vendors[v].row # "free"
                         /\ vendors[v].row = "live" => vendors[v].party # None

\* Two rows carry a party only when it was doubled.
Pairwise ==
    \A p \in AllParties \ doubled : \A u, v \in Carriers(p) : u = v

\* What a row x has of quality's advice.
Advice(x) == <<x.advice, x.adviceAt, x.heard>>
NoAdvice == <<None, -1, {}>>

\* Advice stored with a time of its own is stored with that time, and nothing a
\* vendor heard has a later one.
Holds(x) ==
    /\ x.advice = None => Advice(x) = NoAdvice
    /\ x.advice # None /\ x.advice.at # Undated => x.adviceAt = x.advice.at
    /\ \A m \in x.heard : x.adviceAt >= m.at

AdviceKept == \A v \in Ids : Holds(vendors[v])

MarkedApplied == \A m \in inbox : m.kind = "advice" /\ m.id \in dedupe => m.id \in applied

VendorInv ==
    /\ Types
    /\ \A w \in Workers : Knows(w)
    /\ Minted
    /\ Pairwise
    /\ ToldOfDeletion
    /\ AdviceKept
    /\ MarkedApplied

-----------------------------------------------------------------------------
\* What a message is.
LEMMA MessageTypes ==
  ASSUME Types, NEW m \in inbox
  PROVE  /\ m \in Messages /\ m # None /\ m.party \in AllParties
         /\ m.ref \in Refs \cup {None} /\ m.at \in Nat \cup {Undated} /\ m.user \in Users \cup {None}
         /\ m.kind = "party" => m.ref \in Codes /\ SyncedId(m.ref) \in Ids
<1>1. m \in Messages
  BY DEF Types, Messages
<1> QED
  BY <1>1, VendorAssumption DEF AllParties, Ids

\* None is no party of anyone.
LEMMA OwnParties ==
  /\ \A u, v : OwnParty(u) = OwnParty(v) => u = v
  /\ \A v \in Ids : OwnParty(v) \in AllParties /\ OwnParty(v) \notin Parties /\ OwnParty(v) # None
  /\ \A q \in AllParties : q # None
  BY VendorAssumption DEF OwnParty, AllParties

\* An empty table of parties, nothing told, nobody at work.
LEMMA VendorInit == Init => VendorInv
<1> SUFFICES ASSUME Init PROVE VendorInv
  OBVIOUS
<1>0. \A v \in Ids : vendors[v] = NoVendor \/ vendors[v] = [NoVendor EXCEPT !.row = "live"]
  BY DEF Init
<1>1. \A v \in Ids : /\ vendors[v] \in VendorRow
                     /\ vendors[v].party = None /\ Advice(vendors[v]) = NoAdvice
  BY <1>0 DEF NoVendor, VendorRow, Advice, NoAdvice
<1>2. vendors \in [Ids -> VendorRow]
  <2>1. vendors = [v \in Ids |-> vendors[v]]
    BY DEF Init
  <2> QED
    BY <1>1, <2>1
<1>3. \A w \in Workers : worker[w] = Rest
  BY DEF Init
<1>4. Rest \in [at : Places, msg : Messages \cup {None}, seen : SUBSET Ids] /\ Rest.at = "fetch"
  BY DEF Rest, Places
<1>5. worker \in [Workers -> [at : Places, msg : Messages \cup {None}, seen : SUBSET Ids]]
  <2> DEFINE R == [at : Places, msg : Messages \cup {None}, seen : SUBSET Ids]
  <2>1. Rest \in R
    BY <1>4
  <2> HIDE DEF R
  <2>2. worker \in [Workers -> R]
    BY <2>1 DEF Init
  <2> QED
    BY <2>2 DEF R
<1>6. Types
  BY <1>2, <1>5 DEF Init, Types
<1>7. \A w \in Workers : Knows(w)
  BY <1>3, <1>4 DEF Knows
<1>8. Minted
  BY <1>1 DEF Minted, Init
<1>9. \A p \in AllParties : Carriers(p) = {}
  BY <1>1, VendorAssumption DEF Carriers, Live
<1>10. Pairwise /\ ToldOfDeletion
  BY <1>9 DEF Pairwise, ToldOfDeletion, Init
<1>11. AdviceKept /\ MarkedApplied
  BY <1>1 DEF AdviceKept, Holds, Advice, NoAdvice, MarkedApplied, Init
<1> QED
  BY <1>6, <1>7, <1>8, <1>10, <1>11 DEF VendorInv

-----------------------------------------------------------------------------
(* Rows *)

\* A row given a party keeps the rest.
LEMMA RowRekeyed ==
  ASSUME NEW x \in VendorRow, NEW q \in AllParties
  PROVE  /\ [x EXCEPT !.party = q] \in VendorRow
         /\ [x EXCEPT !.party = q].row = x.row
         /\ [x EXCEPT !.party = q].party = q
         /\ Advice([x EXCEPT !.party = q]) = Advice(x)
  BY DEF VendorRow, Advice

\* The row of no vendor.
LEMMA RowFree == NoVendor \in VendorRow /\ Advice(NoVendor) = NoAdvice /\ NoVendor.biz = None
  BY DEF NoVendor, VendorRow, Advice, NoAdvice

\* The rows in set S become live with party q; the others keep row and party.
Given(S, q) ==
    /\ \A u \in Ids \ S : vendors'[u].row = vendors[u].row /\ vendors'[u].party = vendors[u].party
    /\ \A u \in S : vendors'[u].row = "live" /\ vendors'[u].party = q

\* What happens to the carriers of a party when rows are given party q.
LEMMA CarriersGiven ==
  ASSUME NEW S \in SUBSET Ids, NEW q, Given(S, q)
  PROVE  /\ Carriers(q)' = Carriers(q) \cup S
         /\ \A p : p # q => Carriers(p)' = Carriers(p) \ S
  BY DEF Given, Carriers, Live

\* Party q exists, and may be told and announced when rows are given it; whoever
\* loses its last row is orphaned, and q is doubled unless S is its one row.
Accounted(S, q) ==
    /\ S # {}
    /\ q \in Parties \cup announced' /\ announced \subseteq announced'
    /\ \A v \in Ids : OwnParty(v) \in announced' => OwnParty(v) \in announced \/ v \in S
    /\ doubled \subseteq doubled'
    /\ q \in doubled' \/ \A u, v \in Carriers(q) \cup S : u = v
    /\ told' \subseteq told \cup {q}
    /\ orphaned \ {q} \subseteq orphaned' /\ Rekeyed(S, q) \subseteq orphaned'

\* The party part of the invariant when rows are given party q.
LEMMA GivenInv ==
  ASSUME VendorInv, NEW S \in SUBSET Ids, NEW q \in AllParties, Given(S, q), Accounted(S, q)
  PROVE  Minted' /\ Pairwise' /\ ToldOfDeletion'
<1> USE DEF Accounted
<1>1. Minted'
  <2>1. ASSUME NEW u \in Ids PROVE vendors'[u].party \in {None} \cup Parties \cup announced'
    <3>1. CASE u \in S
      BY <3>1 DEF Given
    <3>2. CASE u \notin S
      BY <3>2 DEF Given, VendorInv, Minted, Known
    <3> QED
      BY <3>1, <3>2
  <2>2. ASSUME NEW u \in Ids, OwnParty(u) \in announced'
        PROVE  /\ vendors'[u].row # "free"
               /\ vendors'[u].row = "live" => vendors'[u].party # None
    <3>1. CASE u \in S
      BY <3>1, OwnParties DEF Given
    <3>2. CASE u \notin S
      BY <2>2, <3>2 DEF Given, VendorInv, Minted
    <3> QED
      BY <3>1, <3>2
  <2> QED
    BY <2>1, <2>2 DEF Minted, Known
<1>2. Pairwise'
  <2> SUFFICES ASSUME NEW p \in AllParties \ doubled', NEW u \in Carriers(p)', NEW v \in Carriers(p)'
               PROVE  u = v
    BY DEF Pairwise
  <2>1. CASE p = q
    BY <2>1, CarriersGiven
  <2>2. CASE p # q
    <3>0. Carriers(p)' = Carriers(p) \ S
      BY <2>2, CarriersGiven
    <3>1. u \in Carriers(p) /\ v \in Carriers(p)
      BY <3>0
    <3> QED
      BY <3>1 DEF VendorInv, Pairwise
  <2> QED
    BY <2>1, <2>2
<1>3. ToldOfDeletion'
  <2> SUFFICES ASSUME NEW p \in told' PROVE Carriers(p)' # {} \/ p \in orphaned'
    BY DEF ToldOfDeletion
  <2>1. CASE p = q
    BY <2>1, CarriersGiven
  <2>2. CASE p # q
    <3>1. p \in told /\ (Carriers(p) # {} \/ p \in orphaned)
      BY <2>2 DEF VendorInv, ToldOfDeletion
    <3>2. Carriers(p)' = Carriers(p) \ S
      BY <2>2, CarriersGiven
    <3>3. CASE Carriers(p) # {} /\ Carriers(p) \subseteq S
      BY <2>2, <3>1, <3>3 DEF Rekeyed
    <3> QED
      BY <2>2, <3>1, <3>2, <3>3
  <2> QED
    BY <2>1, <2>2
<1> QED
  BY <1>1, <1>2, <1>3

\* The party part of the invariant when no row or party changes.
LEMMA SameParties ==
  ASSUME VendorInv, \A u \in Ids : vendors'[u].row = vendors[u].row /\ vendors'[u].party = vendors[u].party,
         doubled' = doubled, told' = told, announced' = announced, orphaned' = orphaned
  PROVE  Minted' /\ Pairwise' /\ ToldOfDeletion'
<1>1. \A p : Carriers(p)' = Carriers(p)
  BY DEF Carriers, Live
<1>2. Minted'
  BY DEF VendorInv, Minted, Known
<1>3. Pairwise'
  BY <1>1 DEF VendorInv, Pairwise
<1>4. ToldOfDeletion'
  BY <1>1 DEF VendorInv, ToldOfDeletion
<1> QED
  BY <1>2, <1>3, <1>4

-----------------------------------------------------------------------------
(* Consumer loops *)

WorkerRow == [at : Places, msg : Messages \cup {None}, seen : SUBSET Ids]

\* A loop that takes another step knows what it has to, the others what they
\* knew.
LEMMA WorkerStep ==
  ASSUME VendorInv, inbox' = inbox, applied \subseteq applied',
         announced \subseteq announced', NEW w \in Workers,
         NEW x \in WorkerRow, worker' = [worker EXCEPT ![w] = x],
         x.at # "fetch" => x.msg \in inbox /\ Known(x.msg.party),
         x.at = "insert" /\ x.msg.kind = "upsert" => x.seen = {},
         x.at = "mark" => x.msg.id \in applied'
  PROVE  worker' \in [Workers -> WorkerRow] /\ \A u \in Workers : Knows(u)'
<1>0. worker \in [Workers -> WorkerRow]
  BY DEF VendorInv, Types, WorkerRow
<1>1. worker' \in [Workers -> WorkerRow] /\ worker'[w] = x
      /\ \A u \in Workers \ {w} : worker'[u] = worker[u]
  BY <1>0
<1>2. Knows(w)'
  BY <1>1 DEF Knows, Known
<1>3. \A u \in Workers \ {w} : Knows(u)'
  BY <1>1 DEF VendorInv, Knows, Known
<1> QED
  BY <1>1, <1>2, <1>3

\* No loop takes a step.
LEMMA WorkersRest ==
  ASSUME VendorInv, inbox' = inbox, applied \subseteq applied', announced \subseteq announced',
         worker' = worker
  PROVE  worker' \in [Workers -> WorkerRow] /\ \A u \in Workers : Knows(u)'
  BY DEF VendorInv, Types, WorkerRow, Knows, Known

\* The place between two messages.
LEMMA RestRow == Rest \in WorkerRow /\ Rest.at = "fetch"
  BY DEF Rest, WorkerRow, Places

\* A loop between two messages.
LEMMA WorkerDone ==
  ASSUME VendorInv, inbox' = inbox, applied \subseteq applied', announced \subseteq announced',
         NEW w \in Workers, Done(w)
  PROVE  worker' \in [Workers -> WorkerRow] /\ \A u \in Workers : Knows(u)'
  BY RestRow, WorkerStep DEF Done

\* A loop goes on with the message in its hands.
LEMMA WorkerGoto ==
  ASSUME VendorInv, inbox' = inbox, applied \subseteq applied', announced \subseteq announced',
         NEW w \in Workers, NEW a \in Places \ {"fetch"}, worker[w].at # "fetch", Goto(w, a),
         a = "insert" => worker[w].msg.kind # "upsert",
         a = "mark" => worker[w].msg.id \in applied'
  PROVE  worker' \in [Workers -> WorkerRow] /\ \A u \in Workers : Knows(u)'
<1> DEFINE x == [worker[w] EXCEPT !.at = a]
<1>1. worker[w] \in WorkerRow /\ worker[w].msg \in inbox /\ Known(worker[w].msg.party)
  BY DEF VendorInv, Types, WorkerRow, Knows
<1>2. x \in WorkerRow /\ x.at = a /\ x.msg = worker[w].msg
  BY <1>1 DEF WorkerRow
<1>3. worker' = [worker EXCEPT ![w] = x]
  BY DEF Goto
<1> HIDE DEF x
<1> QED
  BY <1>1, <1>2, <1>3, WorkerStep

-----------------------------------------------------------------------------
(* Advice *)

\* Rows keep their advice, or start without.
LEMMA AdviceUntouched ==
  ASSUME VendorInv,
         \A u \in Ids : Advice(vendors'[u]) \in {NoAdvice, Advice(vendors[u])}
  PROVE  AdviceKept'
<1> SUFFICES ASSUME NEW u \in Ids PROVE Holds(vendors'[u])
  BY DEF AdviceKept
<1>1. CASE Advice(vendors'[u]) = NoAdvice
  BY <1>1 DEF Holds, Advice, NoAdvice
<1>2. CASE Advice(vendors'[u]) = Advice(vendors[u])
  BY <1>2 DEF VendorInv, AdviceKept, Holds, Advice
<1> QED
  BY <1>1, <1>2

\* Nothing is marked, and what was applied stays applied.
LEMMA MarksUntouched ==
  ASSUME VendorInv, inbox' = inbox, dedupe' = dedupe, applied \subseteq applied'
  PROVE  MarkedApplied'
  BY DEF VendorInv, MarkedApplied

-----------------------------------------------------------------------------
(* The actions *)

\* POST: the new row is the only one that can carry the party minted for it.
LEMMA CreateVendorInv ==
  ASSUME VendorInv, NEW v \in Ids, CreateVendor(v), inbox' = inbox
  PROVE  VendorInv'
<1> DEFINE y == [NoVendor EXCEPT !.row = "live", !.party = OwnParty(v)]
<1>0. vendors \in [Ids -> VendorRow] /\ OwnParty(v) \in AllParties
  BY OwnParties DEF VendorInv, Types
<1>1. y \in VendorRow /\ y.row = "live" /\ y.party = OwnParty(v) /\ Advice(y) = NoAdvice
  BY <1>0, RowFree DEF VendorRow, Advice
<1>2. vendors' = [vendors EXCEPT ![v] = y]
  BY DEF CreateVendor
<1> HIDE DEF y
<1>3. vendors' \in [Ids -> VendorRow] /\ vendors'[v] = y /\ \A u \in Ids \ {v} : vendors'[u] = vendors[u]
  BY <1>0, <1>1, <1>2
<1>4. Given({v}, OwnParty(v))
  BY <1>1, <1>3 DEF Given
<1>5. v \notin Live
  BY DEF CreateVendor, Live
<1>6. Carriers(OwnParty(v)) = {}
  <2>1. ~Known(OwnParty(v))
    BY OwnParties DEF VendorInv, Minted, Known, CreateVendor
  <2> QED
    BY <2>1, OwnParties DEF VendorInv, Minted, Carriers, Live
<1>7. Rekeyed({v}, OwnParty(v)) = {}
  BY <1>5 DEF Rekeyed, Carriers
<1>8. Minted' /\ Pairwise' /\ ToldOfDeletion'
  <2>1. Accounted({v}, OwnParty(v))
    BY <1>6, <1>7, OwnParties DEF CreateVendor, Accounted, Known
  <2> QED
    BY <1>0, <1>4, <2>1, GivenInv
<1>9. AdviceKept'
  BY <1>1, <1>3, AdviceUntouched
<1>10. worker' \in [Workers -> WorkerRow] /\ \A u \in Workers : Knows(u)'
  BY WorkersRest DEF CreateVendor
<1>11. MarkedApplied'
  BY MarksUntouched DEF CreateVendor
<1>12. Types'
  BY <1>0, <1>3, <1>10 DEF VendorInv, Types, CreateVendor, WorkerRow
<1> QED
  BY <1>8, <1>9, <1>10, <1>11, <1>12 DEF VendorInv

\* PATCH: a row without a party gets its own.
LEMMA UpdateVendorInv ==
  ASSUME VendorInv, NEW v \in Ids, UpdateVendor(v), inbox' = inbox
  PROVE  VendorInv'
<1>1. PICK q : q = Backfilled(v)
  OBVIOUS
<1>0. vendors \in [Ids -> VendorRow] /\ vendors[v] \in VendorRow /\ q \in AllParties
  <2>1. vendors[v].party \in AllParties \cup {None}
    BY DEF VendorInv, Types, VendorRow
  <2> QED
    BY <1>1, <2>1, OwnParties DEF VendorInv, Types, Backfilled
<1> DEFINE y == [vendors[v] EXCEPT !.party = q]
<1>2. y \in VendorRow /\ y.row = vendors[v].row /\ y.party = q
      /\ Advice(y) = Advice(vendors[v])
  BY <1>0, RowRekeyed
<1>3. vendors' = [vendors EXCEPT ![v] = y]
  BY <1>1 DEF UpdateVendor
<1> HIDE DEF y
<1>4. vendors' \in [Ids -> VendorRow] /\ vendors'[v] = y /\ \A u \in Ids \ {v} : vendors'[u] = vendors[u]
  BY <1>0, <1>2, <1>3
<1>5. v \in Live /\ vendors[v].row = "live"
  BY DEF UpdateVendor, Live
<1>6. Given({v}, q)
  BY <1>2, <1>4, <1>5 DEF Given
<1>7. vendors[v].party = q \/ (vendors[v].party = None /\ q = OwnParty(v))
  BY <1>1 DEF Backfilled
<1>8. \A u \in Ids : q = OwnParty(u) => OwnParty(u) \in announced \/ u = v
  BY <1>7, OwnParties DEF VendorInv, Minted, Known
<1>9. q \in doubled \/ \A a, b \in Carriers(q) \cup {v} : a = b
  <2>1. CASE vendors[v].party = q
    BY <1>0, <1>5, <2>1 DEF VendorInv, Pairwise, Carriers
  <2>2. CASE vendors[v].party = None /\ q = OwnParty(v)
    <3>1. ~Known(q)
      BY <1>5, <2>2, OwnParties DEF VendorInv, Minted, Known
    <3>2. Carriers(q) = {}
      BY <1>0, <3>1, OwnParties DEF VendorInv, Minted, Carriers, Live
    <3> QED
      BY <3>2
  <2> QED
    BY <1>7, <2>1, <2>2
<1>10. Rekeyed({v}, q) = {}
  <2> SUFFICES ASSUME NEW p \in told, p # q, Carriers(p) # {}, Carriers(p) \subseteq {v} PROVE FALSE
    BY DEF Rekeyed
  <2>1. vendors[v].party = p
    BY DEF Carriers
  <2>2. p \in AllParties
    BY DEF VendorInv, Types
  <2> QED
    BY <1>7, <2>1, <2>2, VendorAssumption
<1>11. told' = told \cup {q} /\ announced' = announced \cup {q} /\ orphaned' = orphaned \ {q} /\ doubled' = doubled
  BY <1>1 DEF UpdateVendor
<1>12. Minted' /\ Pairwise' /\ ToldOfDeletion'
  <2>1. Accounted({v}, q)
    BY <1>8, <1>9, <1>10, <1>11 DEF Accounted, Known
  <2> QED
    BY <1>0, <1>6, <2>1, GivenInv
<1>13. AdviceKept'
  BY <1>2, <1>4, AdviceUntouched
<1>14. worker' \in [Workers -> WorkerRow] /\ \A u \in Workers : Knows(u)'
  BY WorkersRest DEF UpdateVendor
<1>15. MarkedApplied'
  BY MarksUntouched DEF UpdateVendor
<1>16. Types'
  BY <1>0, <1>4, <1>11, <1>14 DEF VendorInv, Types, UpdateVendor, WorkerRow
<1> QED
  BY <1>12, <1>13, <1>14, <1>15, <1>16 DEF VendorInv

\* DELETE reads the party.
LEMMA DeleteReadInv ==
  ASSUME VendorInv, NEW v \in Ids, DeleteVendorRead(v), inbox' = inbox
  PROVE  VendorInv'
<1>1. deleting'.id \in Ids /\ deleting'.party \in AllParties \cup {None}
  BY DEF VendorInv, Types, VendorRow, DeleteVendorRead
<1>2. Minted' /\ Pairwise' /\ ToldOfDeletion'
  BY SameParties DEF DeleteVendorRead
<1>3. worker' \in [Workers -> WorkerRow] /\ \A u \in Workers : Knows(u)'
  BY WorkersRest DEF DeleteVendorRead
<1>4. AdviceKept' /\ MarkedApplied'
  BY AdviceUntouched, MarksUntouched DEF DeleteVendorRead
<1>5. Types'
  BY <1>1, <1>3 DEF VendorInv, Types, DeleteVendorRead, WorkerRow
<1> QED
  BY <1>2, <1>3, <1>4, <1>5 DEF VendorInv

\* DELETE removes the row and tells of the party it read; when the row has
\* another one by now, that one is orphaned.
LEMMA DeleteCommitInv ==
  ASSUME VendorInv, DeleteVendorCommit, inbox' = inbox
  PROVE  VendorInv'
<1>0. worker' \in [Workers -> WorkerRow] /\ \A u \in Workers : Knows(u)'
  BY WorkersRest DEF DeleteVendorCommit
<1>1. MarkedApplied'
  BY MarksUntouched DEF DeleteVendorCommit
<1>2. CASE UNCHANGED <<vendors, told, orphaned>>
  <2>1. Minted' /\ Pairwise' /\ ToldOfDeletion' /\ AdviceKept'
    BY <1>2, SameParties, AdviceUntouched DEF DeleteVendorCommit
  <2>2. Types'
    BY <1>0, <1>2 DEF VendorInv, Types, DeleteVendorCommit, WorkerRow
  <2> QED
    BY <1>0, <1>1, <2>1, <2>2 DEF VendorInv
<1>3. CASE /\ deleting.id \in Live
           /\ vendors' = [vendors EXCEPT ![deleting.id] = [NoVendor EXCEPT !.row = "gone"]]
           /\ told' = DeletedTold(deleting.party)
           /\ orphaned' = IF vendors[deleting.id].party = deleting.party THEN orphaned
                          ELSE orphaned \cup Rekeyed({deleting.id}, deleting.party)
  <2>1. PICK d, r : d = deleting.id /\ r = deleting.party
    OBVIOUS
  <2>2. d \in Ids /\ d \in Live /\ vendors \in [Ids -> VendorRow]
    BY <1>3, <2>1 DEF Live, VendorInv, Types
  <2> DEFINE y == [NoVendor EXCEPT !.row = "gone"]
  <2>3. y \in VendorRow /\ y.row = "gone" /\ y.party = None /\ Advice(y) = NoAdvice
    BY DEF NoVendor, VendorRow, Advice, NoAdvice
  <2>4. vendors' = [vendors EXCEPT ![d] = y]
    BY <1>3, <2>1
  <2> HIDE DEF y
  <2>5. vendors' \in [Ids -> VendorRow] /\ vendors'[d] = y /\ \A u \in Ids \ {d} : vendors'[u] = vendors[u]
    BY <2>2, <2>3, <2>4
  <2>6. ASSUME NEW p PROVE Carriers(p)' = Carriers(p) \ {d}
    BY <2>3, <2>5 DEF Carriers, Live
  <2>7. Minted'
    BY <2>3, <2>5 DEF VendorInv, Minted, Known, DeleteVendorCommit
  <2>8. Pairwise'
    <3> SUFFICES ASSUME NEW p \in AllParties \ doubled, NEW u \in Carriers(p)', NEW v \in Carriers(p)'
                 PROVE  u = v
      BY DEF Pairwise, DeleteVendorCommit
    <3>1. u \in Carriers(p) /\ v \in Carriers(p)
      BY <2>6
    <3> QED
      BY <3>1 DEF VendorInv, Pairwise
  <2>9. ToldOfDeletion'
    <3> SUFFICES ASSUME NEW p \in told' PROVE Carriers(p)' # {} \/ p \in orphaned'
      BY DEF ToldOfDeletion
    <3>1. p \in told /\ p # r /\ (Carriers(p) # {} \/ p \in orphaned) /\ orphaned \subseteq orphaned'
      BY <1>3, <2>1 DEF DeletedTold, VendorInv, ToldOfDeletion
    <3>2. Carriers(p)' = Carriers(p) \ {d}
      BY <2>6
    <3>3. CASE Carriers(p) # {} /\ Carriers(p) \subseteq {d}
      <4>1. vendors[d].party = p
        BY <3>3 DEF Carriers
      <4>2. p \in Rekeyed({d}, r)
        BY <3>1, <3>3 DEF Rekeyed
      <4> QED
        BY <1>3, <2>1, <3>1, <4>1, <4>2
    <3> QED
      BY <3>1, <3>2, <3>3
  <2>10. AdviceKept'
    BY <2>3, <2>5, AdviceUntouched
  <2>11. Types'
    BY <1>0, <1>3, <2>5 DEF VendorInv, Types, DeleteVendorCommit, DeletedTold, WorkerRow
  <2> QED
    BY <1>0, <1>1, <2>7, <2>8, <2>9, <2>10, <2>11 DEF VendorInv
<1> QED
  BY <1>2, <1>3 DEF DeleteVendorCommit

\* What is left for a consumer's statement that leaves deleting and told alone.
LEMMA ConsumerStatement ==
  ASSUME VendorInv, inbox' = inbox, deleting' = deleting, told' = told, announced' = announced,
         vendors' \in [Ids -> VendorRow],
         worker' \in [Workers -> WorkerRow], \A w \in Workers : Knows(w)',
         Minted', Pairwise', ToldOfDeletion', AdviceKept', MarkedApplied'
  PROVE  VendorInv'
  BY DEF VendorInv, Types, WorkerRow

\* The two consumers that mark first mark no advice.
LEMMA MarkFirstInv ==
  ASSUME VendorInv, inbox' = inbox, NEW w \in Workers, NEW m \in inbox, Known(m.party),
         m.kind # "advice", MarkFirst(w, m)
  PROVE  VendorInv'
<1> DEFINE x == [Rest EXCEPT !.at = "update", !.msg = m]
<1>0. m \in Messages /\ inbox \in Inboxes /\ vendors \in [Ids -> VendorRow]
  BY MessageTypes DEF VendorInv, Types
<1>2. x \in WorkerRow /\ x.at = "update" /\ x.msg = m
  BY <1>0, RestRow DEF WorkerRow, Places
<1>3. worker' = [worker EXCEPT ![w] = x]
  BY DEF MarkFirst
<1> HIDE DEF x
<1>4. worker' \in [Workers -> WorkerRow] /\ \A u \in Workers : Knows(u)'
  BY <1>2, <1>3, WorkerStep DEF MarkFirst
<1>5. MarkedApplied'
  <2> SUFFICES ASSUME NEW n \in inbox, n.kind = "advice", n.id \in dedupe' PROVE n.id \in applied
    BY DEF MarkedApplied, MarkFirst
  <2>1. n \in Messages
    BY <1>0 DEF Messages
  <2>2. n.id # m.id
    BY <1>0, <2>1, VendorAssumption
  <2> QED
    BY <2>2 DEF MarkFirst, VendorInv, MarkedApplied
<1>6. Minted' /\ Pairwise' /\ ToldOfDeletion' /\ AdviceKept'
  BY SameParties, AdviceUntouched DEF MarkFirst
<1> QED
  BY <1>0, <1>4, <1>5, <1>6, ConsumerStatement DEF MarkFirst

\* Advice is taken, not marked.
LEMMA TakeAdviceInv ==
  ASSUME VendorInv, inbox' = inbox, NEW w \in Workers, NEW m \in inbox, Known(m.party),
         TakeAdvice(w, m)
  PROVE  VendorInv'
<1> DEFINE x == [Rest EXCEPT !.at = "advise", !.msg = m]
<1>0. m \in Messages /\ vendors \in [Ids -> VendorRow]
  BY MessageTypes DEF VendorInv, Types
<1>2. x \in WorkerRow /\ x.at = "advise" /\ x.msg = m
  BY <1>0, RestRow DEF WorkerRow, Places
<1>3. worker' = [worker EXCEPT ![w] = x]
  BY DEF TakeAdvice
<1> HIDE DEF x
<1>4. worker' \in [Workers -> WorkerRow] /\ \A u \in Workers : Knows(u)'
  BY <1>2, <1>3, WorkerStep DEF TakeAdvice
<1>5. Minted' /\ Pairwise' /\ ToldOfDeletion' /\ AdviceKept' /\ MarkedApplied'
  BY SameParties, AdviceUntouched, MarksUntouched DEF TakeAdvice
<1> QED
  BY <1>0, <1>4, <1>5, ConsumerStatement DEF TakeAdvice

\* An UPDATE that matched one row leaves the party with that row; one that
\* matched several has doubled it; one that matched none saw no row of it.
LEMMA UpsertUpdateInv ==
  ASSUME VendorInv, inbox' = inbox, NEW w \in Workers, UpsertUpdate(w)
  PROVE  VendorInv'
<1>1. PICK m \in inbox : m = worker[w].msg /\ m.kind = "upsert"
  BY DEF UpsertUpdate, Message, VendorInv, Knows
<1>2. m.party \in AllParties /\ Known(m.party) /\ vendors \in [Ids -> VendorRow]
  BY <1>1, MessageTypes DEF VendorInv, Types, Knows, UpsertUpdate
<1>3. PICK set \in SUBSET Live : set = Matched(m)
  BY DEF Matched
<1>4. set \in SUBSET Ids /\ \A u \in set : vendors[u].row = "live"
  BY DEF Live
<1>5. Carriers(m.party) \subseteq set
  BY <1>3 DEF Carriers, Matched
<1>6. MarkedApplied'
  BY MarksUntouched DEF UpsertUpdate
<1>7. CASE set # {}
  <2>0. /\ vendors' = [v \in Ids |-> IF v \in set THEN [vendors[v] EXCEPT !.party = m.party]
                                     ELSE vendors[v]]
        /\ doubled' = doubled \cup (IF Cardinality(set) > 1 THEN {m.party} ELSE {})
        /\ orphaned' = orphaned \cup Rekeyed(set, m.party)
        /\ Done(w)
    BY <1>1, <1>3, <1>7 DEF UpsertUpdate, Message
  <2>1. \A u \in Ids : /\ vendors'[u] \in VendorRow
                       /\ vendors'[u].row = vendors[u].row
                       /\ u \in set => vendors'[u].party = m.party
                       /\ u \notin set => vendors'[u].party = vendors[u].party
                       /\ Advice(vendors'[u]) = Advice(vendors[u])
    <3> TAKE u \in Ids
    <3>1. vendors[u] \in VendorRow
      BY <1>2
    <3>2. CASE u \in set
      <4>1. vendors'[u] = [vendors[u] EXCEPT !.party = m.party]
        BY <2>0, <3>2
      <4> QED
        BY <1>2, <3>1, <3>2, <4>1, RowRekeyed
    <3>3. CASE u \notin set
      BY <2>0, <3>1, <3>3
    <3> QED
      BY <3>2, <3>3
  <2>2. vendors' \in [Ids -> VendorRow]
    <3>1. vendors' = [u \in Ids |-> vendors'[u]]
      BY <2>0
    <3> QED
      BY <2>1, <3>1
  <2>3. Given(set, m.party)
    BY <1>4, <2>1 DEF Given
  <2>4. m.party \in doubled' \/ \A u, v \in set : u = v
    <3>1. CASE Cardinality(set) > 1
      BY <2>0, <3>1
    <3>2. CASE ~(Cardinality(set) > 1)
      <4>1. IsFiniteSet(set)
        BY <1>4, FS_Subset, VendorAssumption
      <4>2. Cardinality(set) \in Nat /\ Cardinality(set) # 0
        BY <1>7, <4>1, FS_CardinalityType, FS_EmptySet
      <4>3. Cardinality(set) = 1
        BY <3>2, <4>2
      <4>4. \E s : set = {s}
        BY <4>1, <4>3, FS_Singleton
      <4> QED
        BY <4>4
    <3> QED
      BY <3>1, <3>2
  <2>5. Accounted(set, m.party)
    BY <1>2, <1>5, <1>7, <2>0, <2>4, OwnParties DEF Accounted, Known, UpsertUpdate
  <2>6. Minted' /\ Pairwise' /\ ToldOfDeletion'
    BY <1>2, <1>4, <2>3, <2>5, GivenInv
  <2>7. AdviceKept'
    BY <2>1, AdviceUntouched
  <2>8. worker' \in [Workers -> WorkerRow] /\ \A u \in Workers : Knows(u)'
    BY <2>0, WorkerDone DEF UpsertUpdate
  <2> QED
    BY <1>6, <2>2, <2>6, <2>7, <2>8, ConsumerStatement DEF UpsertUpdate
<1>8. CASE set = {}
  <2>0. /\ worker' = [worker EXCEPT ![w].at = "insert", ![w].seen = Carriers(m.party)]
        /\ UNCHANGED <<vendors, doubled, orphaned>>
    BY <1>1, <1>3, <1>8 DEF UpsertUpdate, Message
  <2>1. Carriers(m.party) = {}
    BY <1>5, <1>8
  <2> DEFINE x == [worker[w] EXCEPT !.at = "insert", !.seen = {}]
  <2>2. worker \in [Workers -> WorkerRow] /\ worker[w] \in WorkerRow
    BY DEF VendorInv, Types, WorkerRow
  <2>3. worker' = [worker EXCEPT ![w] = x]
    <3> HIDE DEF VendorInv
    <3>1. worker' = [worker EXCEPT ![w].at = "insert", ![w].seen = {}]
      BY <2>0, <2>1, Zenon
    <3> QED
      BY <2>2, <3>1, Zenon
  <2>4. x \in WorkerRow /\ x.at = "insert" /\ x.msg = m /\ x.seen = {}
    BY <1>1, <2>2 DEF WorkerRow, Places
  <2> HIDE DEF x
  <2>5. worker' \in [Workers -> WorkerRow] /\ \A u \in Workers : Knows(u)'
    BY <1>2, <2>3, <2>4, WorkerStep DEF UpsertUpdate
  <2>6. Minted' /\ Pairwise' /\ ToldOfDeletion' /\ AdviceKept'
    BY <2>0, SameParties, AdviceUntouched DEF UpsertUpdate
  <2> QED
    BY <1>2, <1>6, <2>0, <2>5, <2>6, ConsumerStatement DEF UpsertUpdate
<1> QED
  BY <1>7, <1>8

\* The INSERT of a party of which the UPDATE saw no row, and no row came since,
\* writes its only row.
LEMMA UpsertInsertInv ==
  ASSUME VendorInv, inbox' = inbox, NEW w \in Workers, NEW v \in Ids, UpsertInsert(w, v)
  PROVE  VendorInv'
<1>1. PICK m \in inbox : m = worker[w].msg /\ m.kind = "upsert"
  BY DEF UpsertInsert, Message, VendorInv, Knows
<1>2. m.party \in AllParties /\ Known(m.party) /\ m.ref \in Refs \cup {None}
      /\ vendors \in [Ids -> VendorRow]
  BY <1>1, MessageTypes DEF VendorInv, Types, Knows, UpsertInsert
<1>3. worker[w].seen = {}
  BY <1>1 DEF UpsertInsert, VendorInv, Knows
<1> DEFINE y == [NoVendor EXCEPT !.row = "live", !.party = m.party, !.biz = m.ref]
<1>4. y \in VendorRow /\ y.row = "live" /\ y.party = m.party /\ Advice(y) = NoAdvice
  BY <1>2, RowFree DEF VendorRow, Advice
<1>5. vendors' = [vendors EXCEPT ![v] = y]
  BY <1>1 DEF UpsertInsert, Message
<1> HIDE DEF y
<1>6. vendors' \in [Ids -> VendorRow] /\ vendors'[v] = y /\ \A u \in Ids \ {v} : vendors'[u] = vendors[u]
  BY <1>2, <1>4, <1>5
<1>7. Given({v}, m.party)
  BY <1>4, <1>6 DEF Given
<1>8. Rekeyed({v}, m.party) = {}
  BY DEF Rekeyed, Carriers, UpsertInsert, Live
<1>9. m.party \in doubled' \/ Carriers(m.party) = {}
  BY <1>1, <1>3 DEF UpsertInsert, Message
<1>10. Accounted({v}, m.party)
  BY <1>2, <1>8, <1>9, OwnParties DEF Accounted, Known, UpsertInsert
<1>11. Minted' /\ Pairwise' /\ ToldOfDeletion'
  BY <1>2, <1>7, <1>10, GivenInv
<1>12. AdviceKept' /\ MarkedApplied'
  BY <1>4, <1>6, AdviceUntouched, MarksUntouched DEF UpsertInsert
<1>13. worker' \in [Workers -> WorkerRow] /\ \A u \in Workers : Knows(u)'
  BY WorkerDone DEF UpsertInsert
<1> QED
  BY <1>6, <1>11, <1>12, <1>13, ConsumerStatement DEF UpsertInsert

\* SyncSCMParty's UPDATE may double its party.
LEMMA SyncUpdateInv ==
  ASSUME VendorInv, inbox' = inbox, NEW w \in Workers, SyncUpdate(w)
  PROVE  VendorInv'
<1>1. PICK m \in inbox : m = worker[w].msg /\ m.kind = "party"
  BY DEF SyncUpdate, Message, VendorInv, Knows
<1>2. m.party \in AllParties /\ Known(m.party) /\ m.ref \in Refs \cup {None}
      /\ vendors \in [Ids -> VendorRow]
  BY <1>1, MessageTypes DEF VendorInv, Types, Knows, SyncUpdate
<1>3. PICK set \in SUBSET Live : set = {v \in Live : Named(v, m.ref)}
  OBVIOUS
<1>4. set \in SUBSET Ids /\ \A u \in set : vendors[u].row = "live"
  BY DEF Live
<1>5. MarkedApplied'
  BY MarksUntouched DEF SyncUpdate
<1>6. CASE set # {}
  <2>0. /\ vendors' = [v \in Ids |->
                   IF v \in set
                   THEN [vendors[v] EXCEPT !.party = m.party,
                                           !.biz = IF @ = None THEN m.ref ELSE @]
                   ELSE vendors[v]]
        /\ doubled' = doubled \cup {m.party}
        /\ orphaned' = orphaned \cup Rekeyed(set, m.party)
        /\ Done(w)
    BY <1>1, <1>3, <1>6 DEF SyncUpdate, Message
  <2>1. \A u \in Ids : /\ vendors'[u] \in VendorRow
                       /\ vendors'[u].row = vendors[u].row
                       /\ u \in set => vendors'[u].party = m.party
                       /\ u \notin set => vendors'[u].party = vendors[u].party
                       /\ Advice(vendors'[u]) = Advice(vendors[u])
    <3> TAKE u \in Ids
    <3>1. vendors[u] \in VendorRow
      BY <1>2
    <3>2. CASE u \in set
      <4> DEFINE b == IF vendors[u].biz = None THEN m.ref ELSE vendors[u].biz
                 y == [vendors[u] EXCEPT !.party = m.party, !.biz = b]
      <4>1. vendors'[u] = [vendors[u] EXCEPT !.party = m.party,
                                             !.biz = IF @ = None THEN m.ref ELSE @]
        BY <2>0, <3>2
      <4>2. vendors'[u] = y
        BY <3>1, <4>1 DEF VendorRow
      <4>3. b \in Refs \cup {None}
        BY <1>2, <3>1 DEF VendorRow
      <4> HIDE DEF b
      <4>4. /\ y \in VendorRow /\ y.row = vendors[u].row /\ y.party = m.party
            /\ Advice(y) = Advice(vendors[u])
        BY <1>2, <3>1, <4>3 DEF VendorRow, Advice
      <4> QED
        BY <3>2, <4>2, <4>4
    <3>3. CASE u \notin set
      BY <2>0, <3>1, <3>3
    <3> QED
      BY <3>2, <3>3
  <2>2. vendors' \in [Ids -> VendorRow]
    <3>1. vendors' = [u \in Ids |-> vendors'[u]]
      BY <2>0
    <3> QED
      BY <2>1, <3>1
  <2>3. Given(set, m.party)
    BY <1>4, <2>1 DEF Given
  <2>4. Accounted(set, m.party)
    BY <1>2, <1>6, <2>0, OwnParties DEF Accounted, Known, SyncUpdate
  <2>5. Minted' /\ Pairwise' /\ ToldOfDeletion'
    BY <1>2, <1>4, <2>3, <2>4, GivenInv
  <2>6. AdviceKept'
    BY <2>1, AdviceUntouched
  <2>7. worker' \in [Workers -> WorkerRow] /\ \A u \in Workers : Knows(u)'
    BY <2>0, WorkerDone DEF SyncUpdate
  <2> QED
    BY <1>5, <2>2, <2>5, <2>6, <2>7, ConsumerStatement DEF SyncUpdate
<1>7. CASE set = {}
  <2>0. Goto(w, "insert") /\ UNCHANGED <<vendors, doubled, orphaned>>
    BY <1>1, <1>3, <1>7 DEF SyncUpdate, Message
  <2>1. worker' \in [Workers -> WorkerRow] /\ \A u \in Workers : Knows(u)'
    BY <1>1, <2>0, WorkerGoto DEF SyncUpdate, Places
  <2>2. Minted' /\ Pairwise' /\ ToldOfDeletion' /\ AdviceKept'
    BY <2>0, SameParties, AdviceUntouched DEF SyncUpdate
  <2> QED
    BY <1>2, <1>5, <2>0, <2>1, <2>2, ConsumerStatement DEF SyncUpdate
<1> QED
  BY <1>6, <1>7

\* SyncSCMParty's INSERT writes the row of the derived id.
LEMMA SyncInsertInv ==
  ASSUME VendorInv, inbox' = inbox, NEW w \in Workers, SyncInsert(w)
  PROVE  VendorInv'
<1>1. PICK m \in inbox : m = worker[w].msg /\ m.kind = "party"
  BY DEF SyncInsert, Message, VendorInv, Knows
<1>2. m.party \in AllParties /\ Known(m.party) /\ m.ref \in Refs \cup {None}
      /\ SyncedId(m.ref) \in Ids /\ vendors \in [Ids -> VendorRow]
  BY <1>1, MessageTypes DEF VendorInv, Types, Knows, SyncInsert
<1>3. PICK v \in Ids : v = SyncedId(m.ref)
  BY <1>2
<1>4. PICK x \in VendorRow : /\ x = IF v \in Live THEN vendors[v] ELSE NoVendor
                             /\ Advice(x) \in {NoAdvice, Advice(vendors[v])}
  BY <1>2, RowFree
<1> DEFINE y == [x EXCEPT !.row = "live", !.party = m.party, !.biz = m.ref]
<1>5. y \in VendorRow /\ y.row = "live" /\ y.party = m.party /\ Advice(y) = Advice(x)
  BY <1>2 DEF VendorRow, Advice
<1>6. vendors' = [vendors EXCEPT ![v] = y]
  BY <1>1, <1>3, <1>4 DEF SyncInsert, Message
<1> HIDE DEF y
<1>7. vendors' \in [Ids -> VendorRow] /\ vendors'[v] = y /\ \A u \in Ids \ {v} : vendors'[u] = vendors[u]
  BY <1>2, <1>5, <1>6
<1>8. Given({v}, m.party)
  BY <1>5, <1>7 DEF Given
<1>9. Accounted({v}, m.party)
  BY <1>1, <1>2, <1>3, OwnParties DEF Accounted, Known, SyncInsert, Message
<1>10. Minted' /\ Pairwise' /\ ToldOfDeletion'
  BY <1>2, <1>8, <1>9, GivenInv
<1>11. AdviceKept' /\ MarkedApplied'
  BY <1>4, <1>5, <1>7, AdviceUntouched, MarksUntouched DEF SyncInsert
<1>12. worker' \in [Workers -> WorkerRow] /\ \A u \in Workers : Knows(u)'
  BY WorkerDone DEF SyncInsert
<1> QED
  BY <1>7, <1>10, <1>11, <1>12, ConsumerStatement DEF SyncInsert

\* Portal users change no party and no advice.
LEMMA LinkInv ==
  ASSUME VendorInv, inbox' = inbox, NEW w \in Workers, LinkPortalUser(w)
  PROVE  VendorInv'
<1>1. PICK m \in inbox : m = worker[w].msg
  BY DEF LinkPortalUser, Message, VendorInv, Knows
<1>2. m.user \in Users \cup {None} /\ vendors \in [Ids -> VendorRow]
  BY MessageTypes DEF VendorInv, Types
<1>3. vendors' = [v \in Ids |-> IF v \in Matched(m) THEN [vendors[v] EXCEPT !.user = m.user]
                                ELSE vendors[v]]
  BY <1>1 DEF LinkPortalUser, Message
<1>4. \A u \in Ids : /\ vendors'[u] \in VendorRow
                     /\ vendors'[u].row = vendors[u].row
                     /\ vendors'[u].party = vendors[u].party
                     /\ Advice(vendors'[u]) = Advice(vendors[u])
  <2> TAKE u \in Ids
  <2>1. vendors[u] \in VendorRow
    BY <1>2
  <2>2. \/ vendors'[u] = [vendors[u] EXCEPT !.user = m.user]
        \/ vendors'[u] = vendors[u]
    BY <1>3
  <2> QED
    BY <1>2, <2>1, <2>2 DEF VendorRow, Advice
<1>5. vendors' \in [Ids -> VendorRow]
  <2>1. vendors' = [u \in Ids |-> vendors'[u]]
    BY <1>3
  <2> QED
    BY <1>4, <2>1
<1>6. Minted' /\ Pairwise' /\ ToldOfDeletion'
  BY <1>4, SameParties DEF LinkPortalUser
<1>7. AdviceKept' /\ MarkedApplied'
  BY <1>4, AdviceUntouched, MarksUntouched DEF LinkPortalUser
<1>8. worker' \in [Workers -> WorkerRow] /\ \A u \in Workers : Knows(u)'
  BY WorkerDone DEF LinkPortalUser
<1> QED
  BY <1>5, <1>6, <1>7, <1>8, ConsumerStatement DEF LinkPortalUser

\* A vendor that hears advice has it, or newer; older advice changes nothing.
LEMMA AdviceInv ==
  ASSUME VendorInv, inbox' = inbox, NEW w \in Workers, NEW now \in Clock,
         ApplyQCRecommendation(w, now)
  PROVE  VendorInv'
<1>1. PICK m \in inbox : m = worker[w].msg
  BY DEF ApplyQCRecommendation, VendorInv, Knows
<1>2. m \in Messages /\ m # None /\ m.at \in Nat \cup {Undated} /\ vendors \in [Ids -> VendorRow]
  BY MessageTypes DEF VendorInv, Types
<1>10. PICK at \in Nat : at = Stamped(m, now) /\ at >= m.at /\ (m.at # Undated => at = m.at)
  BY <1>2, VendorAssumption DEF Stamped, Undated
<1>3. /\ vendors' = [v \in Ids |->
             IF v \in Live /\ Named(v, m.ref)
             THEN [vendors[v] EXCEPT !.advice = IF Newer(v, at) THEN m ELSE @,
                                     !.adviceAt = IF Newer(v, at) THEN at ELSE @,
                                     !.heard = @ \cup {m}]
             ELSE vendors[v]]
      /\ applied' = applied \cup {m.id} /\ Goto(w, "mark")
  BY <1>1, <1>10 DEF ApplyQCRecommendation, Message
<1>4. \A u \in Ids : /\ vendors'[u] \in VendorRow
                     /\ vendors'[u].row = vendors[u].row
                     /\ vendors'[u].party = vendors[u].party
                     /\ Holds(vendors'[u])
  <2> TAKE u \in Ids
  <2>1. /\ vendors[u] \in VendorRow /\ vendors[u].adviceAt \in Int
        /\ vendors[u].heard \in SUBSET Messages /\ vendors[u].advice \in Messages \cup {None}
        /\ Holds(vendors[u])
    BY <1>2 DEF VendorRow, VendorInv, AdviceKept
  <2>2. \A n \in vendors[u].heard \cup {m} : n.at \in Int
    BY <1>2, <2>1, VendorAssumption DEF Undated
  <2>3. CASE ~(u \in Live /\ Named(u, m.ref))
    BY <1>3, <2>1, <2>3
  <2>4. CASE u \in Live /\ Named(u, m.ref)
    <3> DEFINE x == vendors[u]
               a == IF x.adviceAt <= at THEN m ELSE x.advice
               t == IF x.adviceAt <= at THEN at ELSE x.adviceAt
               h == x.heard \cup {m}
               y == [x EXCEPT !.advice = a, !.adviceAt = t, !.heard = h]
    <3>1. vendors'[u] = [vendors[u] EXCEPT !.advice = IF Newer(u, at) THEN m ELSE @,
                                           !.adviceAt = IF Newer(u, at) THEN at ELSE @,
                                           !.heard = @ \cup {m}]
      BY <1>3, <2>4
    <3>2. vendors'[u] = y
      BY <2>1, <3>1 DEF VendorRow, Newer
    <3>3. /\ t \in Int /\ h \in SUBSET Messages /\ a \in Messages \cup {None}
          /\ \A n \in h : t >= n.at
          /\ a # None
          /\ a.at # Undated => t = a.at
      <4>1. x.advice = None => x.adviceAt = -1
        BY <2>1 DEF Holds, Advice, NoAdvice
      <4>2. \A n \in x.heard : x.adviceAt >= n.at
        BY <2>1 DEF Holds
      <4>3. x.advice # None /\ x.advice.at # Undated => x.adviceAt = x.advice.at
        BY <2>1 DEF Holds
      <4>4. CASE x.adviceAt <= at
        BY <1>2, <1>10, <2>1, <2>2, <4>2, <4>4
      <4>5. CASE ~(x.adviceAt <= at)
        BY <1>2, <1>10, <2>1, <2>2, <4>1, <4>2, <4>3, <4>5
      <4> QED
        BY <4>4, <4>5
    <3> HIDE DEF a, t, h
    <3>4. /\ y \in VendorRow /\ y.row = x.row /\ y.party = x.party
          /\ y.advice = a /\ y.adviceAt = t /\ y.heard = h
      BY <2>1, <3>3 DEF VendorRow
    <3>5. Holds(y)
      BY <3>3, <3>4 DEF Holds
    <3> QED
      BY <3>2, <3>4, <3>5
  <2> QED
    BY <2>3, <2>4
<1>5. vendors' \in [Ids -> VendorRow]
  <2>1. vendors' = [u \in Ids |-> vendors'[u]]
    BY <1>3
  <2> QED
    BY <1>4, <2>1
<1>6. Minted' /\ Pairwise' /\ ToldOfDeletion'
  BY <1>4, SameParties DEF ApplyQCRecommendation
<1>7. AdviceKept'
  BY <1>4 DEF AdviceKept
<1>8. MarkedApplied'
  BY <1>3, MarksUntouched DEF ApplyQCRecommendation
<1>9. worker' \in [Workers -> WorkerRow] /\ \A u \in Workers : Knows(u)'
  BY <1>1, <1>3, WorkerGoto DEF ApplyQCRecommendation, Places
<1> QED
  BY <1>5, <1>6, <1>7, <1>8, <1>9, ConsumerStatement DEF ApplyQCRecommendation

\* Advice is marked by a consumer that has applied it.
LEMMA MarkAdviceInv ==
  ASSUME VendorInv, inbox' = inbox, NEW w \in Workers, MarkAdvice(w)
  PROVE  VendorInv'
<1>1. worker[w].msg.id \in applied /\ vendors \in [Ids -> VendorRow]
  BY DEF MarkAdvice, VendorInv, Knows, Types
<1>2. MarkedApplied'
  BY <1>1 DEF MarkAdvice, Message, VendorInv, MarkedApplied
<1>3. Minted' /\ Pairwise' /\ ToldOfDeletion' /\ AdviceKept'
  BY SameParties, AdviceUntouched DEF MarkAdvice
<1>4. worker' \in [Workers -> WorkerRow] /\ \A u \in Workers : Knows(u)'
  BY WorkerDone DEF MarkAdvice
<1> QED
  BY <1>1, <1>2, <1>3, <1>4, ConsumerStatement DEF MarkAdvice

\* A statement that fails, or a crash, leaves the tables alone.
LEMMA StatementFailsInv ==
  ASSUME VendorInv, inbox' = inbox, NEW w \in Workers, StatementFails(w)
  PROVE  VendorInv'
<1>1. Minted' /\ Pairwise' /\ ToldOfDeletion' /\ AdviceKept' /\ MarkedApplied'
  BY SameParties, AdviceUntouched, MarksUntouched DEF StatementFails
<1>2. worker' \in [Workers -> WorkerRow] /\ \A u \in Workers : Knows(u)'
  BY WorkerDone DEF StatementFails
<1>3. vendors \in [Ids -> VendorRow]
  BY DEF VendorInv, Types
<1> QED
  BY <1>1, <1>2, <1>3, ConsumerStatement DEF StatementFails

\* The inductive step, one case per action.
LEMMA VendorStep == VendorInv /\ [Next]_vars => VendorInv'
<1> SUFFICES ASSUME VendorInv, [Next]_vars PROVE VendorInv'
  OBVIOUS
<1>1. CASE UNCHANGED vars
  <2>1. Minted' /\ Pairwise' /\ ToldOfDeletion' /\ AdviceKept' /\ MarkedApplied'
    BY <1>1, SameParties, AdviceUntouched, MarksUntouched DEF vars
  <2>2. worker' \in [Workers -> WorkerRow] /\ \A u \in Workers : Knows(u)'
    BY <1>1, WorkersRest DEF vars
  <2>3. vendors \in [Ids -> VendorRow]
    BY DEF VendorInv, Types
  <2> QED
    BY <1>1, <2>1, <2>2, <2>3, ConsumerStatement DEF vars
<1>2. CASE Step /\ inbox' = inbox
  <2>1. CASE postVendor \/ patchVendor \/ deleteVendor
    BY <1>2, <2>1, CreateVendorInv, UpdateVendorInv, DeleteReadInv
       DEF postVendor, patchVendor, deleteVendor
  <2>2. ASSUME NEW w \in Workers, NEW m \in inbox, Known(m.party),
               scmHandleMessage(w, m) \/ vendorSyncHandleMessage(w, m) \/ qualityHandleMessage(w, m)
        PROVE  VendorInv'
    BY <1>2, <2>2, MarkFirstInv, TakeAdviceInv
       DEF scmHandleMessage, vendorSyncHandleMessage, qualityHandleMessage
  <2>3. ASSUME NEW w \in Workers, UpsertUpdate(w) \/ \E v \in Ids : UpsertInsert(w, v)
        PROVE  VendorInv'
    BY <1>2, <2>3, UpsertUpdateInv, UpsertInsertInv
  <2>4. ASSUME NEW w \in Workers, SyncUpdate(w) \/ SyncInsert(w) PROVE VendorInv'
    BY <1>2, <2>4, SyncUpdateInv, SyncInsertInv
  <2>5. ASSUME NEW w \in Workers,
               \/ LinkPortalUser(w) \/ MarkAdvice(w) \/ StatementFails(w)
               \/ \E now \in Clock : ApplyQCRecommendation(w, now)
        PROVE  VendorInv'
    BY <1>2, <2>5, LinkInv, AdviceInv, MarkAdviceInv, StatementFailsInv
  <2> QED
    BY <1>2, <2>1, <2>2, <2>3, <2>4, <2>5, DeleteCommitInv DEF Step
<1> QED
  BY <1>1, <1>2 DEF Next

\* The vendor master keeps its strengthened invariant forever.
THEOREM VendorInvariant == Spec => []VendorInv
  BY VendorInit, VendorStep, PTL DEF Spec

\* A party has one row, but for the three ways named in the property
\* (vendor_sync.go:74-75): no other interleaving of endpoints and consumers
\* doubles a vendor.
THEOREM PartiesHaveOneRow == Spec => []OneRowPerParty
<1>1. VendorInv => OneRowPerParty
  <2> SUFFICES ASSUME VendorInv, NEW p \in AllParties, p \notin doubled
               PROVE  ~(Cardinality(Carriers(p)) > 1)
    BY DEF OneRowPerParty
  <2>1. \A u, v \in Carriers(p) : u = v
    BY DEF VendorInv, Pairwise
  <2>2. CASE Carriers(p) = {}
    BY <2>2, FS_EmptySet
  <2>3. CASE Carriers(p) # {}
    <3>1. PICK u : Carriers(p) = {u}
      BY <2>1, <2>3
    <3> QED
      BY <3>1, FS_Singleton
  <2> QED
    BY <2>2, <2>3
<1> QED
  BY <1>1, VendorInvariant, PTL

\* What the other services believe active here has a row here, however the
\* DELETE's unlocked read and the consumers interleave, unless its row was
\* given another party (procurement_update_delete.go:118-119).
THEOREM MeshIsTold == Spec => []ToldOfDeletion
<1>1. VendorInv => ToldOfDeletion
  BY DEF VendorInv
<1> QED
  BY <1>1, VendorInvariant, PTL

\* Advice that is marked was applied, and no redelivered or late advice rolls a
\* newer one back (vendor_quality.go:88-89, consumer/quality.go:100-101), unless
\* it came without a time and took the clock's.
THEOREM AdviceIsKept == Spec => []AdviceStands
<1>1. VendorInv => AdviceStands
  BY DEF VendorInv, AdviceKept, Holds, Advice, NoAdvice, MarkedApplied, AdviceStands, Live
<1> QED
  BY <1>1, VendorInvariant, PTL
=============================================================================
