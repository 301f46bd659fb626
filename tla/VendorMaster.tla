---------------------------- MODULE VendorMaster ----------------------------
(***************************************************************************)
(* The vendor master, kept by four writers: the vendor endpoints, which    *)
(* tell the other services of every change (party.vendor.upserted), and    *)
(* three consumers, which never do: supply-chain parties and portal links  *)
(* (consumer/supplychain.go), peers' vendor changes                        *)
(* (consumer/vendorsync.go) and quality's advice (consumer/quality.go).    *)
(*                                                                         *)
(* The consumers' statements are separate commits, so every statement is a *)
(* step.  Topics are not ordered with each other and messages come again,  *)
(* so any process may take any message at any time, except that nobody can *)
(* name a party minted here before this service has announced it; then     *)
(* peers do, and the party comes back in their messages.  Names, addresses *)
(* and statuses are left out.                                              *)
(*                                                                         *)
(* Since migration 027 made vendors.id a uuid, PostgreSQL refuses "id = $2"*)
(* in SyncSCMParty and LinkPortalUser, where $2 is text, and StatementFails *)
(* is the only outcome there.  The statements are modelled as they read.   *)
(***************************************************************************)
EXTENDS Integers, FiniteSets

CONSTANTS
    RowIds,     \* ids gen_random_uuid will give
    Parties,    \* party ids minted by other services
    Codes,      \* SCM business ids
    Users,      \* portal users
    Inboxes,    \* what the topics may hold: sets of [id, kind, party, ref, at, user]
    Workers,    \* consumer loops, over all topics and processes
    Clock,      \* what the clocks of the processes may read
    None,
    MaxFaults   \* bound on failing statements and crashes

SyncedId(c) == <<"scm", c>>     \* md5 of the business id
OwnParty(v) == <<"own", v>>     \* the party id minted for row v
Ids == RowIds \cup {SyncedId(c) : c \in Codes}
AllParties == Parties \cup {OwnParty(v) : v \in Ids}
Refs == Codes \cup RowIds       \* what a message may name a vendor by
Messages == UNION Inboxes
Undated == -1                   \* the time of advice that carries none

ASSUME VendorAssumption ==
    /\ MaxFaults \in Nat
    /\ IsFiniteSet(Ids)
    /\ Clock \subseteq Nat
    /\ None \notin AllParties /\ None \notin Messages
    \* uuid.NewString: nobody else mints the same id.  Messages may carry it.
    /\ \A v \in Ids : OwnParty(v) \notin Parties
    /\ \A m \in Messages : /\ m.kind \in {"party", "link", "upsert", "advice"}
                           /\ m.party \in AllParties /\ m.ref \in Refs \cup {None}
                           /\ m.at \in Nat \cup {Undated} /\ m.user \in Users \cup {None}
                           /\ m.kind = "party" => m.ref \in Codes
    \* Event ids are unique, so no advice has that of another kind of event.
    /\ \A m, n \in Messages : m.id = n.id => (m.kind = "advice" <=> n.kind = "advice")

VARIABLES
    inbox,    \* the messages on the topics
    vendors,  \* id -> row
    dedupe,   \* kafka_dedupe: event ids
    worker,   \* consumer loop -> its place in handleMessage
    deleting, \* a DeleteVendor between its read and its DELETE
    told,     \* parties the other services were last told are active here
    announced,\* parties the other services were ever told of
    applied,  \* history: advice whose UPDATE committed
    doubled,  \* history: parties given to several rows in one of the known ways
    orphaned, \* history: told parties whose row was given another one
    faults

vars == <<inbox, vendors, dedupe, worker, deleting, told, announced, applied,
          doubled, orphaned, faults>>

NoVendor == [row |-> "free", party |-> None, biz |-> None, user |-> None,
             advice |-> None, adviceAt |-> -1, heard |-> {}]
Rest == [at |-> "fetch", msg |-> None, seen |-> {}]

Init ==
    /\ inbox \in Inboxes
    /\ vendors \in [Ids -> {NoVendor, [NoVendor EXCEPT !.row = "live"]}]
    /\ \A c \in Codes : vendors[SyncedId(c)] = NoVendor
    /\ dedupe = {}
    /\ worker = [w \in Workers |-> Rest]
    /\ deleting = None
    /\ told = {} /\ announced = {}
    /\ applied = {} /\ doubled = {} /\ orphaned = {}
    /\ faults = 0

Live == {v \in Ids : vendors[v].row = "live"}
Carriers(p) == {v \in Live : vendors[v].party = p}
Fault == faults < MaxFaults /\ faults' = faults + 1

\* Nobody names a party before it is minted and announced.
Known(p) == p \in Parties \cup announced

\* Parties that lose their last row when the rows in set get party p.
Rekeyed(set, p) == {q \in told : q # p /\ Carriers(q) # {} /\ Carriers(q) \subseteq set}

-----------------------------------------------------------------------------
(* The vendor endpoints *)

CreateVendor(v) ==
    /\ v \in RowIds /\ vendors[v].row = "free"
    /\ vendors' = [vendors EXCEPT ![v] = [NoVendor EXCEPT !.row = "live", !.party = OwnParty(v)]]
    /\ told' = told \cup {OwnParty(v)}
    /\ announced' = announced \cup {OwnParty(v)}
    /\ UNCHANGED <<dedupe, worker, deleting, applied, doubled, orphaned, faults>>

\* COALESCE: a legacy vendor gets a party, an existing one keeps its own.
Backfilled(v) == IF vendors[v].party = None THEN OwnParty(v) ELSE vendors[v].party

UpdateVendor(v) ==
    /\ v \in Live
    /\ vendors' = [vendors EXCEPT ![v].party = Backfilled(v)]
    /\ told' = told \cup {Backfilled(v)}
    /\ announced' = announced \cup {Backfilled(v)}
    /\ orphaned' = orphaned \ {Backfilled(v)}
    /\ UNCHANGED <<dedupe, worker, deleting, applied, doubled, faults>>

\* DeleteVendor reads the party without a lock ...
DeleteVendorRead(v) ==
    /\ deleting = None
    /\ v \in Live
    /\ deleting' = [id |-> v, party |-> vendors[v].party]
    /\ UNCHANGED <<vendors, dedupe, worker, told, announced, applied, doubled, orphaned, faults>>

\* Mutant: nobody is told.
DeletedSilently(p) == told

\* The deactivation enqueued for the party that was read, if there was one.
DeletedTold(p) == told \ {p}

\* ... and deletes the row, unless something references it (a rollback).
DeleteVendorCommit ==
    /\ deleting # None
    /\ \/ /\ deleting.id \in Live
          /\ vendors' = [vendors EXCEPT ![deleting.id] = [NoVendor EXCEPT !.row = "gone"]]
          /\ told' = DeletedTold(deleting.party)
          /\ orphaned' = IF vendors[deleting.id].party = deleting.party THEN orphaned
                         ELSE orphaned \cup Rekeyed({deleting.id}, deleting.party)
       \/ UNCHANGED <<vendors, told, orphaned>>
    /\ deleting' = None
    /\ UNCHANGED <<dedupe, worker, announced, applied, doubled, faults>>

\* The routes; a body that fails validation is refused before this.
postVendor == \E v \in Ids : CreateVendor(v)
patchVendor == \E v \in Ids : UpdateVendor(v)
deleteVendor == \E v \in Ids : DeleteVendorRead(v)

-----------------------------------------------------------------------------
(* The consumers *)

Goto(w, place) == worker' = [worker EXCEPT ![w].at = place]
Message(w) == worker[w].msg
Done(w) == worker' = [worker EXCEPT ![w] = Rest]

\* MarkKafkaEventProcessed first: an event seen before is skipped.
MarkFirst(w, m) ==
    /\ worker[w].at = "fetch"
    /\ m.id \notin dedupe
    /\ dedupe' = dedupe \cup {m.id}
    /\ worker' = [worker EXCEPT ![w] = [Rest EXCEPT !.at = "update", !.msg = m]]
    /\ UNCHANGED <<vendors, deleting, told, announced, applied, doubled, orphaned, faults>>

\* Advice is applied before it is marked, however often it comes.
TakeAdvice(w, m) ==
    /\ worker[w].at = "fetch"
    /\ worker' = [worker EXCEPT ![w] = [Rest EXCEPT !.at = "advise", !.msg = m]]
    /\ UNCHANGED <<vendors, dedupe, deleting, told, announced, applied, doubled, orphaned, faults>>

Named(v, ref) == ref # None /\ (v = ref \/ vendors[v].biz = ref)

\* Mutant: rows are found by their natural key only.
MatchedByRef(m) == {v \in Live : Named(v, m.ref)}

\* The rows UpsertVendorByParty updates: every one that matches either way.
Matched(m) == {v \in Live : vendors[v].party = m.party \/ Named(v, m.ref)}

\* UpsertVendorByParty: UPDATE, and the INSERT when nothing matched.
UpsertUpdate(w) ==
    LET m == Message(w)
        set == Matched(m)
    IN  /\ worker[w].at = "update" /\ m.kind = "upsert"
        /\ \/ /\ set # {}
              /\ vendors' = [v \in Ids |-> IF v \in set THEN [vendors[v] EXCEPT !.party = m.party]
                                           ELSE vendors[v]]
              /\ doubled' = doubled \cup (IF Cardinality(set) > 1 THEN {m.party} ELSE {})
              /\ orphaned' = orphaned \cup Rekeyed(set, m.party)
              /\ Done(w)
           \/ /\ set = {}
              /\ worker' = [worker EXCEPT ![w].at = "insert", ![w].seen = Carriers(m.party)]
              /\ UNCHANGED <<vendors, doubled, orphaned>>
        /\ UNCHANGED <<dedupe, deleting, told, announced, applied, faults>>

\* scm_business_id is unique: a second row for a code is an error.
UniqueRef(ref, v) == ref = None \/ \A u \in Live \ {v} : vendors[u].biz # ref

UpsertInsert(w, v) ==
    LET m == Message(w)
    IN  /\ worker[w].at = "insert" /\ m.kind = "upsert"
        /\ v \in RowIds /\ vendors[v].row = "free"
        /\ UniqueRef(m.ref, v)
        /\ vendors' = [vendors EXCEPT ![v] = [NoVendor EXCEPT !.row = "live", !.party = m.party,
                                                              !.biz = m.ref]]
        \* A row of the party appeared since the UPDATE.
        /\ doubled' = doubled \cup (IF Carriers(m.party) \subseteq worker[w].seen THEN {}
                                    ELSE {m.party})
        /\ Done(w)
        /\ UNCHANGED <<dedupe, deleting, told, announced, applied, orphaned, faults>>

\* SyncSCMParty: rows are found by the business id, never by the party.
SyncUpdate(w) ==
    LET m == Message(w)
        set == {v \in Live : Named(v, m.ref)}
    IN  /\ worker[w].at = "update" /\ m.kind = "party"
        /\ \/ /\ set # {}
              /\ vendors' = [v \in Ids |->
                   IF v \in set
                   THEN [vendors[v] EXCEPT !.party = m.party,
                                           !.biz = IF @ = None THEN m.ref ELSE @]
                   ELSE vendors[v]]
              /\ doubled' = doubled \cup {m.party}
              /\ orphaned' = orphaned \cup Rekeyed(set, m.party)
              /\ Done(w)
           \/ /\ set = {}
              /\ Goto(w, "insert")
              /\ UNCHANGED <<vendors, doubled, orphaned>>
        /\ UNCHANGED <<dedupe, deleting, told, announced, applied, faults>>

\* The derived id makes a replayed insert an update.
SyncInsert(w) ==
    LET m == Message(w)
        v == SyncedId(m.ref)
    IN  /\ worker[w].at = "insert" /\ m.kind = "party"
        /\ UniqueRef(m.ref, v)
        /\ vendors' = [vendors EXCEPT
             ![v] = [(IF v \in Live THEN vendors[v] ELSE NoVendor)
                       EXCEPT !.row = "live", !.party = m.party, !.biz = m.ref]]
        /\ doubled' = doubled \cup {m.party}
        /\ orphaned' = orphaned \cup Rekeyed({v}, m.party)
        /\ Done(w)
        /\ UNCHANGED <<dedupe, deleting, told, announced, applied, faults>>

LinkPortalUser(w) ==
    LET m == Message(w)
    IN  /\ worker[w].at = "update" /\ m.kind = "link"
        /\ vendors' = [v \in Ids |-> IF v \in Matched(m) THEN [vendors[v] EXCEPT !.user = m.user]
                                     ELSE vendors[v]]
        /\ Done(w)
        /\ UNCHANGED <<dedupe, deleting, told, announced, applied, doubled, orphaned, faults>>

\* parseScorecard: advice without a timestamp is dated by the consumer's clock,
\* whenever it comes and as often as it comes.
Stamped(m, now) == IF m.at = Undated THEN now ELSE m.at

\* Mutant: the last advice to arrive wins.
AnyAdvice(v, at) == TRUE

\* qc_recommended_at IS NULL OR qc_recommended_at <= $5
Newer(v, at) == vendors[v].adviceAt <= at

ApplyQCRecommendation(w, now) ==
    LET m == Message(w)
        at == Stamped(m, now)
    IN  /\ worker[w].at = "advise"
        /\ vendors' = [v \in Ids |->
             IF v \in Live /\ Named(v, m.ref)
             THEN [vendors[v] EXCEPT !.advice = IF Newer(v, at) THEN m ELSE @,
                                     !.adviceAt = IF Newer(v, at) THEN at ELSE @,
                                     !.heard = @ \cup {m}]
             ELSE vendors[v]]
        /\ applied' = applied \cup {m.id}
        /\ Goto(w, "mark")
        /\ UNCHANGED <<dedupe, deleting, told, announced, doubled, orphaned, faults>>

MarkAdvice(w) ==
    /\ worker[w].at = "mark"
    /\ dedupe' = dedupe \cup {Message(w).id}
    /\ Done(w)
    /\ UNCHANGED <<vendors, deleting, told, announced, applied, doubled, orphaned, faults>>

\* A statement is refused, by the database or by the unique index, or the
\* process dies.  Not committed: the message comes again, on a restart.
StatementFails(w) ==
    /\ worker[w].at # "fetch"
    /\ Fault
    /\ Done(w)
    /\ UNCHANGED <<vendors, dedupe, deleting, told, announced, applied, doubled, orphaned>>

\* What a message's handler does with it first, by its type.
scmHandleMessage(w, m) == m.kind \in {"party", "link"} /\ MarkFirst(w, m)
vendorSyncHandleMessage(w, m) == m.kind = "upsert" /\ MarkFirst(w, m)
qualityHandleMessage(w, m) == m.kind = "advice" /\ TakeAdvice(w, m)

Step ==
    \/ postVendor \/ patchVendor \/ deleteVendor
    \/ DeleteVendorCommit
    \/ \E w \in Workers, m \in inbox :
         /\ Known(m.party)
         /\ \/ scmHandleMessage(w, m) \/ vendorSyncHandleMessage(w, m)
            \/ qualityHandleMessage(w, m)
    \/ \E w \in Workers : UpsertUpdate(w) \/ \E v \in Ids : UpsertInsert(w, v)
    \/ \E w \in Workers : SyncUpdate(w) \/ SyncInsert(w)
    \/ \E w \in Workers : LinkPortalUser(w)
    \/ \E w \in Workers : MarkAdvice(w) \/ \E now \in Clock : ApplyQCRecommendation(w, now)
    \/ \E w \in Workers : StatementFails(w)

Next == Step /\ UNCHANGED inbox

Spec == Init /\ [][Next]_vars

-----------------------------------------------------------------------------
\* Two rows carry one party only when one UPDATE of UpsertVendorByParty matched
\* both, when another consumer inserted the party between its UPDATE and its
\* INSERT, or when SyncSCMParty, which goes by the code, wrote the party.
\* "The real idempotency is the UPDATE above, which returns early when it
\* matches a row" (vendor_sync.go:74-75): party_id itself is not unique.
OneRowPerParty ==
    \A p \in AllParties : Cardinality(Carriers(p)) > 1 => p \in doubled

\* "Capture the shared key + name before the row is gone so the mesh can be
\* told to soft-deactivate this vendor" (procurement_update_delete.go:118-119):
\* a party the other services believe active here has a row here, unless the
\* row was given another party or got its party under the DELETE.
ToldOfDeletion ==
    \A p \in told : Carriers(p) # {} \/ p \in orphaned

\* "An older event than the one stored is ignored, so a redelivered or
\* reordered message cannot roll the advice back" (vendor_quality.go:88-89),
\* and "marking first would lose the advice if the update then failed"
\* (consumer/quality.go:100-101): advice marked has been applied, and a vendor
\* whose stored advice carries a time of its own has heard none newer.  Advice
\* without one takes the time it is applied at and, redelivered, does roll back;
\* it too hides no advice of a later time than its stamp.
AdviceStands ==
    /\ \A m \in inbox : m.kind = "advice" /\ m.id \in dedupe => m.id \in applied
    /\ \A v \in Live : \A m \in vendors[v].heard :
         /\ vendors[v].adviceAt >= m.at
         /\ vendors[v].advice.at # Undated => vendors[v].advice.at >= m.at
=============================================================================
