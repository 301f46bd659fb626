------------------------------ MODULE DeskChain ------------------------------
(***************************************************************************)
(* One requisition on a desk chain: the approval engine of                 *)
(* third_party/platform-go/approvalchain, driven by                        *)
(* internal/repo/requisition_desk_chain.go.                                *)
(*                                                                         *)
(* Every transition locks the requisition, so transitions of one           *)
(* requisition are steps.  What is not under that lock: the requisition's  *)
(* total, which a PATCH edits at any time; the desk matrix, which an       *)
(* administrator re-cuts after counting the requests in flight; and the    *)
(* engine built from the matrix, which every process caches.               *)
(*                                                                         *)
(* loadDeskChains sets neither AllowAutoApprove, NoSuccessiveApprover nor  *)
(* AllowRequester, so the branches they open do not exist here.  A call    *)
(* without the reason it needs is refused without effect and is left out.  *)
(* A caller is the e-mail of its token, which may be missing: the routes   *)
(* that open and submit a chain refuse such a caller, the desks do not.    *)
(***************************************************************************)
EXTENDS Integers, Sequences, FiniteSets

CONSTANTS
    People,      \* identities that call the desk endpoints: the e-mails of tokens
    Blank,       \* the identity of the tokens that carry none
    System,      \* the identity "system"
    Admins,      \* identities whose token is a super user's
    DeskKeys,    \* desk keys of every matrix
    Staff,       \* desk key -> people holding it by role, in the request's scope
    Permitted,   \* desk key -> people carrying the desk's RequiredPerm
    Matrices,    \* definitions the chain may be given: [desks, noRepeat]
    Amounts,     \* totals of the requisition
    Skips,       \* skip lists an opener may send
    Processes,   \* processes of the service, each with its own cached engine
    Nil,         \* no re-cut under way, no desk, nobody
    MaxHistory   \* bound on the steps a request accumulates

NoMatrix == [desks |-> <<>>, noRepeat |-> FALSE]   \* the chain was deleted

ASSUME DeskAssumption ==
    /\ Admins \subseteq People
    /\ Blank # System
    /\ Nil \notin People /\ Nil \notin DeskKeys /\ Nil \notin Matrices
    /\ \A c \in Matrices :
         /\ c.desks \in Seq([key : DeskKeys, min : Nat]) \ {<<>>}
         /\ c.noRepeat \in BOOLEAN
         /\ \A i, j \in DOMAIN c.desks :     \* NewRegistry refuses a key declared twice
              c.desks[i].key = c.desks[j].key => i = j
    /\ Amounts \subseteq Nat
    /\ \A k \in Skips : k \subseteq DeskKeys
    /\ MaxHistory \in Nat

VARIABLES
    total,    \* requisitions.total
    st,       \* requisition_approval_state and _steps of the requisition
    matrix,   \* requisition_approval_desks: the chain's definition
    engine,   \* process -> the definition its engine was built from (DeskEngine)
    recut,    \* the definition a ReplaceDeskChain past its count will write
    route     \* history: the definitions used since the attempt began

vars == <<total, st, matrix, engine, recut, route>>

Statuses == {"none", "draft", "in_flight", "returned", "approved", "rejected", "cancelled"}
Steps == [desk : DeskKeys \cup {Nil},
          action : {"submit", "advance", "reject", "amend", "cancel"},
          actor : People, override : BOOLEAN]
NoState == [status |-> "none", desk |-> Nil, stage |-> -1, amount |-> 0,
            skip |-> {}, requester |-> Nil, history |-> <<>>]

Init ==
    /\ total \in Amounts
    /\ st = NoState
    /\ matrix \in Matrices
    /\ engine = [e \in Processes |-> matrix]
    /\ recut = Nil
    /\ route = {}

-----------------------------------------------------------------------------
(* The engine: what it reads off a definition c and a state s. *)

Engages(d, amount, skip) == d.key \notin skip /\ (d.min = 0 \/ amount >= d.min)

\* The desks that engage, in the definition's order.
Engaged(c, amount, skip) ==
    LET out[i \in 0 .. Len(c.desks)] ==
          IF i = 0 THEN <<>>
          ELSE IF Engages(c.desks[i], amount, skip) THEN Append(out[i - 1], c.desks[i])
          ELSE out[i - 1]
    IN  out[Len(c.desks)]

KeysOf(desks) == {desks[i].key : i \in DOMAIN desks}

\* chainFor: an unknown chain and a chain no desk of which engages are refused.
Routable(c, s) == Engaged(c, s.amount, s.skip) # <<>>

\* Rebase succeeds: the desk a request sits on survives its new amount.
Rebases(c, s) ==
    \/ s.amount = total
    \/ /\ Routable(c, s)
       /\ s.status = "in_flight" => s.desk \in KeysOf(Engaged(c, total, s.skip))

\* Rebase: the cursor is re-anchored by desk key.
Rebased(c, s) ==
    LET engaged == Engaged(c, total, s.skip)
    IN  IF s.amount = total THEN s
        ELSE IF s.status # "in_flight" THEN [s EXCEPT !.amount = total]
        ELSE [s EXCEPT !.amount = total,
                       !.stage = (CHOOSE i \in DOMAIN engaged : engaged[i].key = s.desk) - 1]

\* currentDesk and deskAt: the cursor points at the desk the state recorded.
OnDesk(s, engaged) ==
    /\ s.status = "in_flight"
    /\ s.stage \in 0 .. Len(engaged) - 1
    /\ s.desk = engaged[s.stage + 1].key

\* Identities, compared: a blank one is nobody's, not even its own.
sameActor(a, b) == a # Blank /\ a = b

isSystemActor(a) == a \in {Blank, System}

HoldsFor(a, desk) == a \in Admins \/ a \in Staff[desk]
checkPerm(a, desk) == a \in Admins \/ a \in Permitted[desk]

\* The steps of the current attempt: those after the last amendment.
Attempt(history) ==
    {i \in DOMAIN history : \A j \in i .. Len(history) : history[j].action # "amend"}

Signatures(history) == {i \in Attempt(history) : history[i].action = "advance"}

\* Mutant: only the step before this one is looked at.
advancedLast(history, a) ==
    /\ ~isSystemActor(a)
    /\ \E i \in Signatures(history) : i = Len(history) /\ sameActor(a, history[i].actor)

\* "A rule about separating people should not fire on a machine" (engine.go:317).
hasAlreadyAdvanced(history, a) ==
    /\ ~isSystemActor(a)
    /\ \E i \in Signatures(history) : sameActor(a, history[i].actor)

Recorded(s, desk, action, a, override) ==
    Append(s.history, [desk |-> desk, action |-> action, actor |-> a, override |-> override])

\* An admin acting on a desk not held by role.
Overrides(a, desk) == a \in Admins /\ a \notin Staff[desk]

-----------------------------------------------------------------------------
(* Transitions *)

\* applyDeskTransition: rebase against the live total, then the transition,
\* whose result is "after"; all of it one transaction under the row lock.
applyDeskTransition(e, before, after) ==
    /\ before.status # "none"
    /\ Rebases(engine[e], before)
    /\ Len(before.history) < MaxHistory
    /\ st' = after
    /\ UNCHANGED <<total, matrix, engine, recut>>

\* Mutant: the identity is lost.
OpenedAnonymous(a, skip) == [NoState EXCEPT !.status = "draft", !.amount = total,
                                            !.skip = skip]

\* openDeskChainTx: the state inserted for opener a.
Opened(a, skip) == [NoState EXCEPT !.status = "draft", !.amount = total, !.skip = skip,
                                   !.requester = a]

OpenDeskChain(e, a, skip) ==
    /\ a # Blank
    /\ st.status = "none"
    /\ engine[e].desks # <<>>
    /\ st' = Opened(a, skip)
    /\ UNCHANGED <<total, matrix, engine, recut, route>>

\* A submit of a requisition without a chain opens it, skipping nothing.
Submit(e, a) ==
    LET c == engine[e]
        before == IF st.status = "none" THEN Opened(a, {}) ELSE st
        s == Rebased(c, before)
        first == Engaged(c, s.amount, s.skip)[1]
    IN  /\ a # Blank
        /\ before.status \in {"draft", "returned"}
        /\ Routable(c, s)
        /\ a \in Admins \/ sameActor(a, before.requester)
        /\ applyDeskTransition(e, before,
             [s EXCEPT !.status = "in_flight", !.stage = 0, !.desk = first.key,
                       !.history = Recorded(s, first.key, "submit", a, FALSE)])
        /\ route' = {c}

\* Mutant: approved one desk early.
NextIsLast(s, engaged) == s.stage + 2 >= Len(engaged)

AtLastDesk(s, engaged) == s.stage + 1 >= Len(engaged)

\* Advance's conditions, on the state s the caller has rebased.
MayAdvance(c, s, a) ==
    /\ OnDesk(s, Engaged(c, s.amount, s.skip))
    /\ HoldsFor(a, s.desk) /\ checkPerm(a, s.desk)
    /\ sameActor(a, s.requester) => a \in Admins
    /\ c.noRepeat /\ hasAlreadyAdvanced(s.history, a) => a \in Admins

\* To the next engaged desk, or to approved from the last.
Advance(e, a) ==
    LET c == engine[e]
        s == Rebased(c, st)
        engaged == Engaged(c, s.amount, s.skip)
        history == Recorded(s, s.desk, "advance", a, Overrides(a, s.desk))
    IN  /\ Rebases(c, st)
        /\ MayAdvance(c, s, a)
        /\ applyDeskTransition(e, st,
             IF AtLastDesk(s, engaged)
             THEN [s EXCEPT !.status = "approved", !.desk = Nil, !.stage = Len(engaged),
                            !.history = history]
             ELSE [s EXCEPT !.stage = s.stage + 1, !.desk = engaged[s.stage + 2].key,
                            !.history = history])
        /\ route' = route \cup {c}

\* Refused outright; the cursor stays for a Reopen.
Reject(e, a) ==
    LET c == engine[e]
        s == Rebased(c, st)
    IN  /\ Rebases(c, st)
        /\ OnDesk(s, Engaged(c, s.amount, s.skip))
        /\ HoldsFor(a, s.desk)
        /\ applyDeskTransition(e, st,
             [s EXCEPT !.status = "rejected",
                       !.history = Recorded(s, s.desk, "reject", a, Overrides(a, s.desk))])
        /\ route' = route \cup {c}

\* Returned to the requester; a resubmission walks every desk again.
Amend(e, a) ==
    LET c == engine[e]
        s == Rebased(c, st)
    IN  /\ Rebases(c, st)
        /\ OnDesk(s, Engaged(c, s.amount, s.skip))
        /\ HoldsFor(a, s.desk)
        /\ applyDeskTransition(e, st,
             [s EXCEPT !.status = "returned", !.stage = -1,
                       !.history = Recorded(s, s.desk, "amend", a, Overrides(a, s.desk))])
        /\ route' = route \cup {c}

Open(status) == status \in {"draft", "in_flight", "returned"}

Cancel(e, a) ==
    LET c == engine[e]
        s == Rebased(c, st)
    IN  /\ Rebases(c, st)
        /\ Routable(c, s)
        /\ Open(s.status)
        /\ a \in Admins \/ sameActor(a, s.requester)
        /\ applyDeskTransition(e, st,
             [s EXCEPT !.status = "cancelled",
                       !.history = Recorded(s, s.desk, "cancel", a,
                                            ~sameActor(a, s.requester))])
        /\ route' = route \cup {c}

\* Mutant: reopened at the first desk that engages.
ReopenAtFirst(s, engaged) == engaged[1]

\* The desk Reopen puts a rejected request on, by index.
ReopenDesk(s, engaged) == engaged[s.stage + 1]

Reopen(e, a) ==
    LET c == engine[e]
        s == Rebased(c, st)
        engaged == Engaged(c, s.amount, s.skip)
        desk == ReopenDesk(s, engaged)
    IN  /\ Rebases(c, st)
        /\ s.status = "rejected"
        /\ a \in Admins
        /\ s.stage \in 0 .. Len(engaged) - 1
        /\ applyDeskTransition(e, st,
             [s EXCEPT !.status = "in_flight", !.desk = desk.key,
                       !.history = Recorded(s, desk.key, "submit", a, TRUE)])
        /\ route' = route \cup {c}

-----------------------------------------------------------------------------
(* What changes around a request *)

\* UpdateRequisition, as far as the chain sees it.
UpdateTotal(t) ==
    /\ t # total
    /\ total' = t
    /\ UNCHANGED <<st, matrix, engine, recut, route>>

\* ReplaceDeskChain counts the requests in flight ...
ReplaceDeskChainCount(c) ==
    /\ recut = Nil
    /\ st.status \notin {"in_flight", "returned"}
    /\ recut' = c
    /\ UNCHANGED <<total, st, matrix, engine, route>>

\* ... and DeleteDeskChain the open ones ...
DeleteDeskChainCount ==
    /\ recut = Nil
    /\ matrix # NoMatrix
    /\ ~Open(st.status)
    /\ recut' = NoMatrix
    /\ UNCHANGED <<total, st, matrix, engine, route>>

\* ... and writes, with nothing to keep a request from being submitted in
\* between.  The process that wrote reloads its engine.
WriteDeskChain(e) ==
    /\ recut # Nil
    /\ matrix' = recut
    /\ engine' = [engine EXCEPT ![e] = recut]
    /\ recut' = Nil
    /\ UNCHANGED <<total, st, route>>

\* The reload endpoint, or the first use after a restart (DeskEngine).
ReloadDeskChains(e) ==
    /\ engine' = [engine EXCEPT ![e] = matrix]
    /\ UNCHANGED <<total, st, matrix, recut, route>>

-----------------------------------------------------------------------------
(* Reading *)

\* Mutant: the queue goes by roles alone and forgets that admins hold every desk.
ActionableByRole(e, a) ==
    /\ OnDesk(st, Engaged(engine[e], st.amount, st.skip))
    /\ a \in Staff[st.desk] /\ ~sameActor(a, st.requester)

\* Actionable, on the state as it is stored: neither rebased, nor asked about
\* permissions or earlier signatures.
Actionable(e, a) ==
    /\ OnDesk(st, Engaged(engine[e], st.amount, st.skip))
    /\ HoldsFor(a, st.desk)
    /\ sameActor(a, st.requester) => a \in Admins

\* DeskQueue: the desks the caller holds by the process's matrix, then Actionable.
DeskQueue(e, a) ==
    /\ \E i \in DOMAIN engine[e].desks : /\ engine[e].desks[i].key = st.desk
                                          /\ HoldsFor(a, st.desk)
    /\ Actionable(e, a)

-----------------------------------------------------------------------------
(* The routes, each served by any process for any caller. *)

openRequisitionDeskChain ==
    \E e \in Processes, a \in People, skip \in Skips : OpenDeskChain(e, a, skip)

submitRequisitionToDesk == \E e \in Processes, a \in People : Submit(e, a)
advanceRequisitionDesk == \E e \in Processes, a \in People : Advance(e, a)
rejectRequisitionDesk == \E e \in Processes, a \in People : Reject(e, a)
amendRequisitionDesk == \E e \in Processes, a \in People : Amend(e, a)
cancelRequisitionDesk == \E e \in Processes, a \in People : Cancel(e, a)
reopenRequisitionDesk == \E e \in Processes, a \in People : Reopen(e, a)

putDeskChain == \E c \in Matrices : ReplaceDeskChainCount(c)
deleteDeskChain == DeleteDeskChainCount
reloadDeskChains == \E e \in Processes : ReloadDeskChains(e)

Next ==
    \/ openRequisitionDeskChain
    \/ submitRequisitionToDesk \/ advanceRequisitionDesk
    \/ rejectRequisitionDesk \/ amendRequisitionDesk
    \/ cancelRequisitionDesk \/ reopenRequisitionDesk
    \/ \E t \in Amounts : UpdateTotal(t)
    \/ putDeskChain \/ deleteDeskChain \/ reloadDeskChains
    \/ \E e \in Processes : WriteDeskChain(e)

Spec == Init /\ [][Next]_vars

-----------------------------------------------------------------------------
TypeOK ==
    /\ total \in Amounts
    /\ st.status \in Statuses /\ st.desk \in DeskKeys \cup {Nil}
    /\ st.stage \in Int /\ st.amount \in Nat /\ st.skip \subseteq DeskKeys
    /\ st.requester \in IF st.status = "none" THEN {Nil} ELSE People \ {Blank}
    /\ st.history \in Seq(Steps)
    /\ matrix \in Matrices \cup {NoMatrix}
    /\ engine \in [Processes -> Matrices \cup {NoMatrix}]
    /\ recut \in Matrices \cup {Nil, NoMatrix}
    /\ route \subseteq Matrices \cup {NoMatrix}

SignedDesks == {st.history[i].desk : i \in Signatures(st.history)}

\* The purpose of Rebase ("Without this a requisition opened at 1M and raised
\* to 50M would still walk the small-request desks and never reach GM or CEO",
\* requisition_desk_chain.go:574-575): an approved request whose attempt was
\* routed by one definition of the chain has, in that attempt, the signature
\* of every desk that engages at the amount it was approved for.
SignedByEveryDesk ==
    st.status = "approved" =>
      \A c \in route : route = {c} =>
        KeysOf(Engaged(c, st.amount, st.skip)) \subseteq SignedDesks

\* "One person, at most one signature" (chain.go, NoRepeatApprover) and
\* four-eyes on the requester, for everyone but admins, over a whole attempt:
\* through returns, rejections, reopenings, edits and re-cuts.  The exemption
\* of system actors (chain.go:111) lets them sign again, a token without an
\* e-mail among them; it does not let "system" sign its own request.
SeparationOfDuties ==
    (\A c \in route : c.noRepeat) =>
      \A i \in Signatures(st.history) :
        LET a == st.history[i].actor
        IN  a \notin Admins =>
              /\ a # st.requester
              /\ isSystemActor(a) \/ \A j \in Signatures(st.history) :
                                       st.history[j].actor = a => j = i

\* "One place a GM or an Accounts Assistant sees what is theirs to act on"
\* (handlers/requisition_desk_chain.go:161-162): whoever a process would let
\* advance a request finds it in the queue that process serves, also after the
\* total was edited under the request, in an attempt routed by one definition.
QueueShowsWork ==
    \A e \in Processes, a \in People :
      /\ route = {engine[e]}
      /\ Rebases(engine[e], st) /\ MayAdvance(engine[e], Rebased(engine[e], st), a)
      => DeskQueue(e, a)

\* "Reopen puts a rejected request back on the desk that refused it"
\* (engine.go:257), although it goes by index and the total may have been
\* edited since: it does in an attempt routed by one definition.
ReopensWhereRefused ==
    [][st.status = "rejected" /\ st'.status = "in_flight" /\ Cardinality(route') = 1
         => st'.desk = st.desk]_vars

=============================================================================
