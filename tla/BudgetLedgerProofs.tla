------------------------- MODULE BudgetLedgerProofs -------------------------
(***************************************************************************)
(* TLAPS proofs about BudgetLedger, for every set of rows, every amount    *)
(* and every choice of Liberties (so with all interleavings).              *)
(*                                                                         *)
(* The first inductive invariant is LedgerInv: types, the remaining        *)
(* identity and the signs of the columns.  The three need each other: the  *)
(* identity is arithmetic on integers (types), and the signs hold because  *)
(* amounts that are added are positive and amounts that are subtracted are *)
(* floored.                                                                *)
(*                                                                         *)
(* The rest relates the columns to the rows.  SumOver is shown to be a     *)
(* sum: it follows a table when one row of it changes.  Every statement    *)
(* and then every action is reduced to its kind, which says what it does   *)
(* to the rows and which column it moves by how much (StepKinds).  The     *)
(* foreign keys, the reservations and the firm stages are each proved over *)
(* the kinds: ReferencesHold with no hypothesis, the others for the        *)
(* clients they are true of (Orderly, Disciplined, Fixed).                 *)
(***************************************************************************)
EXTENDS BudgetLedger, FiniteSetTheorems, WellFoundedInduction, TLAPS

\* A budget row as every statement leaves it.
Sound(b) ==
    /\ b \in Budgets
    /\ b.remaining = Available(b)
    /\ b.pre >= 0 /\ b.committed >= 0 /\ b.spent >= 0

SoundTable(bs) == bs \in [BudgetIds -> Budgets] /\ \A b \in BudgetIds : Sound(bs[b])

TypedReqs == reqs \in [ReqIds -> Reqs]

TypedPos == pos \in [PoIds -> Pos] /\ \A p \in PoIds : pos[p].recognized >= 0

TypedGrns == grns \in [GrnIds -> Grns] /\ \A g \in GrnIds : grns[g].amount >= 0

\* The inductive invariant.
LedgerInv == SoundTable(budgets) /\ TypedReqs /\ TypedPos /\ TypedGrns /\ tx \in Transactions

-----------------------------------------------------------------------------
(* What each UPDATE of a budget row preserves. *)

\* GREATEST(x, 0) of an integer is a natural number, and x itself when x >= 0.
LEMMA Floor0Nat == ASSUME NEW x \in Int PROVE Floor0(x) \in Nat
  BY DEF Floor0

\* One column at a time, a budget row keeps its type.
LEMMA SetBudgetColumn ==
  ASSUME NEW b \in Budgets, NEW x \in Int
  PROVE  /\ [b EXCEPT !.allocated = x] \in Budgets
         /\ [b EXCEPT !.pre = x] \in Budgets
         /\ [b EXCEPT !.committed = x] \in Budgets
         /\ [b EXCEPT !.spent = x] \in Budgets
         /\ [b EXCEPT !.remaining = x] \in Budgets
         /\ [b EXCEPT !.closed = TRUE] \in Budgets
  BY DEF Budgets

\* The combinations of columns the statements set keep a budget row's type.
LEMMA SetBudgetColumns ==
  ASSUME NEW b \in Budgets, NEW x \in Int, NEW y \in Int, NEW z \in Int
  PROVE  /\ [b EXCEPT !.allocated = x, !.remaining = z] \in Budgets
         /\ [b EXCEPT !.pre = x, !.remaining = z] \in Budgets
         /\ [b EXCEPT !.committed = x, !.remaining = z] \in Budgets
         /\ [b EXCEPT !.spent = x, !.committed = y, !.remaining = z] \in Budgets
         /\ [b EXCEPT !.pre = x, !.committed = y, !.remaining = z, !.closed = TRUE] \in Budgets
<1>1. [b EXCEPT !.allocated = x, !.remaining = z] \in Budgets
  <2> DEFINE c == [b EXCEPT !.allocated = x]
  <2>1. c \in Budgets BY SetBudgetColumn
  <2>2. [c EXCEPT !.remaining = z] \in Budgets BY ONLY <2>1, SetBudgetColumn, z \in Int
  <2> QED BY ONLY <2>2
<1>2. [b EXCEPT !.pre = x, !.remaining = z] \in Budgets
  <2> DEFINE c == [b EXCEPT !.pre = x]
  <2>1. c \in Budgets BY SetBudgetColumn
  <2>2. [c EXCEPT !.remaining = z] \in Budgets BY ONLY <2>1, SetBudgetColumn, z \in Int
  <2> QED BY ONLY <2>2
<1>3. [b EXCEPT !.committed = x, !.remaining = z] \in Budgets
  <2> DEFINE c == [b EXCEPT !.committed = x]
  <2>1. c \in Budgets BY SetBudgetColumn
  <2>2. [c EXCEPT !.remaining = z] \in Budgets BY ONLY <2>1, SetBudgetColumn, z \in Int
  <2> QED BY ONLY <2>2
<1>4. [b EXCEPT !.spent = x, !.committed = y, !.remaining = z] \in Budgets
  <2> DEFINE c == [b EXCEPT !.spent = x]
             d == [c EXCEPT !.committed = y]
  <2>1. c \in Budgets BY SetBudgetColumn
  <2>2. d \in Budgets BY ONLY <2>1, SetBudgetColumn, y \in Int
  <2>3. [d EXCEPT !.remaining = z] \in Budgets BY ONLY <2>2, SetBudgetColumn, z \in Int
  <2> QED BY ONLY <2>3
<1>5. [b EXCEPT !.pre = x, !.committed = y, !.remaining = z, !.closed = TRUE] \in Budgets
  <2> DEFINE c == [b EXCEPT !.pre = x]
             d == [c EXCEPT !.committed = y]
             e == [d EXCEPT !.remaining = z]
  <2>1. c \in Budgets BY SetBudgetColumn
  <2>2. d \in Budgets BY ONLY <2>1, SetBudgetColumn, y \in Int
  <2>3. e \in Budgets BY ONLY <2>2, SetBudgetColumn, z \in Int
  <2>4. [e EXCEPT !.closed = TRUE] \in Budgets BY ONLY <2>3, SetBudgetColumn, z \in Int
  <2> QED BY ONLY <2>4
<1> QED BY <1>1, <1>2, <1>3, <1>4, <1>5

\* A budget row's columns are integers.
LEMMA BudgetColumns ==
  ASSUME NEW b \in Budgets
  PROVE  /\ b.allocated \in Int /\ b.pre \in Int /\ b.committed \in Int
         /\ b.spent \in Int /\ b.remaining \in Int
  BY DEF Budgets

\* A statement that sets one stage to a natural number and restates
\* "remaining" from the new value keeps the row sound.
LEMMA SetPreSound ==
  ASSUME NEW b, Sound(b), NEW x \in Nat
  PROVE  Sound([b EXCEPT !.pre = x,
                         !.remaining = b.allocated - x - b.committed - b.spent])
<1> DEFINE z == b.allocated - x - b.committed - b.spent
<1>1. b \in Budgets /\ x \in Int /\ z \in Int BY BudgetColumns DEF Sound
<1> HIDE DEF z
<1>2. [b EXCEPT !.pre = x, !.remaining = z] \in Budgets BY <1>1, SetBudgetColumns
<1> QED BY <1>1, <1>2 DEF Sound, Budgets, Available, z

\* The same for committed.
LEMMA SetCommittedSound ==
  ASSUME NEW b, Sound(b), NEW x \in Nat
  PROVE  Sound([b EXCEPT !.committed = x,
                         !.remaining = b.allocated - b.pre - x - b.spent])
<1> DEFINE z == b.allocated - b.pre - x - b.spent
<1>1. b \in Budgets /\ x \in Int /\ z \in Int BY BudgetColumns DEF Sound
<1> HIDE DEF z
<1>2. [b EXCEPT !.committed = x, !.remaining = z] \in Budgets BY <1>1, SetBudgetColumns
<1> QED BY <1>1, <1>2 DEF Sound, Budgets, Available, z

\* The same for spent and committed set together.
LEMMA SetSpentCommittedSound ==
  ASSUME NEW b, Sound(b), NEW x \in Nat, NEW y \in Nat
  PROVE  Sound([b EXCEPT !.spent = x, !.committed = y,
                         !.remaining = b.allocated - b.pre - y - x])
<1> DEFINE z == b.allocated - b.pre - y - x
<1>1. b \in Budgets /\ x \in Int /\ y \in Int /\ z \in Int BY BudgetColumns DEF Sound
<1> HIDE DEF z
<1>2. [b EXCEPT !.spent = x, !.committed = y, !.remaining = z] \in Budgets
  BY <1>1, SetBudgetColumns
<1> QED BY <1>1, <1>2 DEF Sound, Budgets, Available, z

\* Reserving and encumbering a positive amount keep a budget row sound.
LEMMA ChargesSound ==
  ASSUME NEW b, Sound(b), NEW t \in Int, t > 0
  PROVE  Sound(PreEncumber(b, t)) /\ Sound(Encumber(b, t))
<1>1. b.pre + t \in Nat /\ b.committed + t \in Nat BY BudgetColumns DEF Sound
<1>2. Sound(PreEncumber(b, t)) BY <1>1, SetPreSound DEF PreEncumber
<1>3. Sound(Encumber(b, t)) BY <1>1, SetCommittedSound DEF Encumber
<1> QED BY <1>2, <1>3

\* Every release and adjustment, whatever its amount, keeps a budget row
\* sound: the statement floors the column at zero.
LEMMA ReleasesSound ==
  ASSUME NEW b, Sound(b), NEW t \in Int
  PROVE  /\ Sound(ReleasePre(b, t)) /\ Sound(ReleaseCommitted(b, t))
         /\ Sound(AdjustCommitted(b, t))
<1>1. /\ Floor0(b.pre - t) \in Nat
      /\ Floor0(b.committed - t) \in Nat
      /\ Floor0(b.committed + t) \in Nat
  BY BudgetColumns, Floor0Nat DEF Sound
<1>2. Sound(ReleasePre(b, t)) BY <1>1, SetPreSound DEF ReleasePre
<1>3. Sound(ReleaseCommitted(b, t)) BY <1>1, SetCommittedSound DEF ReleaseCommitted
<1>4. Sound(AdjustCommitted(b, t)) BY <1>1, SetCommittedSound DEF AdjustCommitted
<1> QED BY <1>2, <1>3, <1>4

\* Recognising a receipt and reversing it keep a budget row sound.
LEMMA ReceiptsSound ==
  ASSUME NEW b, Sound(b), NEW a \in Int, a > 0
  PROVE  Sound(Recognize(b, a)) /\ Sound(Unrecognize(b, a))
<1>1. b.spent + a \in Nat /\ Floor0(b.committed - a) \in Nat
  BY BudgetColumns, Floor0Nat DEF Sound
<1>2. b.committed + a \in Nat /\ Floor0(b.spent - a) \in Nat
  BY BudgetColumns, Floor0Nat DEF Sound
<1>3. Sound(Recognize(b, a)) BY <1>1, SetSpentCommittedSound DEF Recognize
<1>4. Sound(Unrecognize(b, a)) BY <1>2, SetSpentCommittedSound DEF Unrecognize
<1> QED BY <1>3, <1>4

\* A new allocation and a period close under either policy keep a budget row
\* sound.
LEMMA AdminSound ==
  ASSUME NEW b, Sound(b), NEW a \in Int
  PROVE  Sound(Reallocate(b, a)) /\ Sound(Lapse(b)) /\ Sound(Carry(b))
<1>1. Sound(Reallocate(b, a))
  <2> DEFINE z == a - b.pre - b.committed - b.spent
  <2>1. b \in Budgets /\ z \in Int BY BudgetColumns DEF Sound
  <2> HIDE DEF z
  <2>2. [b EXCEPT !.allocated = a, !.remaining = z] \in Budgets BY <2>1, SetBudgetColumns
  <2> QED BY <2>1, <2>2 DEF Sound, Budgets, Available, Reallocate, z
<1>2. Sound(Lapse(b))
  <2> DEFINE z == b.allocated - b.spent
  <2>1. b \in Budgets /\ 0 \in Int /\ z \in Int BY BudgetColumns DEF Sound
  <2> HIDE DEF z
  <2>2. [b EXCEPT !.pre = 0, !.committed = 0, !.remaining = z, !.closed = TRUE] \in Budgets
    BY <2>1, SetBudgetColumns
  <2> QED BY <2>1, <2>2 DEF Sound, Budgets, Available, Lapse, z
<1>3. Sound(Carry(b))
  BY SetBudgetColumn, 0 \in Int DEF Sound, Budgets, Available, Carry
<1> QED BY <1>1, <1>2, <1>3
-----------------------------------------------------------------------------
(* Rows of the other tables keep their types. *)

\* One column at a time.
LEMMA SetReqColumn ==
  ASSUME NEW q \in Reqs
  PROVE  /\ \A x \in RowStates : [q EXCEPT !.row = x] \in Reqs
         /\ \A x \in {"open", "approved", "rejected", "cancelled", "ordered", "closed"} :
              [q EXCEPT !.status = x] \in Reqs
         /\ \A x \in {"none", "moving", "approved", "rejected", "cancelled"} :
              [q EXCEPT !.desk = x] \in Reqs
         /\ \A x \in BudgetIds \cup {None} : [q EXCEPT !.budget = x] \in Reqs
         /\ \A x \in Int : [q EXCEPT !.total = x] \in Reqs
  BY DEF Reqs

\* The flags of a requisition.
LEMMA SetReqFlag ==
  ASSUME NEW q \in Reqs, NEW x \in BOOLEAN
  PROVE  /\ [q EXCEPT !.signed = x] \in Reqs
         /\ [q EXCEPT !.committed = x] \in Reqs
         /\ [q EXCEPT !.released = x] \in Reqs
  BY DEF Reqs

\* The columns of an order, one at a time.
LEMMA SetPoColumn ==
  ASSUME NEW q \in Pos
  PROVE  /\ \A x \in RowStates : [q EXCEPT !.row = x] \in Pos
         /\ \A x \in {"pending", "cleared", "void"} : [q EXCEPT !.status = x] \in Pos
         /\ \A x \in BudgetIds \cup {None} : [q EXCEPT !.budget = x] \in Pos
         /\ \A x \in ReqIds \cup {None} : [q EXCEPT !.req = x] \in Pos
         /\ \A x \in Int : [q EXCEPT !.total = x] \in Pos
         /\ \A x \in Int : [q EXCEPT !.recognized = x] \in Pos
         /\ [q EXCEPT !.committed = FALSE] \in Pos
  BY DEF Pos

\* The columns of a receipt, one at a time.
LEMMA SetGrnColumn ==
  ASSUME NEW q \in Grns
  PROVE  /\ \A x \in RowStates : [q EXCEPT !.row = x] \in Grns
         /\ \A x \in PoIds \cup {None} : [q EXCEPT !.po = x] \in Grns
         /\ \A x \in Nat : [q EXCEPT !.value = x] \in Grns
         /\ \A x \in Int : [q EXCEPT !.amount = x] \in Grns
  BY DEF Grns

\* The flags of a receipt.
LEMMA SetGrnFlag ==
  ASSUME NEW q \in Grns, NEW x \in BOOLEAN
  PROVE  [q EXCEPT !.posted = x] \in Grns /\ [q EXCEPT !.recognized = x] \in Grns
  BY DEF Grns

\* The rows no INSERT has made yet.
LEMMA FreeRows ==
  /\ NoReq \in Reqs /\ NoPo \in Pos /\ NoGrn \in Grns /\ Sound(NoBudget)
  /\ NoPo.recognized = 0 /\ NoGrn.amount = 0
  BY DEF NoReq, Reqs, NoPo, Pos, NoGrn, Grns, NoBudget, Budgets, RowStates, Sound, Available

\* The combinations of columns the statements set on a requisition.
LEMMA ReqRows ==
  ASSUME NEW q \in Reqs,
         NEW st \in {"open", "approved", "rejected", "cancelled", "ordered", "closed"}
  PROVE  /\ \A f \in BOOLEAN : /\ [q EXCEPT !.status = st, !.signed = f] \in Reqs
                               /\ [q EXCEPT !.status = st, !.released = f] \in Reqs
         /\ \A d \in {"none", "moving", "approved", "rejected", "cancelled"} :
              [q EXCEPT !.desk = d, !.status = st] \in Reqs
         /\ \A b \in BudgetIds \cup {None}, t \in Int :
              [q EXCEPT !.status = st, !.budget = b, !.total = t] \in Reqs
<1> DEFINE s == [q EXCEPT !.status = st]
<1>1. s \in Reqs BY SetReqColumn
<1> HIDE DEF s
<1>2. ASSUME NEW f \in BOOLEAN
      PROVE  [s EXCEPT !.signed = f] \in Reqs /\ [s EXCEPT !.released = f] \in Reqs
  BY <1>1, SetReqFlag
<1>3. ASSUME NEW d \in {"none", "moving", "approved", "rejected", "cancelled"}
      PROVE  [q EXCEPT !.desk = d, !.status = st] \in Reqs
  <2> DEFINE e == [q EXCEPT !.desk = d]
  <2>1. e \in Reqs BY SetReqColumn
  <2> HIDE DEF e
  <2>2. [e EXCEPT !.status = st] \in Reqs BY <2>1, SetReqColumn
  <2> QED BY <2>2, Zenon DEF e
<1>4. ASSUME NEW b \in BudgetIds \cup {None}, NEW t \in Int
      PROVE  [s EXCEPT !.budget = b, !.total = t] \in Reqs
  <2> DEFINE c == [s EXCEPT !.budget = b]
  <2>1. c \in Reqs BY <1>1, SetReqColumn
  <2> HIDE DEF c
  <2>2. [c EXCEPT !.total = t] \in Reqs BY <2>1, SetReqColumn
  <2> QED BY <2>2, Zenon DEF c
<1> QED BY <1>2, <1>3, <1>4, Zenon DEF s

\* The row CreateRequisition inserts, and the one an import inserts.
LEMMA NewReqRow ==
  ASSUME NEW b \in BudgetIds \cup {None}, NEW t \in Int, NEW st \in {"open", "approved"}
  PROVE  /\ [NoReq EXCEPT !.row = "live", !.budget = b, !.total = t] \in Reqs
         /\ [NoReq EXCEPT !.row = "live", !.status = st, !.budget = b, !.total = t] \in Reqs
<1> DEFINE l == [NoReq EXCEPT !.row = "live"]
           c == [l EXCEPT !.budget = b]
           s == [l EXCEPT !.status = st]
           d == [s EXCEPT !.budget = b]
<1>1. l \in Reqs BY FreeRows, SetReqColumn DEF RowStates
<1> HIDE DEF l
<1>2. c \in Reqs /\ s \in Reqs BY <1>1, SetReqColumn
<1> HIDE DEF c, s
<1>3. d \in Reqs BY <1>2, SetReqColumn
<1> HIDE DEF d
<1>4. [c EXCEPT !.total = t] \in Reqs /\ [d EXCEPT !.total = t] \in Reqs
  BY <1>2, <1>3, SetReqColumn
<1>5. [NoReq EXCEPT !.row = "live", !.budget = b, !.total = t] \in Reqs
  BY <1>4, Zenon DEF l, c
<1>6. [NoReq EXCEPT !.row = "live", !.status = st, !.budget = b, !.total = t] \in Reqs
  BY <1>4, Zenon DEF l, s, d
<1> QED BY <1>5, <1>6

\* The row CreateBudget inserts, and the one DeleteBudget leaves.
LEMMA NewBudgetRow ==
  ASSUME NEW a \in Int
  PROVE  /\ Sound([NoBudget EXCEPT !.row = "live", !.allocated = a, !.remaining = a])
         /\ Sound([NoBudget EXCEPT !.row = "gone"])
<1>1. ASSUME NEW b, Sound(b), NEW x \in RowStates
      PROVE  /\ Sound([b EXCEPT !.row = x])
             /\ [b EXCEPT !.row = x].pre = b.pre
             /\ [b EXCEPT !.row = x].committed = b.committed
             /\ [b EXCEPT !.row = x].spent = b.spent
  <2>1. b \in Budgets BY <1>1 DEF Sound
  <2>2. [b EXCEPT !.row = x] \in Budgets BY <2>1 DEF Budgets
  <2>3. /\ [b EXCEPT !.row = x].allocated = b.allocated
        /\ [b EXCEPT !.row = x].pre = b.pre
        /\ [b EXCEPT !.row = x].committed = b.committed
        /\ [b EXCEPT !.row = x].spent = b.spent
        /\ [b EXCEPT !.row = x].remaining = b.remaining
    BY <2>1 DEF Budgets
  <2> QED BY <1>1, <2>2, <2>3, Zenon DEF Sound, Available
<1> DEFINE l == [NoBudget EXCEPT !.row = "live"]
           n == [l EXCEPT !.allocated = a, !.remaining = a]
<1>2. NoBudget.pre = 0 /\ NoBudget.committed = 0 /\ NoBudget.spent = 0 BY DEF NoBudget
<1>3. Sound(l) /\ l.pre = 0 /\ l.committed = 0 /\ l.spent = 0
  <2>1. "live" \in RowStates BY DEF RowStates
  <2> QED BY <1>1, <1>2, <2>1, FreeRows, Zenon
<1>4. Sound([NoBudget EXCEPT !.row = "gone"]) BY <1>1, FreeRows DEF RowStates
<1> HIDE DEF l
<1>5. n \in Budgets BY <1>3, SetBudgetColumns DEF Sound
<1>6. Sound(n) BY <1>3, <1>5 DEF Sound, Available, Budgets
<1> QED BY <1>4, <1>6, Zenon DEF l, n

\* An order row after a PATCH, and a receipt row after one.
PatchedPo(q, st, v, b, r) == [q EXCEPT !.status = st, !.total = v, !.budget = b, !.req = r]
PatchedGrn(q, f, po, v) == [q EXCEPT !.posted = f, !.po = po, !.value = v]

\* An order's PATCH keeps its type and what it has recognised.
LEMMA PoRows ==
  ASSUME NEW q \in Pos, NEW st \in {"pending", "cleared", "void"}, NEW v \in Int,
         NEW b \in BudgetIds \cup {None}, NEW r \in ReqIds \cup {None}
  PROVE  /\ PatchedPo(q, st, v, b, r) \in Pos
         /\ PatchedPo(q, st, v, b, r).recognized = q.recognized
         /\ [PatchedPo(q, st, v, b, r) EXCEPT !.committed = FALSE] \in Pos
         /\ [PatchedPo(q, st, v, b, r) EXCEPT !.committed = FALSE].recognized = q.recognized
<1> DEFINE row == PatchedPo(q, st, v, b, r)
           s == [q EXCEPT !.status = st]
           sv == [s EXCEPT !.total = v]
           svb == [sv EXCEPT !.budget = b]
<1>1. s \in Pos /\ s.recognized = q.recognized BY SetPoColumn DEF Pos
<1>2. row = [svb EXCEPT !.req = r] BY Zenon DEF PatchedPo
<1> HIDE DEF s, row
<1>3. sv \in Pos /\ sv.recognized = q.recognized BY <1>1, SetPoColumn DEF Pos
<1> HIDE DEF sv
<1>4. svb \in Pos /\ svb.recognized = q.recognized BY <1>3, SetPoColumn DEF Pos
<1> HIDE DEF svb
<1>5. row \in Pos /\ row.recognized = q.recognized BY ONLY <1>2, <1>4, r \in ReqIds \cup {None} DEF Pos
<1>6. /\ [row EXCEPT !.committed = FALSE] \in Pos
      /\ [row EXCEPT !.committed = FALSE].recognized = row.recognized
  BY ONLY <1>5 DEF Pos
<1> QED BY <1>5, <1>6, Zenon DEF row

\* A receipt's PATCH keeps its type and its stored amount.
LEMMA GrnRows ==
  ASSUME NEW q \in Grns, NEW f \in BOOLEAN, NEW po \in PoIds \cup {None}, NEW v \in Nat
  PROVE  PatchedGrn(q, f, po, v) \in Grns /\ PatchedGrn(q, f, po, v).amount = q.amount
<1> DEFINE row == PatchedGrn(q, f, po, v)
           c == [q EXCEPT !.posted = f]
           d == [c EXCEPT !.po = po]
<1>1. c \in Grns /\ c.amount = q.amount BY SetGrnFlag DEF Grns
<1>2. row = [d EXCEPT !.value = v] BY Zenon DEF PatchedGrn
<1> HIDE DEF c, row
<1>3. d \in Grns /\ d.amount = q.amount BY <1>1, SetGrnColumn DEF Grns
<1> HIDE DEF d
<1>4. row \in Grns /\ row.amount = q.amount BY ONLY <1>2, <1>3, v \in Nat DEF Grns
<1> QED BY <1>4, Zenon DEF row

\* The row CreateGrn inserts.
LEMMA NewGrnRow ==
  ASSUME NEW f \in BOOLEAN, NEW po \in PoIds \cup {None}, NEW v \in Nat, NEW row,
         row = [NoGrn EXCEPT !.row = "live", !.posted = f, !.po = po, !.value = v]
  PROVE  row \in Grns /\ row.amount = 0
<1> DEFINE l == [NoGrn EXCEPT !.row = "live"]
<1>1. l \in Grns BY FreeRows, SetGrnColumn DEF RowStates
<1>2. l.amount = 0 BY DEF NoGrn
<1>3. row = PatchedGrn(l, f, po, v) BY Zenon DEF PatchedGrn
<1> HIDE DEF l
<1>4. PatchedGrn(l, f, po, v) \in Grns /\ PatchedGrn(l, f, po, v).amount = l.amount
  BY ONLY <1>1, GrnRows, f \in BOOLEAN, po \in PoIds \cup {None}, v \in Nat
<1> QED BY ONLY <1>2, <1>3, <1>4

\* A receipt's recognition mark and amount.
LEMMA MarkedGrnRow ==
  ASSUME NEW q \in Grns, NEW f \in BOOLEAN, NEW a \in Int
  PROVE  /\ [q EXCEPT !.recognized = f, !.amount = a] \in Grns
         /\ [q EXCEPT !.recognized = f, !.amount = a].amount = a
<1> DEFINE m == [q EXCEPT !.recognized = f]
<1>1. m \in Grns BY SetGrnFlag
<1> HIDE DEF m
<1>2. [m EXCEPT !.amount = a] \in Grns /\ [m EXCEPT !.amount = a].amount = a
  BY <1>1, SetGrnColumn DEF Grns
<1> QED BY <1>2, Zenon DEF m

-----------------------------------------------------------------------------
(* Statements on the tables. *)

\* A release or an adjustment of any amount, on any budget, keeps the table.
LEMMA ReleaseTable ==
  ASSUME NEW bs, SoundTable(bs), NEW b, NEW t \in Int
  PROVE  /\ SoundTable(OnBudget(bs, b, LAMBDA x : ReleasePre(x, t)))
         /\ SoundTable(OnBudget(bs, b, LAMBDA x : ReleaseCommitted(x, t)))
         /\ SoundTable(OnBudget(bs, b, LAMBDA x : AdjustCommitted(x, t)))
         /\ SoundTable(OnBudget(bs, b, LAMBDA x : Reallocate(x, t)))
<1>1. \A x \in BudgetIds : /\ Sound(bs[x])
                           /\ Sound(ReleasePre(bs[x], t))
                           /\ Sound(ReleaseCommitted(bs[x], t))
                           /\ Sound(AdjustCommitted(bs[x], t))
                           /\ Sound(Reallocate(bs[x], t))
  BY ReleasesSound, AdminSound DEF SoundTable
<1>2. DOMAIN bs = BudgetIds BY DEF SoundTable
<1>3. \A x : Sound(x) => x \in Budgets BY DEF Sound
<1> QED BY <1>1, <1>2, <1>3 DEF SoundTable, OnBudget

\* A charge of a positive amount, on any budget, keeps the table.
LEMMA ChargeTable ==
  ASSUME NEW bs, SoundTable(bs), NEW b, NEW t \in Int, t > 0
  PROVE  /\ SoundTable(OnBudget(bs, b, LAMBDA x : PreEncumber(x, t)))
         /\ SoundTable(OnBudget(bs, b, LAMBDA x : Encumber(x, t)))
         /\ SoundTable(OnBudget(bs, b, LAMBDA x : Recognize(x, t)))
         /\ SoundTable(OnBudget(bs, b, LAMBDA x : Unrecognize(x, t)))
<1>1. \A x \in BudgetIds : /\ Sound(bs[x])
                           /\ Sound(PreEncumber(bs[x], t))
                           /\ Sound(Encumber(bs[x], t))
                           /\ Sound(Recognize(bs[x], t))
                           /\ Sound(Unrecognize(bs[x], t))
  BY ChargesSound, ReceiptsSound DEF SoundTable
<1>2. DOMAIN bs = BudgetIds BY DEF SoundTable
<1>3. \A x : Sound(x) => x \in Budgets BY DEF Sound
<1> QED BY <1>1, <1>2, <1>3 DEF SoundTable, OnBudget

\* A well-typed row may replace any row of its table.
LEMMA PutRow ==
  ASSUME LedgerInv
  PROVE  /\ \A r \in ReqIds, q \in Reqs : [reqs EXCEPT ![r] = q] \in [ReqIds -> Reqs]
         /\ \A p \in PoIds, q \in Pos : q.recognized >= 0 =>
              /\ [pos EXCEPT ![p] = q] \in [PoIds -> Pos]
              /\ \A x \in PoIds : [pos EXCEPT ![p] = q][x].recognized >= 0
         /\ \A g \in GrnIds, q \in Grns : q.amount >= 0 =>
              /\ [grns EXCEPT ![g] = q] \in [GrnIds -> Grns]
              /\ \A x \in GrnIds : [grns EXCEPT ![g] = q][x].amount >= 0
  BY DEF LedgerInv, TypedReqs, TypedPos, TypedGrns

\* applyBudgetCommitment keeps the invariant's parts it writes.
LEMMA CommitmentInv ==
  ASSUME LedgerInv, NEW r \in ReqIds, NEW row \in Reqs,
         NEW outcome \in {"approved", "rejected"},
         applyBudgetCommitment(r, row, outcome)
  PROVE  SoundTable(budgets') /\ reqs' \in [ReqIds -> Reqs]
<1> DEFINE b == row.budget
           t == row.total
<1>1. t \in Int /\ b \in BudgetIds \cup {None} BY DEF Reqs
<1>2. SoundTable(budgets) BY DEF LedgerInv
<1>3. [row EXCEPT !.committed = TRUE] \in Reqs /\ [row EXCEPT !.committed = FALSE] \in Reqs
  BY SetReqFlag
<1>4. reqs' \in [ReqIds -> Reqs]
  <2>1. \E q \in Reqs : reqs' = [reqs EXCEPT ![r] = q]
    BY <1>3, Zenon DEF applyBudgetCommitment
  <2> QED BY <2>1, PutRow
<1>5. \/ UNCHANGED budgets
      \/ t > 0 /\ budgets' = OnBudget(budgets, b, LAMBDA x : PreEncumber(x, t))
      \/ t > 0 /\ budgets' = OnBudget(budgets, b, LAMBDA x : ReleasePre(x, t))
  BY <1>1, Zenon DEF applyBudgetCommitment, OnBudget
<1>6. SoundTable(budgets')
  <2>1. CASE UNCHANGED budgets BY <1>2, <2>1
  <2>2. CASE t > 0 /\ budgets' = OnBudget(budgets, b, LAMBDA x : PreEncumber(x, t))
    BY <1>1, <1>2, <2>2, ChargeTable, Zenon DEF OnBudget
  <2>3. CASE t > 0 /\ budgets' = OnBudget(budgets, b, LAMBDA x : ReleasePre(x, t))
    BY <1>1, <1>2, <2>3, ReleaseTable, Zenon DEF OnBudget
  <2> QED BY <1>5, <2>1, <2>2, <2>3
<1> QED BY <1>4, <1>6
-----------------------------------------------------------------------------
(* One lemma per group of actions: each keeps the inductive invariant. *)

\* The budget endpoints and the period close.
LEMMA BudgetActionsInv ==
  ASSUME LedgerInv, NEW b \in BudgetIds, NEW a \in Int,
         NEW policy, NEW sel \in SUBSET BudgetIds,
         \/ CreateBudget(b, a) \/ UpdateBudget(b, a) \/ DeleteBudget(b)
         \/ CloseBudgetPeriod(policy, sel)
  PROVE  LedgerInv'
<1>0. SoundTable(budgets) BY DEF LedgerInv
<1>1. UNCHANGED <<reqs, pos, grns, tx>>
  BY DEF CreateBudget, UpdateBudget, DeleteBudget, CloseBudgetPeriod
<1>2. SoundTable(budgets')
  <2>1. CASE CreateBudget(b, a)
    <3> DEFINE new == [NoBudget EXCEPT !.row = "live", !.allocated = a, !.remaining = a]
    <3>1. Sound(new) BY NewBudgetRow
    <3>2. budgets' = [budgets EXCEPT ![b] = new] BY <2>1 DEF CreateBudget
    <3> HIDE DEF new
    <3>3. new \in Budgets BY <3>1 DEF Sound
    <3> QED BY <1>0, <3>1, <3>2, <3>3 DEF SoundTable
  <2>2. CASE UpdateBudget(b, a)
    BY <1>0, <2>2, ReleaseTable, Zenon DEF UpdateBudget
  <2>3. CASE DeleteBudget(b)
    <3> DEFINE gone == [NoBudget EXCEPT !.row = "gone"]
    <3>1. Sound(gone) BY NewBudgetRow
    <3>2. budgets' = [budgets EXCEPT ![b] = gone] BY <2>3 DEF DeleteBudget
    <3> HIDE DEF gone
    <3>3. gone \in Budgets BY <3>1 DEF Sound
    <3> QED BY <1>0, <3>1, <3>2, <3>3 DEF SoundTable
  <2>4. CASE CloseBudgetPeriod(policy, sel)
    <3>1. \A x \in BudgetIds : /\ Sound(budgets[x])
                               /\ Sound(Lapse(budgets[x])) /\ Sound(Carry(budgets[x]))
      BY <1>0, AdminSound, 0 \in Int DEF SoundTable
    <3>2. \A x : Sound(x) => x \in Budgets BY DEF Sound
    <3> QED BY <2>4, <3>1, <3>2 DEF CloseBudgetPeriod, SoundTable
  <2> QED BY <2>1, <2>2, <2>3, <2>4
<1> QED BY <1>1, <1>2 DEF LedgerInv, TypedReqs, TypedPos, TypedGrns

\* The requisition endpoints that leave the budgets alone.
LEMMA RequisitionEditsInv ==
  ASSUME LedgerInv, NEW r \in ReqIds, NEW b \in BudgetIds \cup {None}, NEW t \in Int,
         NEW st \in {reqs[r].status, "open", "closed"}, NEW im \in {"open", "approved"},
         \/ CreateRequisition(r, b, t) \/ ImportRequisition(r, b, t, im)
         \/ UpdateRequisition(r, st, b, t) \/ TierSign(r) \/ OpenDeskChain(r)
  PROVE  LedgerInv'
<1>0. reqs[r] \in Reqs BY DEF LedgerInv, TypedReqs
<1>1. UNCHANGED <<budgets, pos, grns, tx>>
  BY DEF CreateRequisition, ImportRequisition, UpdateRequisition, TierSign, OpenDeskChain
<1>2. \E q \in Reqs : reqs' = [reqs EXCEPT ![r] = q]
  <2>1. CASE CreateRequisition(r, b, t)
    <3>1. [NoReq EXCEPT !.row = "live", !.budget = b, !.total = t] \in Reqs
      BY NewReqRow
    <3> QED BY <2>1, <3>1 DEF CreateRequisition
  <2>5. CASE ImportRequisition(r, b, t, im)
    <3>1. [NoReq EXCEPT !.row = "live", !.status = im, !.budget = b, !.total = t] \in Reqs
      BY NewReqRow
    <3> QED BY <2>5, <3>1 DEF ImportRequisition
  <2>2. CASE UpdateRequisition(r, st, b, t)
    <3>1. st \in {"open", "approved", "rejected", "cancelled", "ordered", "closed"}
      BY <1>0 DEF Reqs
    <3>2. [reqs[r] EXCEPT !.status = st, !.budget = b, !.total = t] \in Reqs
      BY <1>0, <3>1, ReqRows
    <3> QED BY <2>2, <3>2 DEF UpdateRequisition
  <2>3. CASE TierSign(r)
    <3>1. [reqs[r] EXCEPT !.status = "open", !.signed = TRUE] \in Reqs
      BY <1>0, ReqRows
    <3> QED BY <2>3, <3>1 DEF TierSign
  <2>4. CASE OpenDeskChain(r)
    BY <1>0, <2>4, SetReqColumn DEF OpenDeskChain
  <2> QED BY <2>1, <2>2, <2>3, <2>4, <2>5
<1>3. TypedReqs' BY <1>2, PutRow DEF TypedReqs
<1> QED BY <1>1, <1>3 DEF LedgerInv, TypedPos, TypedGrns, SoundTable

\* The two approval engines' decisions.
LEMMA ApprovalsInv ==
  ASSUME LedgerInv, NEW r \in ReqIds, NEW f \in BOOLEAN,
         NEW d \in {"moving", "approved", "rejected", "cancelled"},
         TierApprove(r, f) \/ TierReject(r) \/ ApplyDeskTransition(r, d)
  PROVE  LedgerInv'
<1>0. reqs[r] \in Reqs /\ SoundTable(budgets) BY DEF LedgerInv, TypedReqs
<1>1. UNCHANGED <<pos, grns, tx>>
  BY DEF TierApprove, TierReject, ApplyDeskTransition
<1>2. SoundTable(budgets') /\ reqs' \in [ReqIds -> Reqs]
  <2>1. CASE TierApprove(r, f)
    <3>1. [reqs[r] EXCEPT !.status = "approved", !.signed = f] \in Reqs
      BY <1>0, ReqRows
    <3> QED BY <2>1, <3>1, CommitmentInv DEF TierApprove
  <2>2. CASE TierReject(r)
    <3>1. [reqs[r] EXCEPT !.status = "rejected"] \in Reqs BY <1>0, SetReqColumn
    <3> QED BY <2>2, <3>1, CommitmentInv DEF TierReject
  <2>3. CASE ApplyDeskTransition(r, d)
    <3> DEFINE row == [reqs[r] EXCEPT !.desk = d, !.status = requisitionStatusFor(d)]
    <3>1. requisitionStatusFor(d) \in {"open", "approved", "rejected", "cancelled"}
      BY DEF requisitionStatusFor
    <3>2. row \in Reqs BY <1>0, <3>1, ReqRows
    <3>3. \/ applyBudgetCommitment(r, row, "approved")
          \/ applyBudgetCommitment(r, row, "rejected")
          \/ reqs' = [reqs EXCEPT ![r] = row] /\ UNCHANGED budgets
      BY <2>3 DEF ApplyDeskTransition
    <3> HIDE DEF row
    <3>4. CASE applyBudgetCommitment(r, row, "approved") BY <3>2, <3>4, CommitmentInv
    <3>5. CASE applyBudgetCommitment(r, row, "rejected") BY <3>2, <3>5, CommitmentInv
    <3>6. CASE reqs' = [reqs EXCEPT ![r] = row] /\ UNCHANGED budgets
      BY <1>0, <3>2, <3>6, PutRow
    <3> QED BY <3>3, <3>4, <3>5, <3>6
  <2> QED BY <2>1, <2>2, <2>3
<1> QED BY <1>1, <1>2 DEF LedgerInv, TypedReqs, TypedPos, TypedGrns

\* The four steps that write no table: three reads and the rollback.
LEMMA ReadsInv ==
  ASSUME LedgerInv,
         \/ \E r \in ReqIds : DeleteRequisitionRead(r)
         \/ \E po \in PoIds \cup {None} : CreateGrnAssert(po)
         \/ \E g \in GrnIds : DeleteGrnRead(g)
         \/ Rollback
  PROVE  LedgerInv'
<1>1. UNCHANGED <<budgets, reqs, pos, grns>>
  BY DEF DeleteRequisitionRead, CreateGrnAssert, DeleteGrnRead, Rollback
<1>2. tx' \in Transactions
  <2>1. ASSUME NEW r \in ReqIds, DeleteRequisitionRead(r) PROVE tx' \in Transactions
    <3>1. HoldsReservation(reqs[r]) \in BOOLEAN BY DEF HoldsReservation
    <3>2. reqs[r].budget \in BudgetIds \cup {None} /\ reqs[r].total \in Int
      BY DEF LedgerInv, TypedReqs, Reqs
    <3> QED BY <2>1, <3>1, <3>2 DEF DeleteRequisitionRead, Transactions
  <2>2. ASSUME NEW po \in PoIds \cup {None}, CreateGrnAssert(po) PROVE tx' \in Transactions
    BY <2>2 DEF CreateGrnAssert, Transactions
  <2>3. ASSUME NEW g \in GrnIds, DeleteGrnRead(g) PROVE tx' \in Transactions
    <3>1. grns[g].po \in PoIds \cup {None} BY DEF LedgerInv, TypedGrns, Grns
    <3> QED BY <2>3, <3>1 DEF DeleteGrnRead, Transactions
  <2>4. CASE Rollback BY <2>4 DEF Rollback, Transactions
  <2> QED BY <2>1, <2>2, <2>3, <2>4
<1> QED BY <1>1, <1>2 DEF LedgerInv, TypedReqs, TypedPos, TypedGrns, SoundTable

\* The commit of DeleteRequisition.
LEMMA DeleteRequisitionInv ==
  ASSUME LedgerInv, DeleteRequisitionCommit
  PROVE  LedgerInv'
<1>0. SoundTable(budgets) BY DEF LedgerInv
<1>1. tx.req \in ReqIds /\ tx.total \in Int
  BY DEF LedgerInv, Transactions, Idle, DeleteRequisitionCommit
<1>2. [NoReq EXCEPT !.row = "gone"] \in Reqs BY FreeRows, SetReqColumn DEF RowStates
<1>3. TypedReqs'
  <2>1. reqs' = [reqs EXCEPT ![tx.req] = [NoReq EXCEPT !.row = "gone"]]
    BY DEF DeleteRequisitionCommit
  <2> QED BY <1>1, <1>2, <2>1, PutRow DEF TypedReqs
<1>4. SoundTable(budgets')
  <2>1. \/ budgets' = budgets
        \/ budgets' = OnBudget(budgets, tx.budget, LAMBDA x : ReleasePre(x, tx.total))
    BY Zenon DEF DeleteRequisitionCommit, OnBudget
  <2>2. CASE budgets' = budgets BY <1>0, <2>2
  <2>3. CASE budgets' = OnBudget(budgets, tx.budget, LAMBDA x : ReleasePre(x, tx.total))
    BY <1>0, <1>1, <2>3, ReleaseTable, Zenon DEF OnBudget
  <2> QED BY <2>1, <2>2, <2>3
<1>5. tx' \in Transactions BY DEF DeleteRequisitionCommit, Transactions
<1>6. UNCHANGED <<pos, grns>> BY DEF DeleteRequisitionCommit
<1> QED BY <1>3, <1>4, <1>5, <1>6 DEF LedgerInv, TypedPos, TypedGrns

\* Raising an order, from the endpoint or from an award.
LEMMA RaisePOInv ==
  ASSUME LedgerInv, NEW p \in PoIds, NEW b \in BudgetIds \cup {None},
         NEW r \in ReqIds \cup {None}, NEW v \in Int, RaisePO(p, b, r, v)
  PROVE  LedgerInv'
<1> DEFINE firm == b # None /\ v > 0
           liquidates == /\ firm /\ r # None /\ HoldsReservation(reqs[r])
                         /\ reqs[r].budget # None /\ reqs[r].total > 0
           released == IF liquidates
                       THEN OnBudget(budgets, reqs[r].budget,
                                     LAMBDA x : ReleasePre(x, reqs[r].total))
                       ELSE budgets
<1>0. SoundTable(budgets) BY DEF LedgerInv
<1>1. SoundTable(released)
  <2>1. CASE liquidates
    <3>1. r \in ReqIds BY <2>1
    <3>2. reqs[r].total \in Int BY <3>1 DEF LedgerInv, TypedReqs, Reqs
    <3>3. SoundTable(OnBudget(budgets, reqs[r].budget,
                              LAMBDA x : ReleasePre(x, reqs[r].total)))
      BY <1>0, <3>2, ReleaseTable, Zenon DEF OnBudget
    <3> QED BY <2>1, <3>3, Zenon DEF OnBudget
  <2>2. CASE ~liquidates BY <1>0, <2>2, Zenon
  <2> QED BY <2>1, <2>2
<1>2. budgets' = IF firm THEN OnBudget(released, b, LAMBDA x : Encumber(x, v)) ELSE budgets
  BY Zenon DEF RaisePO
<1>3. reqs' = [x \in ReqIds |->
                 IF x # r THEN reqs[x]
                 ELSE [reqs[x] EXCEPT !.status = "ordered",
                                      !.released = reqs[x].released \/ liquidates]]
  BY Zenon DEF RaisePO
<1>4. /\ pos' = [pos EXCEPT ![p] = [row |-> "live", status |-> poInitialStatus(v),
                                    budget |-> b, req |-> r, total |-> v,
                                    committed |-> firm, recognized |-> 0]]
      /\ UNCHANGED <<grns, tx>>
  BY DEF RaisePO
<1>5. firm \in BOOLEAN /\ liquidates \in BOOLEAN OBVIOUS
<1> HIDE DEF liquidates, released
<1>6. SoundTable(budgets')
  <2>1. CASE firm
    <3>1. SoundTable(OnBudget(released, b, LAMBDA x : Encumber(x, v)))
      BY <1>1, <2>1, ChargeTable, Zenon DEF OnBudget
    <3> QED BY <1>2, <2>1, <3>1, Zenon DEF OnBudget
  <2>2. CASE ~firm BY <1>0, <1>2, <2>2, Zenon
  <2> QED BY <2>1, <2>2
<1>7. TypedReqs'
  <2>1. ASSUME NEW x \in ReqIds
        PROVE  [reqs[x] EXCEPT !.status = "ordered",
                               !.released = reqs[x].released \/ liquidates] \in Reqs
    <3>1. reqs[x] \in Reqs BY DEF LedgerInv, TypedReqs
    <3>2. (reqs[x].released \/ liquidates) \in BOOLEAN OBVIOUS
    <3> QED BY <3>1, <3>2, ReqRows, Zenon
  <2>2. \A x \in ReqIds : reqs[x] \in Reqs BY DEF LedgerInv, TypedReqs
  <2> QED BY <1>3, <2>1, <2>2 DEF TypedReqs
<1>8. TypedPos'
  <2> DEFINE new == [row |-> "live", status |-> poInitialStatus(v), budget |-> b, req |-> r,
                     total |-> v, committed |-> firm, recognized |-> 0]
  <2>1. poInitialStatus(v) \in {"pending", "cleared", "void"} BY DEF poInitialStatus
  <2>2. new \in Pos BY <1>5, <2>1 DEF Pos, RowStates
  <2>3. new.recognized = 0 OBVIOUS
  <2>4. pos' = [pos EXCEPT ![p] = new] BY <1>4
  <2> HIDE DEF new
  <2> QED BY <2>2, <2>3, <2>4, PutRow DEF TypedPos
<1> QED BY <1>4, <1>6, <1>7, <1>8 DEF LedgerInv, TypedGrns

\* The orders' PATCH.
LEMMA UpdatePurchaseOrderInv ==
  ASSUME LedgerInv, NEW p \in PoIds, NEW st \in {"pending", "cleared", "void"},
         NEW v \in Int, NEW b \in BudgetIds \cup {None}, NEW r \in ReqIds \cup {None},
         UpdatePurchaseOrder(p, st, v, b, r)
  PROVE  LedgerInv'
<1> DEFINE row == [pos[p] EXCEPT !.status = st, !.total = v, !.budget = b, !.req = r]
           bid == pos[p].budget
           open == OpenAmount(pos[p])
           delta == v - pos[p].total
<1>0. SoundTable(budgets) /\ pos[p] \in Pos /\ pos[p].recognized >= 0
  BY DEF LedgerInv, TypedPos
<1>1. open \in Int /\ delta \in Int BY <1>0 DEF OpenAmount, Pos
<1>2. row = PatchedPo(pos[p], st, v, b, r) BY Zenon DEF PatchedPo
<1>3. pos' = [pos EXCEPT ![p] = row] \/ pos' = [pos EXCEPT ![p] = [row EXCEPT !.committed = FALSE]]
  BY Zenon DEF UpdatePurchaseOrder
<1>4. \/ budgets' = budgets
      \/ budgets' = OnBudget(budgets, bid, LAMBDA x : ReleaseCommitted(x, open))
      \/ budgets' = OnBudget(budgets, bid, LAMBDA x : AdjustCommitted(x, delta))
  BY Zenon DEF UpdatePurchaseOrder, OnBudget
<1>5. UNCHANGED <<reqs, grns, tx>> BY DEF UpdatePurchaseOrder
<1> HIDE DEF row
<1>6. TypedPos'
  <2>1. /\ row \in Pos /\ row.recognized = pos[p].recognized
        /\ [row EXCEPT !.committed = FALSE] \in Pos
        /\ [row EXCEPT !.committed = FALSE].recognized = pos[p].recognized
    <3>1. pos[p] \in Pos BY <1>0
    <3>2. /\ PatchedPo(pos[p], st, v, b, r) \in Pos
          /\ PatchedPo(pos[p], st, v, b, r).recognized = pos[p].recognized
          /\ [PatchedPo(pos[p], st, v, b, r) EXCEPT !.committed = FALSE] \in Pos
          /\ [PatchedPo(pos[p], st, v, b, r) EXCEPT !.committed = FALSE].recognized
               = pos[p].recognized
      BY ONLY <3>1, PoRows, st \in {"pending", "cleared", "void"}, v \in Int,
              b \in BudgetIds \cup {None}, r \in ReqIds \cup {None}
    <3> QED BY ONLY <1>2, <3>2
  <2>2. \E q \in Pos : q.recognized >= 0 /\ pos' = [pos EXCEPT ![p] = q]
    BY <1>0, <1>3, <2>1, Zenon
  <2> QED BY <2>2, PutRow DEF TypedPos
<1> HIDE DEF bid, open, delta
<1>7. SoundTable(budgets')
  <2>1. CASE budgets' = budgets BY <1>0, <2>1
  <2>2. CASE budgets' = OnBudget(budgets, bid, LAMBDA x : ReleaseCommitted(x, open))
    <3>1. SoundTable(OnBudget(budgets, bid, LAMBDA x : ReleaseCommitted(x, open)))
      BY <1>0, <1>1, ReleaseTable, Zenon DEF OnBudget
    <3> QED BY <2>2, <3>1, Zenon DEF OnBudget
  <2>3. CASE budgets' = OnBudget(budgets, bid, LAMBDA x : AdjustCommitted(x, delta))
    <3>1. SoundTable(OnBudget(budgets, bid, LAMBDA x : AdjustCommitted(x, delta)))
      BY <1>0, <1>1, ReleaseTable, Zenon DEF OnBudget
    <3> QED BY <2>3, <3>1, Zenon DEF OnBudget
  <2> QED BY <1>4, <2>1, <2>2, <2>3
<1> QED BY <1>5, <1>6, <1>7 DEF LedgerInv, TypedReqs, TypedGrns

\* The orders' DELETE.
LEMMA DeletePurchaseOrderInv ==
  ASSUME LedgerInv, NEW p \in PoIds, DeletePurchaseOrder(p)
  PROVE  LedgerInv'
<1> DEFINE bid == pos[p].budget
           open == OpenAmount(pos[p])
           gone == [NoPo EXCEPT !.row = "gone"]
<1>0. SoundTable(budgets) /\ pos[p] \in Pos BY DEF LedgerInv, TypedPos
<1>1. open \in Int BY <1>0 DEF OpenAmount, Pos
<1>2. gone \in Pos /\ gone.recognized >= 0
  <2>1. gone \in Pos BY FreeRows, SetPoColumn DEF RowStates
  <2>2. gone.recognized = 0 BY DEF NoPo
  <2> HIDE DEF gone
  <2> QED BY <2>1, <2>2
<1>3. pos' = [pos EXCEPT ![p] = gone] BY DEF DeletePurchaseOrder
<1>4. \/ budgets' = budgets
      \/ budgets' = OnBudget(budgets, bid, LAMBDA x : ReleaseCommitted(x, open))
  BY Zenon DEF DeletePurchaseOrder, OnBudget
<1>5. UNCHANGED <<reqs, grns, tx>> BY DEF DeletePurchaseOrder
<1> HIDE DEF gone
<1>6. TypedPos' BY <1>2, <1>3, PutRow DEF TypedPos
<1>7. SoundTable(budgets')
  <2>1. CASE budgets' = budgets BY <1>0, <2>1
  <2>2. CASE budgets' = OnBudget(budgets, bid, LAMBDA x : ReleaseCommitted(x, open))
    BY <1>0, <1>1, <2>2, ReleaseTable, Zenon DEF OnBudget
  <2> QED BY <1>4, <2>1, <2>2
<1> QED BY <1>5, <1>6, <1>7 DEF LedgerInv, TypedReqs, TypedGrns

\* A reversal keeps the orders' table.
LEMMA UnreceivedPos ==
  ASSUME LedgerInv, NEW po \in PoIds, NEW a \in Int
  PROVE  /\ Unreceived(po, a) \in [PoIds -> Pos]
         /\ \A p \in PoIds : Unreceived(po, a)[p].recognized >= 0
<1> DEFINE x == Floor0(pos[po].recognized - a)
           row == [pos[po] EXCEPT !.recognized = x]
<1>0. pos[po] \in Pos BY DEF LedgerInv, TypedPos
<1>1. pos[po].recognized - a \in Int BY <1>0 DEF Pos
<1>2. x \in Int /\ x >= 0 BY <1>1, Floor0Nat
<1> HIDE DEF x
<1>3. row \in Pos BY <1>0, <1>2, SetPoColumn
<1>4. row.recognized >= 0 BY <1>0, <1>2 DEF Pos
<1> HIDE DEF row
<1>5. Unreceived(po, a) = [pos EXCEPT ![po] = row] BY Zenon DEF Unreceived, row, x
<1> QED BY <1>3, <1>4, <1>5, PutRow

\* recognizePOSpendOnReceipt keeps the parts of the invariant it writes.
LEMMA RecognitionInv ==
  ASSUME LedgerInv, NEW g \in GrnIds, NEW row \in Grns, row.amount >= 0,
         NEW po \in PoIds \cup {None}, NEW posted \in BOOLEAN,
         recognizePOSpendOnReceipt(g, row, po, posted)
  PROVE  SoundTable(budgets') /\ TypedPos' /\ TypedGrns'
<1> DEFINE open == OpenAmount(pos[po])
           value == IF row.value > 0 THEN row.value ELSE open
           amt == IF value > open THEN open ELSE value
           bid == pos[po].budget
           Put(q) == grns' = [grns EXCEPT ![g] = q]
<1>0. SoundTable(budgets) /\ TypedPos BY DEF LedgerInv
<1>1. row.value \in Nat /\ row.amount \in Int BY DEF Grns
<1>2. \A q \in Grns : q.amount >= 0 /\ Put(q) => TypedGrns'
  BY PutRow DEF TypedGrns
<1>3. UNCHANGED <<budgets, pos>> => SoundTable(budgets') /\ TypedPos'
  BY <1>0 DEF TypedPos
<1>4. \A f \in BOOLEAN, a \in Int : a >= 0 =>
        /\ [row EXCEPT !.recognized = f, !.amount = a] \in Grns
        /\ [row EXCEPT !.recognized = f, !.amount = a].amount >= 0
  <2> TAKE f \in BOOLEAN, a \in Int
  <2> DEFINE q == [row EXCEPT !.recognized = f, !.amount = a]
  <2>1. q \in Grns /\ q.amount = a BY MarkedGrnRow, Zenon
  <2> HIDE DEF q
  <2>2. a >= 0 => q \in Grns /\ q.amount >= 0 BY <2>1
  <2> QED BY <2>2, Zenon DEF q
<1>a. 0 \in Int /\ 0 >= 0 OBVIOUS
<1>5. CASE UNCHANGED <<budgets, pos>> /\ Put(row)
  BY <1>2, <1>3, <1>5
<1>6. CASE /\ UNCHANGED <<budgets, pos>>
           /\ \E f \in BOOLEAN : Put([row EXCEPT !.recognized = f, !.amount = 0])
  BY <1>2, <1>3, <1>4, <1>6, <1>a, Zenon
<1>7. CASE /\ po \in Live(pos) /\ open > 0
           /\ budgets' = OnBudget(budgets, bid, LAMBDA x : Recognize(x, amt))
           /\ pos' = [pos EXCEPT ![po] = [pos[po] EXCEPT !.recognized = pos[po].recognized + amt]]
           /\ Put([row EXCEPT !.recognized = TRUE, !.amount = amt])
  <2>1. po \in PoIds BY <1>0, <1>7 DEF Live, TypedPos
  <2>2. pos[po] \in Pos /\ pos[po].recognized >= 0 BY <1>0, <2>1 DEF TypedPos
  <2>3. open \in Int BY <2>2 DEF OpenAmount, Pos
  <2>4. amt \in Int /\ amt > 0 BY <1>1, <1>7, <2>3
  <2>5. pos[po].recognized + amt \in Nat BY <2>2, <2>4 DEF Pos
  <2>6. /\ [pos[po] EXCEPT !.recognized = pos[po].recognized + amt] \in Pos
        /\ [pos[po] EXCEPT !.recognized = pos[po].recognized + amt].recognized >= 0
    <3> DEFINE x == pos[po].recognized + amt
    <3>1. x \in Int /\ x >= 0 BY <2>5
    <3> HIDE DEF x
    <3>2. [pos[po] EXCEPT !.recognized = x] \in Pos BY <2>2, <3>1, SetPoColumn
    <3>3. [pos[po] EXCEPT !.recognized = x].recognized >= 0 BY <2>2, <3>1 DEF Pos
    <3> QED BY <3>2, <3>3, Zenon DEF x
  <2> HIDE DEF amt
  <2>7. TypedPos' BY <1>7, <2>1, <2>6, PutRow DEF TypedPos
  <2>8. SoundTable(budgets')
    BY <1>0, <1>7, <2>4, ChargeTable, Zenon DEF OnBudget
  <2>9. TypedGrns'
    <3>1. amt >= 0 BY <2>4
    <3> QED BY <1>2, <1>4, <1>7, <2>4, <3>1, Zenon
  <2> QED BY <2>7, <2>8, <2>9
<1>8. CASE /\ po \in Live(pos) /\ row.amount > 0
           /\ budgets' = OnBudget(budgets, bid, LAMBDA x : Unrecognize(x, row.amount))
           /\ pos' = Unreceived(po, row.amount)
           /\ Put([row EXCEPT !.recognized = FALSE, !.amount = 0])
  <2>1. po \in PoIds BY <1>0, <1>8 DEF Live, TypedPos
  <2>2. TypedPos' BY <1>1, <1>8, <2>1, UnreceivedPos DEF TypedPos
  <2>3. SoundTable(budgets')
    BY <1>0, <1>1, <1>8, ChargeTable, Zenon DEF OnBudget
  <2>4. TypedGrns' BY <1>2, <1>4, <1>8, <1>a, Zenon
  <2> QED BY <2>2, <2>3, <2>4
<1>9. \/ UNCHANGED <<budgets, pos>> /\ Put(row)
      \/ /\ UNCHANGED <<budgets, pos>>
         /\ \E f \in BOOLEAN : Put([row EXCEPT !.recognized = f, !.amount = 0])
      \/ /\ po \in Live(pos) /\ open > 0
         /\ budgets' = OnBudget(budgets, bid, LAMBDA x : Recognize(x, amt))
         /\ pos' = [pos EXCEPT ![po] = [pos[po] EXCEPT !.recognized = pos[po].recognized + amt]]
         /\ Put([row EXCEPT !.recognized = TRUE, !.amount = amt])
      \/ /\ po \in Live(pos) /\ row.amount > 0
         /\ budgets' = OnBudget(budgets, bid, LAMBDA x : Unrecognize(x, row.amount))
         /\ pos' = Unreceived(po, row.amount)
         /\ Put([row EXCEPT !.recognized = FALSE, !.amount = 0])
  BY Zenon DEF recognizePOSpendOnReceipt, OnBudget
<1> HIDE DEF Put, amt, open, bid
<1> QED BY <1>5, <1>6, <1>7, <1>8, <1>9, Zenon DEF OnBudget

\* The commits of the receipts' endpoints.
LEMMA ReceiptWritesInv ==
  ASSUME LedgerInv, NEW g \in GrnIds, NEW posted \in BOOLEAN,
         NEW po \in PoIds \cup {None}, NEW v \in Nat,
         CreateGrnCommit(g, posted, v) \/ UpdateGrn(g, posted, po, v)
  PROVE  LedgerInv'
<1>0. grns[g] \in Grns /\ grns[g].amount >= 0 BY DEF LedgerInv, TypedGrns
<1>1. CASE CreateGrnCommit(g, posted, v)
  <2> DEFINE row == [NoGrn EXCEPT !.row = "live", !.posted = posted, !.po = tx.po, !.value = v]
  <2>1. tx.po \in PoIds \cup {None}
    BY <1>1 DEF LedgerInv, Transactions, Idle, CreateGrnCommit
  <2>2. row \in Grns /\ row.amount = 0 BY <2>1, NewGrnRow, Zenon
  <2>3. recognizePOSpendOnReceipt(g, row, tx.po, posted) BY <1>1, Zenon DEF CreateGrnCommit
  <2> HIDE DEF row
  <2>4. row.amount >= 0 BY <2>2
  <2>5. SoundTable(budgets') /\ TypedPos' /\ TypedGrns'
    BY <2>1, <2>2, <2>3, <2>4, RecognitionInv, Zenon
  <2>6. tx' \in Transactions /\ UNCHANGED reqs BY <1>1 DEF CreateGrnCommit, Transactions
  <2> QED BY <2>5, <2>6 DEF LedgerInv, TypedReqs
<1>2. CASE UpdateGrn(g, posted, po, v)
  <2> DEFINE row == [grns[g] EXCEPT !.posted = posted, !.po = po, !.value = v]
  <2>1. row = PatchedGrn(grns[g], posted, po, v) BY Zenon DEF PatchedGrn
  <2>2. recognizePOSpendOnReceipt(g, row, po, posted) BY <1>2, Zenon DEF UpdateGrn
  <2> HIDE DEF row
  <2>3. /\ PatchedGrn(grns[g], posted, po, v) \in Grns
        /\ PatchedGrn(grns[g], posted, po, v).amount = grns[g].amount
    BY ONLY <1>0, GrnRows, posted \in BOOLEAN, po \in PoIds \cup {None}, v \in Nat
  <2>4. row \in Grns /\ row.amount >= 0 BY ONLY <1>0, <2>1, <2>3
  <2>5. SoundTable(budgets') /\ TypedPos' /\ TypedGrns'
    BY <2>2, <2>4, RecognitionInv, Zenon
  <2>6. UNCHANGED <<reqs, tx>> BY <1>2 DEF UpdateGrn
  <2> QED BY <2>5, <2>6 DEF LedgerInv, TypedReqs
<1> QED BY <1>1, <1>2

\* The commit of DeleteGrn.
LEMMA DeleteGrnInv ==
  ASSUME LedgerInv, DeleteGrnCommit
  PROVE  LedgerInv'
<1> DEFINE g == tx.grn
           held == grns[g].amount
           po == tx.po
           gone == [NoGrn EXCEPT !.row = "gone"]
<1>0. SoundTable(budgets) BY DEF LedgerInv
<1>1. g \in GrnIds /\ tx' \in Transactions /\ UNCHANGED reqs
  BY DEF LedgerInv, Transactions, Idle, DeleteGrnCommit
<1>2. grns[g] \in Grns BY <1>1 DEF LedgerInv, TypedGrns
<1>3. held \in Int BY <1>2 DEF Grns
<1>4. \/ budgets' = budgets /\ pos' = pos
      \/ /\ po \in Live(pos) /\ held > 0
         /\ budgets' = OnBudget(budgets, pos[po].budget, LAMBDA x : Unrecognize(x, held))
         /\ pos' = Unreceived(po, held)
  BY Zenon DEF DeleteGrnCommit, OnBudget
<1>5. grns' = [grns EXCEPT ![g] = gone] BY DEF DeleteGrnCommit
<1>6. TypedGrns'
  <2>1. gone \in Grns BY FreeRows, SetGrnColumn DEF RowStates
  <2>2. gone.amount = 0 BY DEF NoGrn
  <2> HIDE DEF gone, g
  <2>3. gone.amount >= 0 BY <2>2
  <2> QED BY <1>1, <1>5, <2>1, <2>3, PutRow DEF TypedGrns
<1>7. CASE budgets' = budgets /\ pos' = pos
  BY <1>0, <1>1, <1>6, <1>7 DEF LedgerInv, TypedReqs, TypedPos
<1>8. CASE /\ po \in Live(pos) /\ held > 0
           /\ budgets' = OnBudget(budgets, pos[po].budget, LAMBDA x : Unrecognize(x, held))
           /\ pos' = Unreceived(po, held)
  <2>1. po \in PoIds BY <1>8 DEF Live, LedgerInv, TypedPos
  <2>2. TypedPos' BY <1>3, <1>8, <2>1, UnreceivedPos DEF TypedPos
  <2>3. SoundTable(OnBudget(budgets, pos[po].budget, LAMBDA x : Unrecognize(x, held)))
    BY <1>0, <1>3, <1>8, ChargeTable, Zenon DEF OnBudget
  <2>4. SoundTable(budgets') BY <1>8, <2>3, Zenon DEF OnBudget
  <2> QED BY <1>1, <1>6, <2>2, <2>4 DEF LedgerInv, TypedReqs
<1> QED BY <1>4, <1>7, <1>8, Zenon DEF OnBudget

-----------------------------------------------------------------------------
\* The empty tables satisfy the invariant.
LEMMA LedgerInit == Init => LedgerInv
<1> SUFFICES ASSUME Init PROVE LedgerInv OBVIOUS
<1>1. NoBudget \in Budgets BY FreeRows DEF Sound
<1>2. SoundTable(budgets) BY <1>1, FreeRows DEF Init, SoundTable
<1>3. TypedReqs /\ TypedPos /\ TypedGrns
  BY FreeRows DEF Init, TypedReqs, TypedPos, TypedGrns
<1>4. tx \in Transactions BY DEF Init, Transactions
<1> QED BY <1>2, <1>3, <1>4 DEF LedgerInv

\* Every step keeps the invariant.
LEMMA LedgerStep == LedgerInv /\ [Next]_vars => LedgerInv'
<1> SUFFICES ASSUME LedgerInv, [Next]_vars PROVE LedgerInv' OBVIOUS
<1> USE LedgerAssumption
<1>1. ASSUME NEW b \in BudgetIds, NEW a \in Allocations, CreateBudget(b, a) \/ UpdateBudget(b, a)
      PROVE  LedgerInv'
  <2>1. a \in Int /\ {} \in SUBSET BudgetIds BY DEF LedgerAssumption
  <2> QED BY <1>1, <2>1, BudgetActionsInv
<1>2. ASSUME NEW b \in BudgetIds, DeleteBudget(b) PROVE LedgerInv'
  BY <1>2, 0 \in Int, {} \in SUBSET BudgetIds, BudgetActionsInv
<1>3. ASSUME NEW policy \in Policies, NEW sel \in SUBSET BudgetIds, CloseBudgetPeriod(policy, sel)
      PROVE  LedgerInv'
  <2>1. \E b : b \in sel BY <1>3 DEF CloseBudgetPeriod
  <2>2. PICK b \in BudgetIds : TRUE BY <2>1
  <2> QED BY <1>3, <2>2, 0 \in Int, BudgetActionsInv
<1>4. ASSUME NEW r \in ReqIds, NEW b \in BudgetIds \cup {None}, NEW t \in Totals,
             NEW im \in {"open", "approved"},
             CreateRequisition(r, b, t) \/ ImportRequisition(r, b, t, im)
      PROVE  LedgerInv'
  <2>1. t \in Int /\ "open" \in {reqs[r].status, "open", "closed"} BY DEF LedgerAssumption
  <2> QED BY <1>4, <2>1, RequisitionEditsInv
<1>a. "open" \in {"open", "approved"} OBVIOUS
<1>5. ASSUME NEW r \in ReqIds, NEW b \in BudgetIds \cup {None},
             NEW st \in {reqs[r].status, "open", "closed"},
             NEW t \in {reqs[r].total} \cup Totals, UpdateRequisition(r, st, b, t)
      PROVE  LedgerInv'
  <2>1. t \in Int BY DEF LedgerAssumption, LedgerInv, TypedReqs, Reqs
  <2> QED BY <1>5, <2>1, <1>a, RequisitionEditsInv
<1>6. ASSUME NEW r \in ReqIds, TierSign(r) \/ OpenDeskChain(r) PROVE LedgerInv'
  <2>1. "open" \in {reqs[r].status, "open", "closed"} /\ None \in BudgetIds \cup {None}
    OBVIOUS
  <2> QED BY <1>6, <2>1, <1>a, 0 \in Int, RequisitionEditsInv
<1>7. ASSUME NEW r \in ReqIds, NEW f \in BOOLEAN,
             NEW d \in {"moving", "approved", "rejected", "cancelled"},
             TierApprove(r, f) \/ TierReject(r) \/ ApplyDeskTransition(r, d)
      PROVE  LedgerInv'
  BY <1>7, ApprovalsInv
<1>8. CASE \/ \E r \in ReqIds : DeleteRequisitionRead(r)
           \/ \E po \in PoIds \cup {None} : CreateGrnAssert(po)
           \/ \E g \in GrnIds : DeleteGrnRead(g)
           \/ Rollback
  BY <1>8, ReadsInv, Zenon
<1>9. CASE DeleteRequisitionCommit BY <1>9, DeleteRequisitionInv
<1>10. ASSUME NEW p \in PoIds, NEW b \in BudgetIds, NEW r \in ReqIds \cup {None},
              NEW v \in OrderValues, CreatePurchaseOrder(p, b, r, v)
       PROVE  LedgerInv'
  <2>1. v \in Int BY DEF LedgerAssumption
  <2> QED BY <1>10, <2>1, RaisePOInv DEF CreatePurchaseOrder
<1>11. ASSUME NEW p \in PoIds, NEW b \in BudgetIds \cup {None}, NEW r \in ReqIds \cup {None},
              NEW v \in OrderValues, AwardRfq(p, b, r, v)
       PROVE  LedgerInv'
  <2> DEFINE c == IF b = None /\ r # None THEN reqs[r].budget ELSE b
  <2>1. v \in Int BY DEF LedgerAssumption
  <2>2. c \in BudgetIds \cup {None} BY DEF LedgerInv, TypedReqs, Reqs
  <2>3. RaisePO(p, c, r, v) BY <1>11, Zenon DEF AwardRfq
  <2> HIDE DEF c
  <2> QED BY <2>1, <2>2, <2>3, RaisePOInv
<1>12. ASSUME NEW p \in PoIds, NEW st \in {"pending", "cleared", "void"},
              NEW b \in BudgetIds \cup {None}, NEW r \in ReqIds \cup {None},
              NEW v \in {pos[p].total} \cup OrderValues, UpdatePurchaseOrder(p, st, v, b, r)
       PROVE  LedgerInv'
  <2>1. v \in Int BY DEF LedgerAssumption, LedgerInv, TypedPos, Pos
  <2> QED BY <1>12, <2>1, UpdatePurchaseOrderInv
<1>13. ASSUME NEW p \in PoIds, DeletePurchaseOrder(p) PROVE LedgerInv'
  BY <1>13, DeletePurchaseOrderInv
<1>14. ASSUME NEW g \in GrnIds, NEW posted \in BOOLEAN, NEW po \in PoIds \cup {None},
              NEW v \in ReceiptValues,
              CreateGrnCommit(g, posted, v) \/ UpdateGrn(g, posted, po, v)
       PROVE  LedgerInv'
  <2>1. v \in Nat BY DEF LedgerAssumption
  <2> QED BY <1>14, <2>1, ReceiptWritesInv
<1>15. CASE DeleteGrnCommit BY <1>15, DeleteGrnInv
<1>16. CASE UNCHANGED vars
  BY <1>16 DEF vars, LedgerInv, TypedReqs, TypedPos, TypedGrns, SoundTable
<1> QED
  BY <1>1, <1>2, <1>3, <1>4, <1>5, <1>6, <1>7, <1>8, <1>9, <1>10,
     <1>11, <1>12, <1>13, <1>14, <1>15, <1>16, <1>a
  DEF Next, postBudget, patchBudget, deleteBudget, closeBudgetPeriod, postRequisition,
      deleteRequisition

\* The inductive invariant holds of every reachable state.
THEOREM LedgerInvariant == Spec => []LedgerInv
<1>1. Init => LedgerInv BY LedgerInit
<1>2. LedgerInv /\ [Next]_vars => LedgerInv' BY LedgerStep
<1> QED BY <1>1, <1>2, PTL DEF Spec

\* What an order or a period close adds to the budgets adrift.
LEMMA DriftsMoves ==
  ASSUME LedgerInv, NEW po \in Live(pos), Drifts(po)
  PROVE  adrift \subseteq adrift' /\ adrift' \subseteq adrift \cup BudgetIds \cup {None}
<1>1. pos[po].budget \in BudgetIds \cup {None} BY DEF LedgerInv, TypedPos, Live, Pos
<1> QED BY <1>1 DEF Drifts

\* A budget once adrift stays so.
LEMMA AdriftGrows ==
  ASSUME LedgerInv, [Next]_vars
  PROVE  adrift \subseteq adrift' /\ adrift' \subseteq adrift \cup BudgetIds \cup {None}
<1> DEFINE Grows == adrift \subseteq adrift' /\ adrift' \subseteq adrift \cup BudgetIds \cup {None}
<1>0. UNCHANGED adrift => Grows OBVIOUS
<1>1. ASSUME NEW po, po \in Live(pos), Drifts(po) PROVE Grows BY <1>1, DriftsMoves
<1>2. ASSUME NEW policy, NEW sel \in SUBSET BudgetIds, CloseBudgetPeriod(policy, sel) PROVE Grows
  BY <1>2 DEF CloseBudgetPeriod
<1>3. ASSUME NEW g, NEW row, NEW po, NEW posted, recognizePOSpendOnReceipt(g, row, po, posted)
      PROVE  Grows
  <2>1. UNCHANGED adrift \/ (po \in Live(pos) /\ Drifts(po))
    BY <1>3, Zenon DEF recognizePOSpendOnReceipt
  <2> QED BY <1>0, <1>1, <2>1
<1>4. ASSUME DeleteGrnCommit PROVE Grows
  <2>1. UNCHANGED adrift \/ (tx.po \in Live(pos) /\ Drifts(tx.po))
    BY <1>4, Zenon DEF DeleteGrnCommit
  <2> QED BY <1>0, <1>1, <2>1
<1> HIDE DEF Grows
<1>5. \A b, a : CreateBudget(b, a) \/ UpdateBudget(b, a) \/ DeleteBudget(b) => UNCHANGED adrift
  BY DEF CreateBudget, UpdateBudget, DeleteBudget
<1>6. \A r, b, t, st : \/ CreateRequisition(r, b, t) \/ ImportRequisition(r, b, t, st)
                      \/ UpdateRequisition(r, st, b, t) => UNCHANGED adrift
  BY DEF CreateRequisition, ImportRequisition, UpdateRequisition
<1>7. \A r, f, d : \/ TierSign(r) \/ TierApprove(r, f) \/ TierReject(r) \/ OpenDeskChain(r)
                  \/ ApplyDeskTransition(r, d) => UNCHANGED adrift
  BY Zenon DEF TierSign, TierApprove, TierReject, OpenDeskChain, ApplyDeskTransition
<1>8. \A r, po, g : \/ DeleteRequisitionRead(r) \/ DeleteRequisitionCommit
                   \/ CreateGrnAssert(po) \/ DeleteGrnRead(g) \/ Rollback => UNCHANGED adrift
  BY Zenon
  DEF DeleteRequisitionRead, DeleteRequisitionCommit, CreateGrnAssert, DeleteGrnRead, Rollback
<1>9. \A p, b, r, v : CreatePurchaseOrder(p, b, r, v) \/ AwardRfq(p, b, r, v) => UNCHANGED adrift
  <2>1. ASSUME NEW p, NEW b, NEW r, NEW v, RaisePO(p, b, r, v) PROVE UNCHANGED adrift
    BY <2>1 DEF RaisePO
  <2>2. ASSUME NEW p, NEW b, NEW r, NEW v, AwardRfq(p, b, r, v) PROVE UNCHANGED adrift
    BY <2>1, <2>2 DEF AwardRfq
  <2> QED BY <2>1, <2>2, Zenon DEF CreatePurchaseOrder
<1>10. \A p, st, v, b, r : UpdatePurchaseOrder(p, st, v, b, r) \/ DeletePurchaseOrder(p)
                            => UNCHANGED adrift
  <2>1. ASSUME NEW p, NEW st, NEW v, NEW b, NEW r, UpdatePurchaseOrder(p, st, v, b, r)
        PROVE  UNCHANGED adrift
    BY <2>1 DEF UpdatePurchaseOrder
  <2>2. ASSUME NEW p, DeletePurchaseOrder(p) PROVE UNCHANGED adrift
    BY <2>2 DEF DeletePurchaseOrder
  <2> QED BY <2>1, <2>2, Zenon
<1>11. \A g, posted, po, v : CreateGrnCommit(g, posted, v) \/ UpdateGrn(g, posted, po, v) => Grows
  BY <1>3, Zenon DEF CreateGrnCommit, UpdateGrn
<1>12. UNCHANGED vars => UNCHANGED adrift BY DEF vars
<1>13. /\ \A b, a : CreateBudget(b, a) \/ UpdateBudget(b, a) => Grows
       /\ \A b : DeleteBudget(b) => Grows
       /\ \A policy \in Policies, sel \in SUBSET BudgetIds :
            CloseBudgetPeriod(policy, sel) => Grows
  BY <1>0, <1>2, <1>5, Zenon
<1>14. /\ \A r, b, t : CreateRequisition(r, b, t) => Grows
       /\ \A r, b, t, st : ImportRequisition(r, b, t, st) \/ UpdateRequisition(r, st, b, t) => Grows
       /\ \A r : TierSign(r) \/ TierReject(r) \/ OpenDeskChain(r) => Grows
       /\ \A r, f : TierApprove(r, f) => Grows
       /\ \A r, d : ApplyDeskTransition(r, d) => Grows
  BY <1>0, <1>6, <1>7, Zenon
<1>15. /\ \A r : DeleteRequisitionRead(r) => Grows
       /\ \A po : CreateGrnAssert(po) => Grows
       /\ \A g : DeleteGrnRead(g) => Grows
       /\ DeleteRequisitionCommit => Grows
       /\ Rollback => Grows
  BY <1>0, <1>8, Zenon
<1>16. /\ \A p, b, r, v : CreatePurchaseOrder(p, b, r, v) \/ AwardRfq(p, b, r, v) => Grows
       /\ \A p, st, v, b, r : UpdatePurchaseOrder(p, st, v, b, r) => Grows
       /\ \A p : DeletePurchaseOrder(p) => Grows
  BY <1>0, <1>9, <1>10, Zenon
<1>17. /\ \A g, posted, v : CreateGrnCommit(g, posted, v) => Grows
       /\ \A g, posted, po, v : UpdateGrn(g, posted, po, v) => Grows
  BY <1>11, Zenon
<1>18. Next => Grows
  BY <1>4, <1>13, <1>14, <1>15, <1>16, <1>17, Zenon
  DEF Next, postBudget, patchBudget, deleteBudget, closeBudgetPeriod, postRequisition,
      deleteRequisition
<1> QED BY <1>0, <1>12, <1>18 DEF Grows

\* Every column of every table keeps its type, whatever is edited or raced.
THEOREM LedgerTypes == Spec => []TypeOK
<1> DEFINE Typed == LedgerInv /\ adrift \subseteq BudgetIds \cup {None}
<1>1. Init => Typed BY LedgerInit DEF Init
<1>2. Typed /\ [Next]_vars => Typed' BY LedgerStep, AdriftGrows
<1>3. Typed => TypeOK BY DEF LedgerInv, SoundTable, TypedReqs, TypedPos, TypedGrns, TypeOK
<1> QED BY <1>1, <1>2, <1>3, PTL DEF Spec

\* The stored "remaining" column is always the one its definition gives,
\* after any sequence of the statements that maintain it.
THEOREM LedgerIdentity == Spec => []RemainingIdentity
<1>1. LedgerInv => RemainingIdentity BY DEF LedgerInv, SoundTable, Sound, RemainingIdentity
<1> QED BY <1>1, LedgerInvariant, PTL

\* No stage of a budget, no order's recognised spend and no receipt's stored
\* amount is ever negative.
THEOREM LedgerStages == Spec => []NonNegativeStages
<1>1. LedgerInv => NonNegativeStages
  BY DEF LedgerInv, SoundTable, Sound, TypedPos, TypedGrns, NonNegativeStages
<1> QED BY <1>1, LedgerInvariant, PTL

-----------------------------------------------------------------------------
(* The sums over a table's rows.  SumOver takes the rows in an order CHOOSE  *)
(* picks; these lemmas show that it is a sum all the same.                   *)

\* Every set of natural numbers that is not empty has a least member.
LEMMA LeastNumber ==
  ASSUME NEW T, T \subseteq Nat, T # {}
  PROVE  \E n \in T : \A m \in T : n <= m
<1> DEFINE R == {ss \in Nat \X Nat : ss[1] < ss[2]}
<1>1. IsWellFoundedOn(R, Nat) BY NatLessThanWellFounded DEF OpToRel
<1> HIDE DEF R
<1>2. PICK n \in T : \A m \in T : ~(<<m, n>> \in R) BY <1>1, WFMin
<1>3. \A m \in T : n <= m
  <2> TAKE m \in T
  <2>1. m \in Nat /\ n \in Nat OBVIOUS
  <2>2. ~(<<m, n>> \in {ss \in Nat \X Nat : ss[1] < ss[2]}) BY <1>2 DEF R
  <2> QED BY <2>1, <2>2
<1> QED BY <1>3

\* A set that holds 0, and n + 1 with n, holds every natural number.
LEMMA Induction ==
  ASSUME NEW T, 0 \in T, \A n \in Nat : n \in T => n + 1 \in T
  PROVE  \A n \in Nat : n \in T
<1> SUFFICES ASSUME Nat \ T # {} PROVE FALSE OBVIOUS
<1>1. PICK n \in Nat \ T : \A m \in Nat \ T : n <= m BY LeastNumber
<1>2. n # 0 BY <1>1
<1>3. n - 1 \in Nat /\ n - 1 \in T BY <1>1, <1>2
<1> QED BY <1>3

\* A collection of subsets of a finite set that holds the empty set, and a
\* set whenever it holds every set one element smaller, holds every subset.
LEMMA SubsetInduction ==
  ASSUME NEW S, IsFiniteSet(S), NEW P, {} \in P,
         \A s \in SUBSET S : s # {} /\ (\A x \in s : s \ {x} \in P) => s \in P
  PROVE  \A s \in SUBSET S : s \in P
<1> DEFINE T == {n \in Nat : \A s \in SUBSET S : Cardinality(s) = n => s \in P}
<1>1. \A s \in SUBSET S : IsFiniteSet(s) /\ Cardinality(s) \in Nat
  BY FS_Subset, FS_CardinalityType
<1>2. 0 \in T BY <1>1, FS_EmptySet
<1>3. ASSUME NEW n \in Nat, n \in T PROVE n + 1 \in T
  <2>1. ASSUME NEW s \in SUBSET S, Cardinality(s) = n + 1 PROVE s \in P
    <3>1. s # {} BY <2>1, FS_EmptySet
    <3>2. ASSUME NEW x \in s PROVE s \ {x} \in P
      <4>1. Cardinality(s \ {x}) = n BY <1>1, <2>1, FS_RemoveElement
      <4>2. s \ {x} \in SUBSET S OBVIOUS
      <4> QED BY <1>3, <4>1, <4>2
    <3> QED BY <3>1, <3>2
  <2> QED BY <2>1
<1> HIDE DEF T
<1>4. \A n \in Nat : n \in T BY <1>2, <1>3, Induction
<1> QED BY <1>1, <1>4 DEF T

\* The row the sum takes next, and one turn of its recursion.
Any(s) == CHOOSE x \in s : TRUE
Turn(it, f, s) == IF s = {} THEN 0 ELSE f[Any(s)] + it[s \ {Any(s)}]

\* The recursion of SumOver: the sum over every set of rows.
IsTotal(it, f, S) == it = [u \in SUBSET S |-> Turn(it, f, u)]
Sums(f, S) == CHOOSE it : IsTotal(it, f, S)

\* SumOver is that recursion, taken over all rows.
LEMMA SumIsSums ==
  ASSUME NEW f PROVE SumOver(f) = Sums(f, DOMAIN f)[DOMAIN f]
  BY DEF SumOver, MapThenSumSet, MapThenFoldSet, Sums, IsTotal, Turn, Any

\* The row taken is one of the set.
LEMMA AnyOf == ASSUME NEW s, s # {} PROVE Any(s) \in s
  BY DEF Any

\* The recursion has a solution, level by level.
LEMMA SumsExist ==
  ASSUME NEW S, IsFiniteSet(S), NEW f
  PROVE  \E it : IsTotal(it, f, S)
<1> DEFINE Small(n) == {s \in SUBSET S : Cardinality(s) <= n}
           T == {n \in Nat : \E it : it = [s \in Small(n) |-> Turn(it, f, s)]}
<1>1. \A s \in SUBSET S : IsFiniteSet(s) /\ Cardinality(s) \in Nat
  BY FS_Subset, FS_CardinalityType
<1>2. 0 \in T
  <2> DEFINE it == [s \in Small(0) |-> 0]
  <2>1. \A s \in Small(0) : s = {} BY <1>1, FS_EmptySet
  <2>2. it = [s \in Small(0) |-> Turn(it, f, s)] BY <2>1 DEF Turn
  <2> QED BY <2>2
<1>3. ASSUME NEW n \in Nat, n \in T PROVE n + 1 \in T
  <2>1. PICK it : it = [s \in Small(n) |-> Turn(it, f, s)] BY <1>3
  <2> DEFINE next == [s \in Small(n + 1) |-> IF s \in Small(n) THEN it[s] ELSE Turn(it, f, s)]
  <2>2. ASSUME NEW s \in Small(n + 1) PROVE next[s] = Turn(next, f, s)
    <3>1. CASE s = {}
      <4>1. s \in Small(n) BY <3>1, FS_EmptySet
      <4> QED BY <2>1, <3>1, <4>1 DEF Turn
    <3>2. CASE s # {}
      <4> DEFINE u == s \ {Any(s)}
      <4>1. Any(s) \in s BY <3>2, AnyOf
      <4>2. u \in SUBSET S /\ Cardinality(u) = Cardinality(s) - 1
        BY <1>1, <4>1, FS_RemoveElement
      <4>3. u \in Small(n) /\ u \in Small(n + 1) BY <1>1, <4>2
      <4>4. next[u] = it[u] BY <4>3
      <4> HIDE DEF u
      <4>5. next[s] = Turn(it, f, s) BY <2>1
      <4>6. Turn(it, f, s) = f[Any(s)] + it[u] /\ Turn(next, f, s) = f[Any(s)] + next[u]
        BY <3>2 DEF Turn, u
      <4> QED BY <4>4, <4>5, <4>6
    <3> QED BY <3>1, <3>2
  <2>3. next = [s \in Small(n + 1) |-> Turn(next, f, s)] BY <2>2
  <2> HIDE DEF next
  <2> QED BY <2>3
<1> HIDE DEF T
<1>4. Cardinality(S) \in T BY <1>2, <1>3, Induction, FS_CardinalityType
<1>5. Small(Cardinality(S)) = SUBSET S BY <1>1, FS_Subset
<1>6. PICK it : it = [s \in Small(Cardinality(S)) |-> Turn(it, f, s)] BY <1>4 DEF T
<1>7. it = [u \in SUBSET S |-> Turn(it, f, u)] BY <1>5, <1>6
<1> QED BY <1>7 DEF IsTotal

\* So every set of rows gets the sum the recursion says.
LEMMA SumsTurn ==
  ASSUME NEW S, IsFiniteSet(S), NEW f, NEW s \in SUBSET S
  PROVE  Sums(f, S)[s] = Turn(Sums(f, S), f, s)
<1>1. IsTotal(Sums(f, S), f, S) BY SumsExist DEF Sums
<1>2. Sums(f, S) = [u \in SUBSET S |-> Turn(Sums(f, S), f, u)] BY <1>1, Zenon DEF IsTotal
<1> QED BY <1>2

\* Every partial sum is an integer.
LEMMA SumsAreInt ==
  ASSUME NEW S, IsFiniteSet(S), NEW f \in [S -> Int], NEW s \in SUBSET S
  PROVE  Sums(f, S)[s] \in Int
<1> DEFINE it == Sums(f, S)
           P == {u \in SUBSET S : it[u] \in Int}
<1>1. \A u \in SUBSET S : it[u] = Turn(it, f, u) BY SumsTurn
<1> HIDE DEF it
<1>2. {} \in P
  <2>1. {} \in SUBSET S OBVIOUS
  <2>2. it[{}] = 0 BY <1>1, <2>1 DEF Turn
  <2> QED BY <2>1, <2>2
<1>3. ASSUME NEW u \in SUBSET S, u # {}, \A x \in u : u \ {x} \in P PROVE u \in P
  <2>1. Any(u) \in u BY <1>3, AnyOf
  <2>2. it[u \ {Any(u)}] \in Int /\ f[Any(u)] \in Int BY <1>3, <2>1
  <2>3. it[u] = f[Any(u)] + it[u \ {Any(u)}] BY <1>1, <1>3 DEF Turn
  <2> QED BY <2>2, <2>3
<1> HIDE DEF P
<1>4. s \in P BY <1>2, <1>3, SubsetInduction
<1> QED BY <1>4 DEF P, it

\* The order does not matter: any row of a set may be taken first.
LEMMA SumsSplit ==
  ASSUME NEW S, IsFiniteSet(S), NEW f \in [S -> Int], NEW s \in SUBSET S, NEW k \in s
  PROVE  Sums(f, S)[s] = f[k] + Sums(f, S)[s \ {k}]
<1> DEFINE it == Sums(f, S)
           P == {u \in SUBSET S : \A x \in u : it[u] = f[x] + it[u \ {x}]}
<1>1. \A u \in SUBSET S : it[u] = Turn(it, f, u) /\ it[u] \in Int BY SumsTurn, SumsAreInt
<1> HIDE DEF it
<1>2. {} \in P OBVIOUS
<1>3. ASSUME NEW u \in SUBSET S, u # {}, \A x \in u : u \ {x} \in P PROVE u \in P
  <2> DEFINE a == Any(u)
  <2>1. a \in u BY <1>3, AnyOf
  <2>2. it[u] = f[a] + it[u \ {a}] BY <1>1, <1>3 DEF Turn
  <2> HIDE DEF a
  <2>3. ASSUME NEW x \in u PROVE it[u] = f[x] + it[u \ {x}]
    <3>1. CASE x = a BY <2>2, <3>1
    <3>2. CASE x # a
      <4> DEFINE w == (u \ {x}) \ {a}
                 ua == u \ {a}
                 ux == u \ {x}
      <4>1. ua \ {x} = w /\ ux \ {a} = w /\ ua \in P /\ ux \in P /\ x \in ua /\ a \in ux
        BY <1>3, <2>1, <3>2
      <4>2. w \in SUBSET S OBVIOUS
      <4> HIDE DEF w, ua, ux
      <4>3. it[ua] = f[x] + it[w] /\ it[ux] = f[a] + it[w] BY <4>1
      <4>4. f[x] \in Int /\ f[a] \in Int /\ it[w] \in Int BY <1>1, <2>1, <4>2
      <4>5. it[u] = f[a] + it[ua] BY <2>2 DEF ua
      <4>6. it[u] = f[x] + it[ux] BY <4>3, <4>4, <4>5
      <4> QED BY <4>6 DEF ux
    <3> QED BY <3>1, <3>2
  <2> QED BY <2>3
<1> HIDE DEF P
<1>4. s \in P BY <1>2, <1>3, SubsetInduction
<1> QED BY <1>4 DEF P, it

\* Two tables that agree on a set of rows have the same sum over it.
LEMMA SumsAgree ==
  ASSUME NEW S, IsFiniteSet(S), NEW f \in [S -> Int], NEW h \in [S -> Int],
         NEW s \in SUBSET S, \A x \in s : f[x] = h[x]
  PROVE  Sums(f, S)[s] = Sums(h, S)[s]
<1> DEFINE ft == Sums(f, S)
           ht == Sums(h, S)
           P == {u \in SUBSET S : (\A x \in u : f[x] = h[x]) => ft[u] = ht[u]}
<1>1. \A u \in SUBSET S : ft[u] = Turn(ft, f, u) /\ ht[u] = Turn(ht, h, u) BY SumsTurn
<1> HIDE DEF ft, ht
<1>2. {} \in P BY <1>1 DEF Turn
<1>3. ASSUME NEW u \in SUBSET S, u # {}, \A x \in u : u \ {x} \in P PROVE u \in P
  <2> DEFINE a == Any(u)
  <2>1. a \in u BY <1>3, AnyOf
  <2>2. ft[u] = f[a] + ft[u \ {a}] /\ ht[u] = h[a] + ht[u \ {a}] BY <1>1, <1>3 DEF Turn
  <2> HIDE DEF a
  <2> QED BY <1>3, <2>1, <2>2
<1> HIDE DEF P
<1>4. s \in P BY <1>2, <1>3, SubsetInduction
<1> QED BY <1>4 DEF P, ft, ht

\* No partial sum of amounts that are not negative is negative, and one of
\* zeros is zero.
LEMMA SumsSign ==
  ASSUME NEW S, IsFiniteSet(S), NEW f \in [S -> Int], NEW s \in SUBSET S
  PROVE  /\ (\A x \in S : f[x] >= 0) => Sums(f, S)[s] >= 0
         /\ (\A x \in S : f[x] = 0) => Sums(f, S)[s] = 0
<1> DEFINE it == Sums(f, S)
           P == {u \in SUBSET S : /\ (\A x \in S : f[x] >= 0) => it[u] >= 0
                                  /\ (\A x \in S : f[x] = 0) => it[u] = 0}
<1>1. \A u \in SUBSET S : it[u] = Turn(it, f, u) /\ it[u] \in Int BY SumsTurn, SumsAreInt
<1> HIDE DEF it
<1>2. {} \in P BY <1>1 DEF Turn
<1>3. ASSUME NEW u \in SUBSET S, u # {}, \A x \in u : u \ {x} \in P PROVE u \in P
  <2> DEFINE a == Any(u)
  <2>1. a \in u BY <1>3, AnyOf
  <2>2. it[u] = f[a] + it[u \ {a}] BY <1>1, <1>3 DEF Turn
  <2>3. it[u \ {a}] \in Int /\ f[a] \in Int BY <1>1, <2>1
  <2> HIDE DEF a
  <2> QED BY <1>3, <2>1, <2>2, <2>3
<1> HIDE DEF P
<1>4. s \in P BY <1>2, <1>3, SubsetInduction
<1> QED BY <1>4 DEF P, it

\* A write to one row moves the sum by what it changes there.
LEMMA SumPoint ==
  ASSUME NEW S, IsFiniteSet(S), NEW f \in [S -> Int], NEW h \in [S -> Int],
         NEW k \in S, \A x \in S : x # k => f[x] = h[x]
  PROVE  SumOver(f) \in Int /\ SumOver(h) = SumOver(f) + h[k] - f[k]
<1>1. SumOver(f) = Sums(f, S)[S] /\ SumOver(h) = Sums(h, S)[S] BY SumIsSums
<1>a. S \in SUBSET S OBVIOUS
<1>2. /\ Sums(f, S)[S] = f[k] + Sums(f, S)[S \ {k}]
      /\ Sums(h, S)[S] = h[k] + Sums(h, S)[S \ {k}]
  <2>1. Sums(f, S)[S] = f[k] + Sums(f, S)[S \ {k}] BY <1>a, SumsSplit
  <2>2. Sums(h, S)[S] = h[k] + Sums(h, S)[S \ {k}] BY <1>a, SumsSplit
  <2> QED BY <2>1, <2>2
<1>3. Sums(f, S)[S \ {k}] = Sums(h, S)[S \ {k}] BY SumsAgree
<1>4. Sums(f, S)[S \ {k}] \in Int /\ f[k] \in Int /\ h[k] \in Int BY SumsAreInt
<1> QED BY <1>1, <1>2, <1>3, <1>4

\* A sum of amounts that are not negative is at least each of them.
LEMMA SumAtLeast ==
  ASSUME NEW S, IsFiniteSet(S), NEW f \in [S -> Int], \A x \in S : f[x] >= 0, NEW k \in S
  PROVE  SumOver(f) \in Int /\ SumOver(f) >= f[k]
<1>1. SumOver(f) = f[k] + Sums(f, S)[S \ {k}] BY SumIsSums, SumsSplit
<1>2. Sums(f, S)[S \ {k}] \in Int /\ Sums(f, S)[S \ {k}] >= 0 BY SumsAreInt, SumsSign
<1>3. f[k] \in Int OBVIOUS
<1> QED BY <1>1, <1>2, <1>3

\* A sum of zeros is zero.
LEMMA SumZero ==
  ASSUME NEW S, IsFiniteSet(S), NEW f \in [S -> Int], \A x \in S : f[x] = 0
  PROVE  SumOver(f) = 0
  BY SumIsSums, SumsSign

-----------------------------------------------------------------------------
(* What each statement does to the columns, and the tables' rows.            *)

\* Table cs has the rows of bs and their allocations.
SameRows(bs, cs) ==
    \A x \in BudgetIds : cs[x].row = bs[x].row /\ cs[x].allocated = bs[x].allocated

\* The move of one column of budget b, if there is such a row.
By(bs, x, b, d) == IF x = b /\ bs[x].row = "live" THEN d ELSE 0

\* Table cs is bs with d more reserved on budget b.
PreMoves(bs, cs, b, d) ==
    \A x \in BudgetIds : cs[x].pre = bs[x].pre + By(bs, x, b, d)

\* Table cs is bs with c more committed and s more spent on budget b.
FirmMoves(bs, cs, b, c, s) ==
    \A x \in BudgetIds : /\ cs[x].committed = bs[x].committed + By(bs, x, b, c)
                         /\ cs[x].spent = bs[x].spent + By(bs, x, b, s)

\* As much as FirmMoves says of a release that GREATEST may cut short: s more
\* spent on budget b, and no other budget's encumbrance moved.
FloorMoves(bs, cs, b, s) ==
    \A x \in BudgetIds : /\ x # b => cs[x].committed = bs[x].committed
                         /\ cs[x].spent = bs[x].spent + By(bs, x, b, s)

\* PreEncumber, Encumber and Recognize of a row.
LEMMA ChargeColumns ==
  ASSUME NEW b \in Budgets, NEW t \in Int
  PROVE  /\ PreEncumber(b, t).row = b.row /\ PreEncumber(b, t).allocated = b.allocated
         /\ PreEncumber(b, t).pre = b.pre + t
         /\ PreEncumber(b, t).committed = b.committed /\ PreEncumber(b, t).spent = b.spent
         /\ Encumber(b, t).row = b.row /\ Encumber(b, t).allocated = b.allocated
         /\ Encumber(b, t).pre = b.pre
         /\ Encumber(b, t).committed = b.committed + t /\ Encumber(b, t).spent = b.spent
  BY DEF Budgets, PreEncumber, Encumber

\* ReleasePre, ReleaseCommitted and AdjustCommitted of a row.
LEMMA ReleaseColumns ==
  ASSUME NEW b \in Budgets, NEW t \in Int
  PROVE  /\ ReleasePre(b, t).row = b.row /\ ReleasePre(b, t).allocated = b.allocated
         /\ ReleasePre(b, t).pre = Floor0(b.pre - t)
         /\ ReleasePre(b, t).committed = b.committed /\ ReleasePre(b, t).spent = b.spent
         /\ ReleaseCommitted(b, t).row = b.row
         /\ ReleaseCommitted(b, t).allocated = b.allocated
         /\ ReleaseCommitted(b, t).pre = b.pre
         /\ ReleaseCommitted(b, t).committed = Floor0(b.committed - t)
         /\ ReleaseCommitted(b, t).spent = b.spent
         /\ AdjustCommitted(b, t).row = b.row
         /\ AdjustCommitted(b, t).allocated = b.allocated
         /\ AdjustCommitted(b, t).pre = b.pre
         /\ AdjustCommitted(b, t).committed = Floor0(b.committed + t)
         /\ AdjustCommitted(b, t).spent = b.spent
  BY DEF Budgets, ReleasePre, ReleaseCommitted, AdjustCommitted

\* Recognize and Unrecognize of a row.
LEMMA ReceiptColumns ==
  ASSUME NEW b \in Budgets, NEW a \in Int
  PROVE  /\ Recognize(b, a).row = b.row /\ Recognize(b, a).allocated = b.allocated
         /\ Recognize(b, a).pre = b.pre
         /\ Recognize(b, a).committed = Floor0(b.committed - a)
         /\ Recognize(b, a).spent = b.spent + a
         /\ Unrecognize(b, a).row = b.row /\ Unrecognize(b, a).allocated = b.allocated
         /\ Unrecognize(b, a).pre = b.pre
         /\ Unrecognize(b, a).committed = b.committed + a
         /\ Unrecognize(b, a).spent = Floor0(b.spent - a)
  BY DEF Budgets, Recognize, Unrecognize

\* Reallocate and Carry of a row.
LEMMA AdminColumns ==
  ASSUME NEW b \in Budgets, NEW a \in Int
  PROVE  /\ Reallocate(b, a).row = b.row /\ Reallocate(b, a).pre = b.pre
         /\ Reallocate(b, a).committed = b.committed /\ Reallocate(b, a).spent = b.spent
         /\ Carry(b).row = b.row /\ Carry(b).allocated = b.allocated /\ Carry(b).pre = b.pre
         /\ Carry(b).committed = b.committed /\ Carry(b).spent = b.spent
         /\ Lapse(b).row = b.row /\ Lapse(b).allocated = b.allocated
         /\ Lapse(b).spent = b.spent
  BY DEF Budgets, Reallocate, Carry, Lapse

\* An amount taken from a column that has it is taken in full.
LEMMA FloorExact ==
  ASSUME NEW x \in Int, x >= 0 PROVE Floor0(x) = x
  BY DEF Floor0

\* An UPDATE of one row, by what it does to that row.
LEMMA Moved ==
  ASSUME NEW bs, SoundTable(bs), NEW b, NEW cs, NEW new,
         \A x \in BudgetIds :
            cs[x] = IF x = b /\ bs[x].row = "live" THEN new ELSE bs[x]
  PROVE  /\ (b \in Live(bs) => new.row = bs[b].row /\ new.allocated = bs[b].allocated)
              => SameRows(bs, cs)
         /\ \A d \in Int : (b \in Live(bs) => new.pre = bs[b].pre + d) => PreMoves(bs, cs, b, d)
         /\ \A c \in Int, s \in Int :
              (b \in Live(bs) => /\ new.committed = bs[b].committed + c
                                 /\ new.spent = bs[b].spent + s)
              => FirmMoves(bs, cs, b, c, s)
         /\ \A s \in Int :
              (b \in Live(bs) => new.spent = bs[b].spent + s) => FloorMoves(bs, cs, b, s)
<1>1. ASSUME NEW x \in BudgetIds, x = b, bs[x].row = "live"
      PROVE  b \in Live(bs) /\ cs[x] = new /\ \A d : By(bs, x, b, d) = d
  BY <1>1 DEF SoundTable, Live, By
<1>2. ASSUME NEW x \in BudgetIds, ~(x = b /\ bs[x].row = "live")
      PROVE  cs[x] = bs[x] /\ \A d : By(bs, x, b, d) = 0
  BY <1>2 DEF By
<1>3. \A x \in BudgetIds : bs[x].pre \in Int /\ bs[x].committed \in Int /\ bs[x].spent \in Int
  BY BudgetColumns DEF SoundTable
<1>4. (b \in Live(bs) => new.row = bs[b].row /\ new.allocated = bs[b].allocated)
        => SameRows(bs, cs)
  BY <1>1, <1>2 DEF SameRows
<1>5. ASSUME NEW d \in Int, b \in Live(bs) => new.pre = bs[b].pre + d
      PROVE  PreMoves(bs, cs, b, d)
  <2>1. ASSUME NEW x \in BudgetIds PROVE cs[x].pre = bs[x].pre + By(bs, x, b, d)
    <3>1. CASE x = b /\ bs[x].row = "live" BY <1>1, <1>5, <3>1
    <3>2. CASE ~(x = b /\ bs[x].row = "live") BY <1>2, <1>3, <3>2
    <3> QED BY <3>1, <3>2
  <2> QED BY <2>1 DEF PreMoves
<1>6. ASSUME NEW c \in Int, NEW s \in Int,
             b \in Live(bs) => /\ new.committed = bs[b].committed + c
                               /\ new.spent = bs[b].spent + s
      PROVE  FirmMoves(bs, cs, b, c, s)
  <2>1. ASSUME NEW x \in BudgetIds
        PROVE  /\ cs[x].committed = bs[x].committed + By(bs, x, b, c)
               /\ cs[x].spent = bs[x].spent + By(bs, x, b, s)
    <3>1. CASE x = b /\ bs[x].row = "live" BY <1>1, <1>6, <3>1
    <3>2. CASE ~(x = b /\ bs[x].row = "live") BY <1>2, <1>3, <3>2
    <3> QED BY <3>1, <3>2
  <2> QED BY <2>1 DEF FirmMoves
<1>7. ASSUME NEW s \in Int, b \in Live(bs) => new.spent = bs[b].spent + s
      PROVE  FloorMoves(bs, cs, b, s)
  <2>1. ASSUME NEW x \in BudgetIds
        PROVE  /\ x # b => cs[x].committed = bs[x].committed
               /\ cs[x].spent = bs[x].spent + By(bs, x, b, s)
    <3>1. CASE x = b /\ bs[x].row = "live" BY <1>1, <1>7, <3>1
    <3>2. CASE ~(x = b /\ bs[x].row = "live") BY <1>2, <1>3, <3>2
    <3> QED BY <3>1, <3>2
  <2> QED BY <2>1 DEF FloorMoves
<1> QED BY <1>4, <1>5, <1>6, <1>7

\* A live row of a sound table has its columns.
LEMMA LiveColumns ==
  ASSUME NEW bs, SoundTable(bs), NEW b \in Live(bs)
  PROVE  /\ b \in BudgetIds /\ bs[b] \in Budgets
         /\ bs[b].pre \in Int /\ bs[b].committed \in Int /\ bs[b].spent \in Int
  BY BudgetColumns DEF SoundTable, Live

\* Reserving t.
LEMMA PreEncumberMoves ==
  ASSUME NEW bs, SoundTable(bs), NEW b, NEW t \in Int, NEW cs,
         cs = OnBudget(bs, b, LAMBDA x : PreEncumber(x, t))
  PROVE  SameRows(bs, cs) /\ PreMoves(bs, cs, b, t) /\ FirmMoves(bs, cs, b, 0, 0)
<1> DEFINE new == PreEncumber(bs[b], t)
<1>1. DOMAIN bs = BudgetIds BY DEF SoundTable
<1>2. \A x \in BudgetIds : cs[x] = IF x = b /\ bs[x].row = "live" THEN new ELSE bs[x]
  BY <1>1 DEF OnBudget
<1>3. ASSUME b \in Live(bs)
      PROVE  /\ new.row = bs[b].row /\ new.allocated = bs[b].allocated
             /\ new.pre = bs[b].pre + t
             /\ new.committed = bs[b].committed + 0 /\ new.spent = bs[b].spent + 0
  BY <1>3, LiveColumns, ChargeColumns
<1>4. 0 \in Int /\ -t \in Int OBVIOUS
<1> HIDE DEF new
<1> QED BY <1>2, <1>3, <1>4, Moved

\* Encumbering t.
LEMMA EncumberMoves ==
  ASSUME NEW bs, SoundTable(bs), NEW b, NEW t \in Int, NEW cs,
         cs = OnBudget(bs, b, LAMBDA x : Encumber(x, t))
  PROVE  SameRows(bs, cs) /\ PreMoves(bs, cs, b, 0) /\ FirmMoves(bs, cs, b, t, 0)
<1> DEFINE new == Encumber(bs[b], t)
<1>1. DOMAIN bs = BudgetIds BY DEF SoundTable
<1>2. \A x \in BudgetIds : cs[x] = IF x = b /\ bs[x].row = "live" THEN new ELSE bs[x]
  BY <1>1 DEF OnBudget
<1>3. ASSUME b \in Live(bs)
      PROVE  /\ new.row = bs[b].row /\ new.allocated = bs[b].allocated
             /\ new.pre = bs[b].pre + 0
             /\ new.committed = bs[b].committed + t /\ new.spent = bs[b].spent + 0
  BY <1>3, LiveColumns, ChargeColumns
<1>4. 0 \in Int /\ -t \in Int OBVIOUS
<1> HIDE DEF new
<1> QED BY <1>2, <1>3, <1>4, Moved

\* Releasing a reservation: in full when the column holds it.
LEMMA ReleasePreMoves ==
  ASSUME NEW bs, SoundTable(bs), NEW b, NEW t \in Int, NEW cs,
         cs = OnBudget(bs, b, LAMBDA x : ReleasePre(x, t))
  PROVE  /\ SameRows(bs, cs) /\ FirmMoves(bs, cs, b, 0, 0)
         /\ (b \in Live(bs) => t <= bs[b].pre) => PreMoves(bs, cs, b, -t)
<1> DEFINE new == ReleasePre(bs[b], t)
<1>1. DOMAIN bs = BudgetIds BY DEF SoundTable
<1>2. \A x \in BudgetIds : cs[x] = IF x = b /\ bs[x].row = "live" THEN new ELSE bs[x]
  BY <1>1 DEF OnBudget
<1>3. ASSUME b \in Live(bs)
      PROVE  /\ new.row = bs[b].row /\ new.allocated = bs[b].allocated
             /\ t <= bs[b].pre => new.pre = bs[b].pre + (-t)
             /\ new.committed = bs[b].committed + 0 /\ new.spent = bs[b].spent + 0
  BY <1>3, LiveColumns, ReleaseColumns, FloorExact
<1>4. 0 \in Int /\ -t \in Int OBVIOUS
<1> HIDE DEF new
<1> QED BY <1>2, <1>3, <1>4, Moved

\* Releasing an encumbrance: in full when the column holds it.
LEMMA ReleaseCommittedMoves ==
  ASSUME NEW bs, SoundTable(bs), NEW b, NEW t \in Int, NEW cs,
         cs = OnBudget(bs, b, LAMBDA x : ReleaseCommitted(x, t))
  PROVE  /\ SameRows(bs, cs) /\ PreMoves(bs, cs, b, 0) /\ FloorMoves(bs, cs, b, 0)
         /\ (b \in Live(bs) => t <= bs[b].committed) => FirmMoves(bs, cs, b, -t, 0)
<1> DEFINE new == ReleaseCommitted(bs[b], t)
<1>1. DOMAIN bs = BudgetIds BY DEF SoundTable
<1>2. \A x \in BudgetIds : cs[x] = IF x = b /\ bs[x].row = "live" THEN new ELSE bs[x]
  BY <1>1 DEF OnBudget
<1>3. ASSUME b \in Live(bs)
      PROVE  /\ new.row = bs[b].row /\ new.allocated = bs[b].allocated
             /\ new.pre = bs[b].pre + 0
             /\ t <= bs[b].committed => new.committed = bs[b].committed + (-t)
             /\ new.spent = bs[b].spent + 0
  BY <1>3, LiveColumns, ReleaseColumns, FloorExact
<1>4. 0 \in Int /\ -t \in Int OBVIOUS
<1> HIDE DEF new
<1> QED BY <1>2, <1>3, <1>4, Moved

\* Adjusting an encumbrance: in full when the column stays at 0 or more.
LEMMA AdjustCommittedMoves ==
  ASSUME NEW bs, SoundTable(bs), NEW b, NEW t \in Int, NEW cs,
         cs = OnBudget(bs, b, LAMBDA x : AdjustCommitted(x, t))
  PROVE  /\ SameRows(bs, cs) /\ PreMoves(bs, cs, b, 0) /\ FloorMoves(bs, cs, b, 0)
         /\ (b \in Live(bs) => bs[b].committed + t >= 0) => FirmMoves(bs, cs, b, t, 0)
<1> DEFINE new == AdjustCommitted(bs[b], t)
<1>1. DOMAIN bs = BudgetIds BY DEF SoundTable
<1>2. \A x \in BudgetIds : cs[x] = IF x = b /\ bs[x].row = "live" THEN new ELSE bs[x]
  BY <1>1 DEF OnBudget
<1>3. ASSUME b \in Live(bs)
      PROVE  /\ new.row = bs[b].row /\ new.allocated = bs[b].allocated
             /\ new.pre = bs[b].pre + 0
             /\ bs[b].committed + t >= 0 => new.committed = bs[b].committed + t
             /\ new.spent = bs[b].spent + 0
  BY <1>3, LiveColumns, ReleaseColumns, FloorExact
<1>4. 0 \in Int /\ -t \in Int OBVIOUS
<1> HIDE DEF new
<1> QED BY <1>2, <1>3, <1>4, Moved

\* Recognising a receipt: in full when the column holds the encumbrance.
LEMMA RecognizeMoves ==
  ASSUME NEW bs, SoundTable(bs), NEW b, NEW t \in Int, NEW cs,
         cs = OnBudget(bs, b, LAMBDA x : Recognize(x, t))
  PROVE  /\ SameRows(bs, cs) /\ PreMoves(bs, cs, b, 0) /\ FloorMoves(bs, cs, b, t)
         /\ (b \in Live(bs) => t <= bs[b].committed) => FirmMoves(bs, cs, b, -t, t)
<1> DEFINE new == Recognize(bs[b], t)
<1>1. DOMAIN bs = BudgetIds BY DEF SoundTable
<1>2. \A x \in BudgetIds : cs[x] = IF x = b /\ bs[x].row = "live" THEN new ELSE bs[x]
  BY <1>1 DEF OnBudget
<1>3. ASSUME b \in Live(bs)
      PROVE  /\ new.row = bs[b].row /\ new.allocated = bs[b].allocated
             /\ new.pre = bs[b].pre + 0
             /\ t <= bs[b].committed => new.committed = bs[b].committed + (-t)
             /\ new.spent = bs[b].spent + t
  BY <1>3, LiveColumns, ReceiptColumns, FloorExact
<1>4. 0 \in Int /\ -t \in Int OBVIOUS
<1> HIDE DEF new
<1> QED BY <1>2, <1>3, <1>4, Moved

\* Reversing a receipt: in full when the column holds the spend.
LEMMA UnrecognizeMoves ==
  ASSUME NEW bs, SoundTable(bs), NEW b, NEW t \in Int, NEW cs,
         cs = OnBudget(bs, b, LAMBDA x : Unrecognize(x, t))
  PROVE  /\ SameRows(bs, cs) /\ PreMoves(bs, cs, b, 0)
         /\ (b \in Live(bs) => t <= bs[b].spent) => FirmMoves(bs, cs, b, t, -t)
<1> DEFINE new == Unrecognize(bs[b], t)
<1>1. DOMAIN bs = BudgetIds BY DEF SoundTable
<1>2. \A x \in BudgetIds : cs[x] = IF x = b /\ bs[x].row = "live" THEN new ELSE bs[x]
  BY <1>1 DEF OnBudget
<1>3. ASSUME b \in Live(bs)
      PROVE  /\ new.row = bs[b].row /\ new.allocated = bs[b].allocated
             /\ new.pre = bs[b].pre + 0
             /\ new.committed = bs[b].committed + t
             /\ t <= bs[b].spent => new.spent = bs[b].spent + (-t)
  BY <1>3, LiveColumns, ReceiptColumns, FloorExact
<1>4. 0 \in Int /\ -t \in Int OBVIOUS
<1> HIDE DEF new
<1> QED BY <1>2, <1>3, <1>4, Moved

\* A new allocation moves no stage.
LEMMA ReallocateMoves ==
  ASSUME NEW bs, SoundTable(bs), NEW b, NEW a \in Int, NEW cs,
         cs = OnBudget(bs, b, LAMBDA x : Reallocate(x, a))
  PROVE  /\ \A x \in BudgetIds : cs[x].row = bs[x].row
         /\ PreMoves(bs, cs, b, 0) /\ FirmMoves(bs, cs, b, 0, 0)
<1> DEFINE new == Reallocate(bs[b], a)
<1>1. DOMAIN bs = BudgetIds BY DEF SoundTable
<1>2. \A x \in BudgetIds : cs[x] = IF x = b /\ bs[x].row = "live" THEN new ELSE bs[x]
  BY <1>1 DEF OnBudget
<1>3. ASSUME b \in Live(bs)
      PROVE  /\ new.row = bs[b].row /\ new.pre = bs[b].pre + 0
             /\ new.committed = bs[b].committed + 0 /\ new.spent = bs[b].spent + 0
  BY <1>3, LiveColumns, AdminColumns
<1>4. 0 \in Int OBVIOUS
<1>5. \A x \in BudgetIds : bs[x].row = "live" => x \in Live(bs) BY <1>1 DEF Live
<1> HIDE DEF new
<1>6. \A x \in BudgetIds : cs[x].row = bs[x].row BY <1>2, <1>3, <1>5
<1> QED BY <1>2, <1>3, <1>4, <1>6, Moved

\* An UPDATE of no row moves nothing.
LEMMA NothingMoves ==
  ASSUME NEW bs, SoundTable(bs), NEW b
  PROVE  SameRows(bs, bs) /\ PreMoves(bs, bs, b, 0) /\ FirmMoves(bs, bs, b, 0, 0)
<1>1. \A x \in BudgetIds : bs[x].pre \in Int /\ bs[x].committed \in Int /\ bs[x].spent \in Int
  BY BudgetColumns DEF SoundTable
<1>2. \A x : By(bs, x, b, 0) = 0 BY DEF By
<1> QED BY <1>1, <1>2 DEF SameRows, PreMoves, FirmMoves

-----------------------------------------------------------------------------
(* What each step does, row by row.                                          *)

\* No row of a table but one differs after the step.
OnlyReq(r) == \A x \in ReqIds : x # r => reqs'[x] = reqs[x]
OnlyPo(p) == \A x \in PoIds : x # p => pos'[x] = pos[x]
OnlyGrn(g) == \A x \in GrnIds : x # g => grns'[x] = grns[x]

\* The step leaves a column of every budget alone.
RowsKept == \A x \in BudgetIds : budgets'[x].row = budgets[x].row
PreKept == \A x \in BudgetIds : budgets'[x].pre = budgets[x].pre
FirmKept == \A x \in BudgetIds : /\ budgets'[x].committed = budgets[x].committed
                                 /\ budgets'[x].spent = budgets[x].spent

\* ... or of every budget that is not adrift after it.
FirmStays == \A x \in BudgetIds :
                 /\ budgets'[x].spent = budgets[x].spent
                 /\ x \notin adrift' => budgets'[x].committed = budgets[x].committed

\* A move by nothing is none.
LEMMA MovesNothing ==
  ASSUME LedgerInv, NEW b
  PROVE  /\ PreMoves(budgets, budgets', b, 0) => PreKept
         /\ FirmMoves(budgets, budgets', b, 0, 0) => FirmKept
         /\ SameRows(budgets, budgets') => RowsKept
<1>1. \A x \in BudgetIds : /\ budgets[x].pre \in Int
                           /\ budgets[x].committed \in Int /\ budgets[x].spent \in Int
  BY BudgetColumns DEF LedgerInv, SoundTable
<1>2. \A x : By(budgets, x, b, 0) = 0 BY DEF By
<1> QED BY <1>1, <1>2 DEF PreMoves, FirmMoves, SameRows, PreKept, FirmKept, RowsKept

\* A step that leaves the budgets alone moves nothing.
LEMMA UnchangedKept ==
  UNCHANGED budgets => RowsKept /\ PreKept /\ FirmKept /\ SameRows(budgets, budgets')
  BY DEF RowsKept, PreKept, FirmKept, SameRows

\* The fields of the rows the approval engines write.
LEMMA DecisionRow ==
  ASSUME NEW q \in Reqs, NEW st, NEW f, NEW d
  PROVE  /\ [q EXCEPT !.status = st].row = q.row
         /\ [q EXCEPT !.status = st].status = st
         /\ [q EXCEPT !.status = st].desk = q.desk
         /\ [q EXCEPT !.status = st].budget = q.budget
         /\ [q EXCEPT !.status = st].total = q.total
         /\ [q EXCEPT !.status = st].committed = q.committed
         /\ [q EXCEPT !.status = st].released = q.released
         /\ [q EXCEPT !.status = st, !.signed = f].row = q.row
         /\ [q EXCEPT !.status = st, !.signed = f].status = st
         /\ [q EXCEPT !.status = st, !.signed = f].desk = q.desk
         /\ [q EXCEPT !.status = st, !.signed = f].budget = q.budget
         /\ [q EXCEPT !.status = st, !.signed = f].total = q.total
         /\ [q EXCEPT !.status = st, !.signed = f].committed = q.committed
         /\ [q EXCEPT !.status = st, !.signed = f].released = q.released
         /\ [q EXCEPT !.desk = d, !.status = st].row = q.row
         /\ [q EXCEPT !.desk = d, !.status = st].status = st
         /\ [q EXCEPT !.desk = d, !.status = st].desk = d
         /\ [q EXCEPT !.desk = d, !.status = st].budget = q.budget
         /\ [q EXCEPT !.desk = d, !.status = st].total = q.total
         /\ [q EXCEPT !.desk = d, !.status = st].committed = q.committed
         /\ [q EXCEPT !.desk = d, !.status = st].released = q.released
  BY DEF Reqs

\* The fields of a row whose reservation flag is written, or whose desk is.
LEMMA FlagRow ==
  ASSUME NEW q \in Reqs, NEW f, NEW d
  PROVE  /\ [q EXCEPT !.committed = f].row = q.row
         /\ [q EXCEPT !.committed = f].status = q.status
         /\ [q EXCEPT !.committed = f].desk = q.desk
         /\ [q EXCEPT !.committed = f].budget = q.budget
         /\ [q EXCEPT !.committed = f].total = q.total
         /\ [q EXCEPT !.committed = f].committed = f
         /\ [q EXCEPT !.committed = f].released = q.released
         /\ [q EXCEPT !.desk = d].row = q.row
         /\ [q EXCEPT !.desk = d].status = q.status
         /\ [q EXCEPT !.desk = d].desk = d
         /\ [q EXCEPT !.desk = d].budget = q.budget
         /\ [q EXCEPT !.desk = d].total = q.total
         /\ [q EXCEPT !.desk = d].committed = q.committed
         /\ [q EXCEPT !.desk = d].released = q.released
  BY DEF Reqs

\* The requisition keeps what the ledger charges it by.
SameCharge(q, row) ==
    /\ q.row = row.row /\ q.budget = row.budget /\ q.total = row.total
    /\ q.released = row.released

\* How a decision changes the reservation of a requisition row q: not at
\* all, reserved in full, or cleared.
ReservationKept(r, row) == reqs'[r].committed = row.committed /\ UNCHANGED budgets
ReservationMade(r, row) ==
    /\ ~row.committed /\ reqs'[r].committed = TRUE
    /\ row.budget # None /\ row.total > 0
    /\ PreMoves(budgets, budgets', row.budget, row.total)
ReservationCleared(r, row) == row.committed /\ ~reqs'[r].committed

\* applyBudgetCommitment.
LEMMA CommitmentMoves ==
  ASSUME LedgerInv, NEW r \in ReqIds, NEW row \in Reqs,
         NEW outcome \in {"approved", "rejected"},
         applyBudgetCommitment(r, row, outcome)
  PROVE  /\ OnlyReq(r) /\ SameCharge(reqs'[r], row)
         /\ reqs'[r].status = row.status /\ reqs'[r].desk = row.desk
         /\ SameRows(budgets, budgets') /\ FirmKept
         /\ \/ ReservationKept(r, row)
            \/ ReservationMade(r, row) /\ outcome = "approved"
            \/ ReservationCleared(r, row) /\ outcome = "rejected"
<1> DEFINE b == row.budget
           t == row.total
           yes == [row EXCEPT !.committed = TRUE]
           no == [row EXCEPT !.committed = FALSE]
<1>0. SoundTable(budgets) /\ r \in DOMAIN reqs BY DEF LedgerInv, TypedReqs
<1>1. t \in Int /\ row.committed \in BOOLEAN BY DEF Reqs
<1>2. /\ SameCharge(yes, row) /\ yes.status = row.status /\ yes.desk = row.desk
      /\ yes.committed = TRUE
      /\ SameCharge(no, row) /\ no.status = row.status /\ no.desk = row.desk
      /\ no.committed = FALSE
      /\ SameCharge(row, row)
  BY FlagRow DEF SameCharge
<1>3. \/ reqs' = [reqs EXCEPT ![r] = row] /\ UNCHANGED budgets
      \/ /\ b # None /\ t > 0 /\ outcome = "approved" /\ reqs' = [reqs EXCEPT ![r] = yes]
         /\ \/ row.committed /\ UNCHANGED budgets
            \/ ~row.committed /\ budgets' = OnBudget(budgets, b, LAMBDA x : PreEncumber(x, t))
      \/ /\ outcome = "rejected" /\ reqs' = [reqs EXCEPT ![r] = no]
         /\ \/ row.committed /\ budgets' = OnBudget(budgets, b, LAMBDA x : ReleasePre(x, t))
            \/ UNCHANGED budgets
  BY Zenon DEF applyBudgetCommitment, Reserves, HoldsReservation, OnBudget
<1>4. \A q : reqs' = [reqs EXCEPT ![r] = q] => OnlyReq(r) /\ reqs'[r] = q
  BY <1>0 DEF LedgerInv, TypedReqs, OnlyReq
<1> HIDE DEF yes, no, b, t
<1>5. CASE reqs' = [reqs EXCEPT ![r] = row] /\ UNCHANGED budgets
  BY <1>2, <1>4, <1>5, UnchangedKept DEF ReservationKept
<1>6. CASE b # None /\ t > 0 /\ outcome = "approved" /\ reqs' = [reqs EXCEPT ![r] = yes]
           /\ row.committed /\ UNCHANGED budgets
  BY <1>1, <1>2, <1>4, <1>6, UnchangedKept DEF ReservationKept
<1>7. CASE b # None /\ t > 0 /\ outcome = "approved" /\ reqs' = [reqs EXCEPT ![r] = yes]
           /\ ~row.committed /\ budgets' = OnBudget(budgets, b, LAMBDA x : PreEncumber(x, t))
  <2>1. /\ SameRows(budgets, budgets') /\ PreMoves(budgets, budgets', b, t)
        /\ FirmMoves(budgets, budgets', b, 0, 0)
    <3>1. \A cs : cs = OnBudget(budgets, b, LAMBDA x : PreEncumber(x, t)) =>
            /\ SameRows(budgets, cs) /\ PreMoves(budgets, cs, b, t)
            /\ FirmMoves(budgets, cs, b, 0, 0)
      BY <1>0, <1>1, PreEncumberMoves, Zenon DEF OnBudget
    <3> QED BY <1>7, <3>1, Zenon DEF OnBudget
  <2> QED BY <1>2, <1>4, <1>7, <2>1, MovesNothing DEF ReservationMade, b, t
<1>8. CASE outcome = "rejected" /\ reqs' = [reqs EXCEPT ![r] = no]
           /\ row.committed /\ budgets' = OnBudget(budgets, b, LAMBDA x : ReleasePre(x, t))
  <2>1. SameRows(budgets, budgets') /\ FirmMoves(budgets, budgets', b, 0, 0)
    <3>1. \A cs : cs = OnBudget(budgets, b, LAMBDA x : ReleasePre(x, t)) =>
            /\ SameRows(budgets, cs) /\ FirmMoves(budgets, cs, b, 0, 0)
            /\ (b \in Live(budgets) => t <= budgets[b].pre) => PreMoves(budgets, cs, b, -t)
      BY <1>0, <1>1, ReleasePreMoves, Zenon DEF OnBudget
    <3> QED BY <1>8, <3>1, Zenon DEF OnBudget
  <2> QED BY <1>2, <1>4, <1>8, <2>1, MovesNothing DEF ReservationCleared
<1>9. CASE outcome = "rejected" /\ reqs' = [reqs EXCEPT ![r] = no] /\ UNCHANGED budgets
  BY <1>1, <1>2, <1>4, <1>9, UnchangedKept DEF ReservationCleared, ReservationKept
<1> QED BY <1>3, <1>5, <1>6, <1>7, <1>8, <1>9, Zenon DEF OnBudget

\* The five actions of the approval engines.
Decides(r, f, d) ==
    \/ TierSign(r) \/ TierApprove(r, f) \/ TierReject(r)
    \/ OpenDeskChain(r) \/ ApplyDeskTransition(r, d)

\* Where a decision takes a requisition's status and desk.
TierMove(r) ==
    /\ reqs[r].desk = "none" \/ May("mixEngines")
    /\ reqs[r].status \notin {"approved", "rejected", "ordered", "closed"}
    /\ reqs'[r].desk = reqs[r].desk
    /\ reqs'[r].committed => reqs[r].committed \/ reqs'[r].status = "approved"
DeskMove(r) ==
    /\ \/ reqs[r].desk \in {"moving", "rejected"}
       \/ reqs[r].desk = "none" /\ (reqs[r].status = "open" \/ May("mixEngines"))
    /\ reqs'[r].desk # "none"
    /\ reqs'[r].committed => reqs[r].committed \/ reqs'[r].desk = "approved"

\* A decision of either engine.
LEMMA DecisionMoves ==
  ASSUME LedgerInv, NEW r \in ReqIds, NEW f \in BOOLEAN,
         NEW d \in {"moving", "approved", "rejected", "cancelled"}, Decides(r, f, d)
  PROVE  /\ UNCHANGED <<pos, grns, tx>> /\ Undisturbed /\ r \in Live(reqs)
         /\ OnlyReq(r) /\ SameCharge(reqs'[r], reqs[r])
         /\ SameRows(budgets, budgets') /\ FirmKept
         /\ TierMove(r) \/ DeskMove(r)
         /\ \/ ReservationKept(r, reqs[r])
            \/ ReservationMade(r, reqs[r])
            \/ ReservationCleared(r, reqs[r])
<1>0. reqs[r] \in Reqs /\ r \in DOMAIN reqs /\ reqs[r].committed \in BOOLEAN
  BY DEF LedgerInv, TypedReqs, Reqs
<1>1. \A q : reqs' = [reqs EXCEPT ![r] = q] => OnlyReq(r) /\ reqs'[r] = q
  BY <1>0 DEF LedgerInv, TypedReqs, OnlyReq
<1>2. UNCHANGED <<pos, grns, tx>> /\ Undisturbed /\ r \in Live(reqs)
  BY DEF Decides, TierSign, TierApprove, TierReject, OpenDeskChain, ApplyDeskTransition, TierActs
<1>3. CASE TierSign(r)
  <2> DEFINE row == [reqs[r] EXCEPT !.status = "open", !.signed = TRUE]
  <2>1. SameCharge(row, reqs[r]) /\ row.desk = reqs[r].desk /\ row.committed = reqs[r].committed
    BY <1>0, DecisionRow DEF SameCharge
  <2>2. reqs' = [reqs EXCEPT ![r] = row] /\ UNCHANGED budgets /\ TierActs(r)
    BY <1>3 DEF TierSign
  <2> HIDE DEF row
  <2>3. OnlyReq(r) /\ reqs'[r] = row BY <1>1, <2>2
  <2> QED BY <1>2, <2>1, <2>2, <2>3, UnchangedKept DEF TierActs, TierMove, ReservationKept
<1>4. CASE TierApprove(r, f)
  <2> DEFINE row == [reqs[r] EXCEPT !.status = "approved", !.signed = f]
  <2>1. /\ SameCharge(row, reqs[r]) /\ row.desk = reqs[r].desk
        /\ row.committed = reqs[r].committed /\ row.status = "approved"
    BY <1>0, DecisionRow DEF SameCharge
  <2>2. applyBudgetCommitment(r, row, "approved") /\ TierActs(r) BY <1>4 DEF TierApprove
  <2>3. row \in Reqs BY <1>0, ReqRows
  <2> HIDE DEF row
  <2>4. /\ OnlyReq(r) /\ SameCharge(reqs'[r], row)
        /\ reqs'[r].status = row.status /\ reqs'[r].desk = row.desk
        /\ SameRows(budgets, budgets') /\ FirmKept
        /\ \/ ReservationKept(r, row) \/ ReservationMade(r, row) \/ ReservationCleared(r, row)
    BY <2>2, <2>3, CommitmentMoves
  <2>5. TierMove(r) BY <2>1, <2>2, <2>4 DEF TierActs, TierMove
  <2> QED BY <1>2, <2>1, <2>4, <2>5
      DEF SameCharge, ReservationKept, ReservationMade, ReservationCleared
<1>5. CASE TierReject(r)
  <2> DEFINE row == [reqs[r] EXCEPT !.status = "rejected"]
  <2>1. /\ SameCharge(row, reqs[r]) /\ row.desk = reqs[r].desk
        /\ row.committed = reqs[r].committed
    BY <1>0, DecisionRow DEF SameCharge
  <2>2. applyBudgetCommitment(r, row, "rejected") /\ TierActs(r) BY <1>5 DEF TierReject
  <2>3. row \in Reqs BY <1>0, SetReqColumn
  <2> HIDE DEF row
  <2>4. /\ OnlyReq(r) /\ SameCharge(reqs'[r], row)
        /\ reqs'[r].status = row.status /\ reqs'[r].desk = row.desk
        /\ SameRows(budgets, budgets') /\ FirmKept
        /\ ReservationKept(r, row) \/ ReservationCleared(r, row)
    BY <2>2, <2>3, CommitmentMoves
  <2>5. TierMove(r)
    BY <2>1, <2>2, <2>4 DEF TierActs, TierMove, ReservationKept, ReservationCleared
  <2> QED BY <1>2, <2>1, <2>4, <2>5 DEF SameCharge, ReservationKept, ReservationCleared
<1>6. CASE OpenDeskChain(r)
  <2> DEFINE row == [reqs[r] EXCEPT !.desk = "moving"]
  <2>1. SameCharge(row, reqs[r]) /\ row.desk = "moving" /\ row.committed = reqs[r].committed
    BY <1>0, FlagRow DEF SameCharge
  <2>2. /\ reqs' = [reqs EXCEPT ![r] = row] /\ UNCHANGED budgets
        /\ reqs[r].desk = "none" /\ (reqs[r].status = "open" \/ May("mixEngines"))
    BY <1>6 DEF OpenDeskChain, MayOpenDesk
  <2> HIDE DEF row
  <2>3. OnlyReq(r) /\ reqs'[r] = row BY <1>1, <2>2
  <2> QED BY <1>2, <2>1, <2>2, <2>3, UnchangedKept DEF DeskMove, ReservationKept
<1>7. CASE ApplyDeskTransition(r, d)
  <2> DEFINE row == [reqs[r] EXCEPT !.desk = d, !.status = requisitionStatusFor(d)]
  <2>1. SameCharge(row, reqs[r]) /\ row.desk = d /\ row.committed = reqs[r].committed
    BY <1>0, DecisionRow DEF SameCharge
  <2>2. \/ d = "approved" /\ applyBudgetCommitment(r, row, "approved")
        \/ applyBudgetCommitment(r, row, "rejected")
        \/ reqs' = [reqs EXCEPT ![r] = row] /\ UNCHANGED budgets
    BY <1>7 DEF ApplyDeskTransition
  <2>3. \/ reqs[r].desk \in {"moving", "rejected"}
        \/ reqs[r].desk = "none" /\ (reqs[r].status = "open" \/ May("mixEngines"))
    BY <1>7 DEF ApplyDeskTransition, DeskMoves, MayOpenDesk
  <2>4. row \in Reqs
    <3>1. requisitionStatusFor(d) \in {"open", "approved", "rejected", "cancelled"}
      BY DEF requisitionStatusFor
    <3> QED BY <1>0, <3>1, ReqRows
  <2> HIDE DEF row
  <2>5. CASE reqs' = [reqs EXCEPT ![r] = row] /\ UNCHANGED budgets
    <3>1. OnlyReq(r) /\ reqs'[r] = row BY <1>1, <2>5
    <3> QED BY <1>2, <2>1, <2>3, <2>5, <3>1, UnchangedKept DEF DeskMove, ReservationKept
  <2>6. CASE d = "approved" /\ applyBudgetCommitment(r, row, "approved")
    <3>1. /\ OnlyReq(r) /\ SameCharge(reqs'[r], row) /\ reqs'[r].desk = row.desk
          /\ SameRows(budgets, budgets') /\ FirmKept
          /\ ReservationKept(r, row) \/ ReservationMade(r, row)
      BY <2>4, <2>6, CommitmentMoves
    <3>2. DeskMove(r) BY <2>1, <2>3, <2>6, <3>1 DEF DeskMove
    <3> QED BY <1>2, <2>1, <3>1, <3>2 DEF SameCharge, ReservationKept, ReservationMade
  <2>7. CASE applyBudgetCommitment(r, row, "rejected")
    <3>1. /\ OnlyReq(r) /\ SameCharge(reqs'[r], row) /\ reqs'[r].desk = row.desk
          /\ SameRows(budgets, budgets') /\ FirmKept
          /\ ReservationKept(r, row) \/ ReservationCleared(r, row)
      BY <2>4, <2>7, CommitmentMoves
    <3>2. DeskMove(r)
      BY <2>1, <2>3, <3>1 DEF DeskMove, ReservationKept, ReservationCleared
    <3> QED BY <1>2, <2>1, <3>1, <3>2 DEF SameCharge, ReservationKept, ReservationCleared
  <2> QED BY <2>2, <2>5, <2>6, <2>7
<1> QED BY <1>3, <1>4, <1>5, <1>6, <1>7 DEF Decides

\* Two UPDATEs one after the other, the first of pre_committed only and the
\* second of the other stages only.
LEMMA TwoUpdates ==
  ASSUME NEW bs, NEW ms, NEW cs, NEW a, NEW b, NEW d, NEW c, NEW s,
         SoundTable(bs), SoundTable(ms),
         SameRows(bs, ms), SameRows(ms, cs), FirmMoves(bs, ms, a, 0, 0), PreMoves(ms, cs, b, 0)
  PROVE  /\ SameRows(bs, cs)
         /\ PreMoves(bs, ms, a, d) => PreMoves(bs, cs, a, d)
         /\ FirmMoves(ms, cs, b, c, s) => FirmMoves(bs, cs, b, c, s)
<1>1. /\ \A x \in BudgetIds : bs[x].pre \in Int /\ bs[x].committed \in Int /\ bs[x].spent \in Int
      /\ \A x \in BudgetIds : ms[x].pre \in Int /\ ms[x].committed \in Int /\ ms[x].spent \in Int
  BY BudgetColumns DEF SoundTable
<1>2. \A x : By(bs, x, a, 0) = 0 /\ By(ms, x, b, 0) = 0 BY DEF By
<1>3. \A x \in BudgetIds : ms[x].committed = bs[x].committed /\ ms[x].spent = bs[x].spent
  BY <1>1, <1>2 DEF FirmMoves
<1>4. \A x \in BudgetIds : cs[x].pre = ms[x].pre BY <1>1, <1>2 DEF PreMoves
<1>5. \A x \in BudgetIds : \A n : By(ms, x, b, n) = By(bs, x, b, n) BY DEF By, SameRows
<1>6. SameRows(bs, cs) BY DEF SameRows
<1>7. PreMoves(bs, ms, a, d) => PreMoves(bs, cs, a, d) BY <1>4 DEF PreMoves
<1>8. FirmMoves(ms, cs, b, c, s) => FirmMoves(bs, cs, b, c, s)
  <2> SUFFICES ASSUME FirmMoves(ms, cs, b, c, s), NEW x \in BudgetIds
               PROVE  /\ cs[x].committed = bs[x].committed + By(bs, x, b, c)
                      /\ cs[x].spent = bs[x].spent + By(bs, x, b, s)
    BY DEF FirmMoves
  <2> QED BY <1>3, <1>5 DEF FirmMoves
<1> QED BY <1>6, <1>7, <1>8

\* Whether an order is encumbered when it is raised, and whether that
\* releases its requisition's reservation.
Encumbers(b, v) == b # None /\ v > 0
Liquidates(b, r, v) ==
    /\ Encumbers(b, v) /\ r # None
    /\ HoldsReservation(reqs[r]) /\ reqs[r].budget # None /\ reqs[r].total > 0

\* What raising an order does to the orders and the requisitions.
RaisedPo(p, b, r, v) ==
    /\ pos[p].row = "free" /\ OnlyPo(p)
    /\ pos'[p].row = "live" /\ pos'[p].budget = b /\ pos'[p].req = r
    /\ pos'[p].total = v /\ pos'[p].recognized = 0
    /\ pos'[p].committed = Encumbers(b, v)
OrderedReq(b, r, v) ==
    /\ OnlyReq(r)
    /\ r \in ReqIds => /\ reqs'[r].row = reqs[r].row /\ reqs'[r].budget = reqs[r].budget
                       /\ reqs'[r].total = reqs[r].total /\ reqs'[r].desk = reqs[r].desk
                       /\ reqs'[r].committed = reqs[r].committed
                       /\ reqs'[r].status = "ordered"
                       /\ reqs'[r].released = (reqs[r].released \/ Liquidates(b, r, v))

\* Raising an order.
LEMMA RaiseMoves ==
  ASSUME LedgerInv, NEW p \in PoIds, NEW b \in BudgetIds \cup {None},
         NEW r \in ReqIds \cup {None}, NEW v \in Int, RaisePO(p, b, r, v)
  PROVE  /\ RaisedPo(p, b, r, v) /\ OrderedReq(b, r, v) /\ UNCHANGED <<grns, tx>>
         /\ SameRows(budgets, budgets')
         /\ FirmMoves(budgets, budgets', b, IF Encumbers(b, v) THEN v ELSE 0, 0)
         /\ ~Liquidates(b, r, v) => PreKept
         /\ /\ Liquidates(b, r, v)
            /\ reqs[r].budget \in Live(budgets) => reqs[r].total <= budgets[reqs[r].budget].pre
            => PreMoves(budgets, budgets', reqs[r].budget, -reqs[r].total)
         /\ Encumbers(b, v) /\ b \in Live(budgets) =>
              budgets[b].committed + v + budgets[b].spent <= budgets[b].allocated
<1> DEFINE a == reqs[r].budget
           t == reqs[r].total
           released == IF Liquidates(b, r, v)
                       THEN OnBudget(budgets, a, LAMBDA x : ReleasePre(x, t))
                       ELSE budgets
<1>0. SoundTable(budgets) /\ p \in DOMAIN pos BY DEF LedgerInv, TypedPos
<1>1. /\ pos[p].row = "free"
      /\ Encumbers(b, v) => WithinCeiling(released[b], v)
      /\ budgets' = IF Encumbers(b, v) THEN OnBudget(released, b, LAMBDA x : Encumber(x, v))
                    ELSE budgets
      /\ reqs' = [x \in ReqIds |->
                    IF x # r THEN reqs[x]
                    ELSE [reqs[x] EXCEPT !.status = "ordered",
                                         !.released = reqs[x].released \/ Liquidates(b, r, v)]]
      /\ pos' = [pos EXCEPT ![p] = [row |-> "live", status |-> poInitialStatus(v),
                                    budget |-> b, req |-> r, total |-> v,
                                    committed |-> Encumbers(b, v), recognized |-> 0]]
      /\ UNCHANGED <<grns, tx>>
  BY Zenon DEF RaisePO, Encumbers, Liquidates
<1>2. RaisedPo(p, b, r, v) BY <1>0, <1>1 DEF RaisedPo, OnlyPo, LedgerInv, TypedPos
<1>3. OrderedReq(b, r, v)
  <2>1. OnlyReq(r) BY <1>1 DEF OnlyReq
  <2>2. ASSUME r \in ReqIds
        PROVE  /\ reqs'[r].row = reqs[r].row /\ reqs'[r].budget = reqs[r].budget
               /\ reqs'[r].total = reqs[r].total /\ reqs'[r].desk = reqs[r].desk
               /\ reqs'[r].committed = reqs[r].committed
               /\ reqs'[r].status = "ordered"
               /\ reqs'[r].released = (reqs[r].released \/ Liquidates(b, r, v))
    <3>1. reqs[r] \in Reqs BY <2>2 DEF LedgerInv, TypedReqs
    <3> DEFINE l == (reqs[r].released \/ Liquidates(b, r, v))
    <3>2. reqs'[r] = [reqs[r] EXCEPT !.status = "ordered", !.released = l]
      BY <1>1, <2>2
    <3> HIDE DEF l
    <3>3. /\ reqs'[r].row = reqs[r].row /\ reqs'[r].budget = reqs[r].budget
          /\ reqs'[r].total = reqs[r].total /\ reqs'[r].desk = reqs[r].desk
          /\ reqs'[r].committed = reqs[r].committed
          /\ reqs'[r].status = "ordered" /\ reqs'[r].released = l
      BY <3>1, <3>2 DEF Reqs
    <3> QED BY <3>3 DEF l
  <2> QED BY <2>1, <2>2 DEF OrderedReq
<1>4. Liquidates(b, r, v) => t \in Int BY DEF Liquidates, LedgerInv, TypedReqs, Reqs
<1>5. SoundTable(released)
  <2>1. CASE Liquidates(b, r, v)
    <3>1. SoundTable(OnBudget(budgets, a, LAMBDA x : ReleasePre(x, t)))
      BY <1>0, <1>4, <2>1, ReleaseTable, Zenon DEF OnBudget
    <3> QED BY <2>1, <3>1, Zenon DEF OnBudget
  <2>2. CASE ~Liquidates(b, r, v) BY <1>0, <2>2, Zenon
  <2> QED BY <2>1, <2>2
<1>6. /\ SameRows(budgets, released) /\ FirmMoves(budgets, released, a, 0, 0)
      /\ ~Liquidates(b, r, v) => PreMoves(budgets, released, a, 0)
      /\ Liquidates(b, r, v) /\ (a \in Live(budgets) => t <= budgets[a].pre)
           => PreMoves(budgets, released, a, -t)
  <2>1. CASE Liquidates(b, r, v)
    <3>1. \A cs : cs = OnBudget(budgets, a, LAMBDA x : ReleasePre(x, t)) =>
            /\ SameRows(budgets, cs) /\ FirmMoves(budgets, cs, a, 0, 0)
            /\ (a \in Live(budgets) => t <= budgets[a].pre) => PreMoves(budgets, cs, a, -t)
      BY <1>0, <1>4, <2>1, ReleasePreMoves, Zenon DEF OnBudget
    <3>2. released = OnBudget(budgets, a, LAMBDA x : ReleasePre(x, t))
      BY <2>1, Zenon DEF OnBudget
    <3> HIDE DEF released
    <3> QED BY <2>1, <3>1, <3>2, Zenon DEF OnBudget
  <2>2. CASE ~Liquidates(b, r, v)
    <3>1. released = budgets BY <2>2, Zenon
    <3> HIDE DEF released
    <3> QED BY <1>0, <2>2, <3>1, NothingMoves
  <2> QED BY <2>1, <2>2
<1> HIDE DEF released, a, t
<1>7. CASE Encumbers(b, v)
  <2>1. \A cs : cs = OnBudget(released, b, LAMBDA x : Encumber(x, v)) =>
          SameRows(released, cs) /\ PreMoves(released, cs, b, 0) /\ FirmMoves(released, cs, b, v, 0)
    BY <1>5, EncumberMoves, Zenon DEF OnBudget
  <2>2. budgets' = OnBudget(released, b, LAMBDA x : Encumber(x, v))
    BY <1>1, <1>7, Zenon DEF OnBudget
  <2>3. /\ SameRows(released, budgets') /\ PreMoves(released, budgets', b, 0)
        /\ FirmMoves(released, budgets', b, v, 0)
    BY <2>1, <2>2, Zenon DEF OnBudget
  <2>4. /\ SameRows(budgets, budgets')
        /\ \A d : PreMoves(budgets, released, a, d) => PreMoves(budgets, budgets', a, d)
        /\ FirmMoves(budgets, budgets', b, v, 0)
    BY <1>0, <1>5, <1>6, <2>3, TwoUpdates
  <2>5. ASSUME b \in Live(budgets)
        PROVE  budgets[b].committed + v + budgets[b].spent <= budgets[b].allocated
    <3>1. /\ b \in BudgetIds /\ budgets[b].committed \in Int /\ budgets[b].spent \in Int
      BY <1>0, <2>5, LiveColumns
    <3>2. By(budgets, b, a, 0) = 0 BY DEF By
    <3>3. /\ released[b].committed = budgets[b].committed
          /\ released[b].spent = budgets[b].spent
          /\ released[b].allocated = budgets[b].allocated
      BY <1>6, <3>1, <3>2 DEF FirmMoves, SameRows
    <3> QED BY <1>1, <1>7, <3>3 DEF WithinCeiling
  <2>6. PreMoves(budgets, budgets', a, 0) => PreKept BY MovesNothing
  <2>7. /\ ~Liquidates(b, r, v) => PreKept
        /\ Liquidates(b, r, v) /\ (a \in Live(budgets) => t <= budgets[a].pre)
             => PreMoves(budgets, budgets', a, -t)
    BY <1>6, <2>4, <2>6
  <2>8. FirmMoves(budgets, budgets', b, IF Encumbers(b, v) THEN v ELSE 0, 0)
    BY <1>7, <2>4, Zenon
  <2> QED BY <1>1, <1>2, <1>3, <2>4, <2>5, <2>7, <2>8 DEF a, t
<1>8. CASE ~Encumbers(b, v)
  <2>1. UNCHANGED budgets /\ ~Liquidates(b, r, v) BY <1>1, <1>8 DEF Liquidates
  <2>2. SameRows(budgets, budgets') /\ PreKept BY <2>1, UnchangedKept
  <2>3. FirmMoves(budgets, budgets', b, 0, 0) BY <1>0, <2>1, NothingMoves
  <2>4. FirmMoves(budgets, budgets', b, IF Encumbers(b, v) THEN v ELSE 0, 0)
    BY <1>8, <2>3, Zenon
  <2> QED BY <1>1, <1>2, <1>3, <1>8, <2>1, <2>2, <2>4
<1> QED BY <1>7, <1>8

\* The fields of an order after its PATCH.
LEMMA PatchedRow ==
  ASSUME NEW q \in Pos, NEW st, NEW v, NEW b, NEW r
  PROVE  LET row == [q EXCEPT !.status = st, !.total = v, !.budget = b, !.req = r]
         IN  /\ row.row = q.row /\ row.status = st /\ row.total = v /\ row.budget = b
             /\ row.req = r /\ row.recognized = q.recognized /\ row.committed = q.committed
             /\ [row EXCEPT !.committed = FALSE].row = q.row
             /\ [row EXCEPT !.committed = FALSE].status = st
             /\ [row EXCEPT !.committed = FALSE].total = v
             /\ [row EXCEPT !.committed = FALSE].budget = b
             /\ [row EXCEPT !.committed = FALSE].req = r
             /\ [row EXCEPT !.committed = FALSE].recognized = q.recognized
             /\ [row EXCEPT !.committed = FALSE].committed = FALSE
  BY DEF Pos

\* What an order's PATCH does to its row, and to its budget's encumbrance:
\* released, revalued or left alone.
PatchedTo(p, st, v, b, r) ==
    /\ OnlyPo(p) /\ pos'[p].row = "live" /\ pos'[p].status = st /\ pos'[p].total = v
    /\ pos'[p].budget = b /\ pos'[p].req = r /\ pos'[p].recognized = pos[p].recognized
Releases(p, open) ==
    /\ open <= 0 => FirmKept
    /\ open > 0 => FloorMoves(budgets, budgets', pos[p].budget, 0)
    /\ open > 0 /\ (pos[p].budget \in Live(budgets) => open <= budgets[pos[p].budget].committed)
         => FirmMoves(budgets, budgets', pos[p].budget, -open, 0)
Voids(p, st) ==
    /\ pos[p].committed /\ pos[p].budget # None /\ st = "void"
    /\ pos'[p].committed = FALSE
    /\ Releases(p, OpenAmount(pos[p]))
Revalues(p, st, v) ==
    /\ pos[p].committed /\ pos[p].budget # None /\ st # "void"
    /\ pos'[p].committed = pos[p].committed
    /\ v >= pos[p].recognized
    /\ v > pos[p].total => WithinCeiling(budgets[pos[p].budget], v - pos[p].total)
    /\ FloorMoves(budgets, budgets', pos[p].budget, 0)
    /\ (pos[p].budget \in Live(budgets) =>
          budgets[pos[p].budget].committed + (v - pos[p].total) >= 0)
       => FirmMoves(budgets, budgets', pos[p].budget, v - pos[p].total, 0)
KeepsEncumbrance(p, st, v) ==
    /\ pos[p].committed /\ pos[p].budget # None => st # "void" /\ v = pos[p].total
    /\ pos'[p].committed = pos[p].committed /\ FirmKept

\* The orders' PATCH.
LEMMA PatchPoMoves ==
  ASSUME LedgerInv, NEW p \in PoIds, NEW st \in {"pending", "cleared", "void"},
         NEW v \in Int, NEW b \in BudgetIds \cup {None}, NEW r \in ReqIds \cup {None},
         UpdatePurchaseOrder(p, st, v, b, r)
  PROVE  /\ p \in Live(pos) /\ PatchedTo(p, st, v, b, r) /\ UNCHANGED <<reqs, grns, tx>>
         /\ b = pos[p].budget \/ b \in Live(budgets)
         /\ r = pos[p].req \/ r \in Live(reqs) \cup {None}
         /\ May("relinkOrder") \/ (b = pos[p].budget /\ r = pos[p].req)
         /\ SameRows(budgets, budgets') /\ PreKept
         /\ Voids(p, st) \/ Revalues(p, st, v) \/ KeepsEncumbrance(p, st, v)
<1> DEFINE row == [pos[p] EXCEPT !.status = st, !.total = v, !.budget = b, !.req = r]
           void == [row EXCEPT !.committed = FALSE]
           bid == pos[p].budget
           open == OpenAmount(pos[p])
           delta == v - pos[p].total
<1>0. SoundTable(budgets) /\ pos[p] \in Pos /\ p \in DOMAIN pos
  BY DEF LedgerInv, TypedPos
<1>1. open \in Int /\ delta \in Int /\ pos[p].total \in Int BY <1>0 DEF OpenAmount, Pos
<1>2. /\ row.row = pos[p].row /\ row.status = st /\ row.total = v /\ row.budget = b
      /\ row.req = r /\ row.recognized = pos[p].recognized /\ row.committed = pos[p].committed
      /\ void.row = pos[p].row /\ void.status = st /\ void.total = v /\ void.budget = b
      /\ void.req = r /\ void.recognized = pos[p].recognized /\ void.committed = FALSE
  BY <1>0, PatchedRow
<1>3. /\ p \in Live(pos) /\ UNCHANGED <<reqs, grns, tx>>
      /\ b = pos[p].budget \/ b \in Live(budgets)
      /\ r = pos[p].req \/ r \in Live(reqs) \cup {None}
      /\ May("relinkOrder") \/ (b = pos[p].budget /\ r = pos[p].req)
  BY DEF UpdatePurchaseOrder
<1>4. \A q : pos' = [pos EXCEPT ![p] = q] => OnlyPo(p) /\ pos'[p] = q
  BY <1>0 DEF LedgerInv, TypedPos, OnlyPo
<1>5. pos[p].row = "live" BY <1>3 DEF Live
<1>6. \/ /\ pos[p].committed /\ bid # None /\ st = "void"
         /\ \/ open > 0 /\ budgets' = OnBudget(budgets, bid, LAMBDA x : ReleaseCommitted(x, open))
            \/ ~(open > 0) /\ UNCHANGED budgets
         /\ pos' = [pos EXCEPT ![p] = void]
      \/ /\ pos[p].committed /\ bid # None /\ st # "void" /\ v # pos[p].total
         /\ v >= pos[p].recognized
         /\ delta > 0 => WithinCeiling(budgets[bid], delta)
         /\ budgets' = OnBudget(budgets, bid, LAMBDA x : AdjustCommitted(x, delta))
         /\ pos' = [pos EXCEPT ![p] = row]
      \/ /\ ~(pos[p].committed /\ bid # None) \/ (st # "void" /\ v = pos[p].total)
         /\ pos' = [pos EXCEPT ![p] = row]
         /\ UNCHANGED budgets
  BY Zenon DEF UpdatePurchaseOrder, OnBudget
<1> HIDE DEF row, void
<1>7. \A q \in {row, void} : pos' = [pos EXCEPT ![p] = q] => PatchedTo(p, st, v, b, r)
  BY <1>2, <1>4, <1>5 DEF PatchedTo
<1>8. CASE /\ pos[p].committed /\ bid # None /\ st = "void"
           /\ open > 0 /\ budgets' = OnBudget(budgets, bid, LAMBDA x : ReleaseCommitted(x, open))
           /\ pos' = [pos EXCEPT ![p] = void]
  <2>1. \A cs : cs = OnBudget(budgets, bid, LAMBDA x : ReleaseCommitted(x, open)) =>
          /\ SameRows(budgets, cs) /\ PreMoves(budgets, cs, bid, 0) /\ FloorMoves(budgets, cs, bid, 0)
          /\ (bid \in Live(budgets) => open <= budgets[bid].committed)
               => FirmMoves(budgets, cs, bid, -open, 0)
    BY <1>0, <1>1, ReleaseCommittedMoves, Zenon DEF OnBudget
  <2>2. /\ SameRows(budgets, budgets') /\ PreMoves(budgets, budgets', bid, 0)
        /\ FloorMoves(budgets, budgets', bid, 0)
        /\ (bid \in Live(budgets) => open <= budgets[bid].committed)
             => FirmMoves(budgets, budgets', bid, -open, 0)
    BY <1>8, <2>1, Zenon DEF OnBudget
  <2>3. pos'[p].committed = FALSE BY <1>2, <1>4, <1>8
  <2>4. Releases(p, open) BY <1>1, <1>8, <2>2 DEF Releases
  <2>5. Voids(p, st) BY <1>8, <2>3, <2>4 DEF Voids
  <2>6. PreKept BY <2>2, MovesNothing
  <2> QED BY <1>3, <1>7, <1>8, <2>2, <2>5, <2>6
<1>9. CASE /\ pos[p].committed /\ bid # None /\ st = "void"
           /\ ~(open > 0) /\ UNCHANGED budgets
           /\ pos' = [pos EXCEPT ![p] = void]
  <2>1. pos'[p].committed = FALSE BY <1>2, <1>4, <1>9
  <2>2. SameRows(budgets, budgets') /\ PreKept /\ FirmKept BY <1>9, UnchangedKept
  <2>3. Releases(p, open) BY <1>1, <1>9, <2>2 DEF Releases
  <2>4. Voids(p, st) BY <1>9, <2>1, <2>3 DEF Voids
  <2> QED BY <1>3, <1>7, <1>9, <2>2, <2>4
<1>10. CASE /\ pos[p].committed /\ bid # None /\ st # "void" /\ v # pos[p].total
            /\ v >= pos[p].recognized
            /\ delta > 0 => WithinCeiling(budgets[bid], delta)
            /\ budgets' = OnBudget(budgets, bid, LAMBDA x : AdjustCommitted(x, delta))
            /\ pos' = [pos EXCEPT ![p] = row]
  <2>1. \A cs : cs = OnBudget(budgets, bid, LAMBDA x : AdjustCommitted(x, delta)) =>
          /\ SameRows(budgets, cs) /\ PreMoves(budgets, cs, bid, 0) /\ FloorMoves(budgets, cs, bid, 0)
          /\ (bid \in Live(budgets) => budgets[bid].committed + delta >= 0)
               => FirmMoves(budgets, cs, bid, delta, 0)
    BY <1>0, <1>1, AdjustCommittedMoves, Zenon DEF OnBudget
  <2>2. /\ SameRows(budgets, budgets') /\ PreMoves(budgets, budgets', bid, 0)
        /\ FloorMoves(budgets, budgets', bid, 0)
        /\ (bid \in Live(budgets) => budgets[bid].committed + delta >= 0)
             => FirmMoves(budgets, budgets', bid, delta, 0)
    BY <1>10, <2>1, Zenon DEF OnBudget
  <2>3. pos'[p].committed = pos[p].committed BY <1>2, <1>4, <1>10
  <2>4. v > pos[p].total => delta > 0 BY <1>1
  <2>5. Revalues(p, st, v) BY <1>10, <2>2, <2>3, <2>4 DEF Revalues
  <2>6. PreKept BY <2>2, MovesNothing
  <2> QED BY <1>3, <1>7, <1>10, <2>2, <2>5, <2>6
<1>11. CASE /\ ~(pos[p].committed /\ bid # None) \/ (st # "void" /\ v = pos[p].total)
            /\ pos' = [pos EXCEPT ![p] = row]
            /\ UNCHANGED budgets
  <2>1. pos'[p].committed = pos[p].committed BY <1>2, <1>4, <1>11
  <2>2. SameRows(budgets, budgets') /\ PreKept /\ FirmKept BY <1>11, UnchangedKept
  <2>3. KeepsEncumbrance(p, st, v) BY <1>11, <2>1, <2>2 DEF KeepsEncumbrance
  <2> QED BY <1>3, <1>7, <1>11, <2>2, <2>3
<1> QED BY <1>6, <1>8, <1>9, <1>10, <1>11, Zenon DEF OnBudget

\* The orders' DELETE.
LEMMA DeletePoMoves ==
  ASSUME LedgerInv, NEW p \in PoIds, DeletePurchaseOrder(p)
  PROVE  /\ p \in Live(pos) /\ OnlyPo(p) /\ pos'[p].row = "gone" /\ UNCHANGED <<reqs, grns, tx>>
         /\ May("deleteReceived") \/ pos[p].recognized = 0
         /\ SameRows(budgets, budgets') /\ PreKept
         /\ \/ ~(pos[p].committed /\ pos[p].budget # None) /\ FirmKept
            \/ pos[p].committed /\ pos[p].budget # None /\ Releases(p, OpenAmount(pos[p]))
<1> DEFINE bid == pos[p].budget
           open == OpenAmount(pos[p])
           gone == [NoPo EXCEPT !.row = "gone"]
<1>0. SoundTable(budgets) /\ pos[p] \in Pos /\ p \in DOMAIN pos BY DEF LedgerInv, TypedPos
<1>1. open \in Int BY <1>0 DEF OpenAmount, Pos
<1>2. /\ p \in Live(pos) /\ UNCHANGED <<reqs, grns, tx>> /\ pos' = [pos EXCEPT ![p] = gone]
      /\ May("deleteReceived") \/ pos[p].recognized = 0
  BY DEF DeletePurchaseOrder
<1>3. gone.row = "gone" BY DEF NoPo
<1> HIDE DEF gone
<1>4. OnlyPo(p) /\ pos'[p].row = "gone" BY <1>0, <1>2, <1>3 DEF OnlyPo, LedgerInv, TypedPos
<1>5. \/ /\ pos[p].committed /\ bid # None /\ open > 0
         /\ budgets' = OnBudget(budgets, bid, LAMBDA x : ReleaseCommitted(x, open))
      \/ ~(pos[p].committed /\ bid # None /\ open > 0) /\ UNCHANGED budgets
  BY Zenon DEF DeletePurchaseOrder, OnBudget
<1>6. CASE /\ pos[p].committed /\ bid # None /\ open > 0
           /\ budgets' = OnBudget(budgets, bid, LAMBDA x : ReleaseCommitted(x, open))
  <2>1. \A cs : cs = OnBudget(budgets, bid, LAMBDA x : ReleaseCommitted(x, open)) =>
          /\ SameRows(budgets, cs) /\ PreMoves(budgets, cs, bid, 0) /\ FloorMoves(budgets, cs, bid, 0)
          /\ (bid \in Live(budgets) => open <= budgets[bid].committed)
               => FirmMoves(budgets, cs, bid, -open, 0)
    BY <1>0, <1>1, ReleaseCommittedMoves, Zenon DEF OnBudget
  <2>2. /\ SameRows(budgets, budgets') /\ PreMoves(budgets, budgets', bid, 0)
        /\ FloorMoves(budgets, budgets', bid, 0)
        /\ (bid \in Live(budgets) => open <= budgets[bid].committed)
             => FirmMoves(budgets, budgets', bid, -open, 0)
    BY <1>6, <2>1, Zenon DEF OnBudget
  <2>3. Releases(p, open) BY <1>1, <1>6, <2>2 DEF Releases
  <2>4. PreKept BY <2>2, MovesNothing
  <2> QED BY <1>2, <1>4, <1>6, <2>2, <2>3, <2>4
<1>7. CASE ~(pos[p].committed /\ bid # None /\ open > 0) /\ UNCHANGED budgets
  <2>1. SameRows(budgets, budgets') /\ PreKept /\ FirmKept BY <1>7, UnchangedKept
  <2>2. pos[p].committed /\ bid # None => Releases(p, open) BY <1>1, <1>7, <2>1 DEF Releases
  <2> QED BY <1>2, <1>4, <2>1, <2>2
<1> QED BY <1>5, <1>6, <1>7, Zenon DEF OnBudget

\* What a receipt's transaction does to the order and its budget: spend
\* booked, spend reversed, or neither.
Books(po, a) ==
    /\ po \in Live(pos) /\ OnlyPo(po) /\ Drifts(po)
    /\ a > 0 /\ a <= OpenAmount(pos[po])
    /\ pos'[po] = [pos[po] EXCEPT !.recognized = pos[po].recognized + a]
    /\ FloorMoves(budgets, budgets', pos[po].budget, a)
    /\ (pos[po].budget \in Live(budgets) => a <= budgets[pos[po].budget].committed)
         => FirmMoves(budgets, budgets', pos[po].budget, -a, a)
Unbooks(po, a) ==
    /\ po \in Live(pos) /\ OnlyPo(po) /\ Drifts(po)
    /\ a > 0
    /\ pos'[po] = [pos[po] EXCEPT !.recognized = Floor0(pos[po].recognized - a)]
    /\ (pos[po].budget \in Live(budgets) => a <= budgets[pos[po].budget].spent)
         => FirmMoves(budgets, budgets', pos[po].budget, a, -a)

\* The receipt as recognizePOSpendOnReceipt leaves it.
Settled(g, row) == OnlyGrn(g) /\ grns'[g].row = row.row /\ grns'[g].po = row.po

\* Its mark and amount when no spend moves.
MarkOnly(g, row, po) ==
    /\ UNCHANGED <<budgets, pos>>
    /\ \/ grns'[g].amount = row.amount /\ grns'[g].recognized = row.recognized
       \/ /\ grns'[g].amount = 0
          /\ ~row.recognized \/ po \notin Live(pos) \/ row.amount <= 0

\* The fields of a receipt row whose mark is written.
LEMMA MarkedRow ==
  ASSUME NEW q \in Grns, NEW f \in BOOLEAN, NEW a \in Int
  PROVE  /\ [q EXCEPT !.recognized = f, !.amount = a].row = q.row
         /\ [q EXCEPT !.recognized = f, !.amount = a].po = q.po
         /\ [q EXCEPT !.recognized = f, !.amount = a].recognized = f
         /\ [q EXCEPT !.recognized = f, !.amount = a].amount = a
  BY DEF Grns

\* Booking a on an order's budget, and reversing it.
LEMMA BookMoves ==
  ASSUME LedgerInv, NEW po \in Live(pos), NEW a \in Int, a > 0, Drifts(po)
  PROVE  /\ /\ a <= OpenAmount(pos[po])
            /\ budgets' = OnBudget(budgets, pos[po].budget, LAMBDA x : Recognize(x, a))
            /\ pos' = [pos EXCEPT ![po] =
                         [pos[po] EXCEPT !.recognized = pos[po].recognized + a]]
            => Books(po, a) /\ SameRows(budgets, budgets') /\ PreKept
         /\ /\ budgets' = OnBudget(budgets, pos[po].budget, LAMBDA x : Unrecognize(x, a))
            /\ pos' = Unreceived(po, a)
            => Unbooks(po, a) /\ SameRows(budgets, budgets') /\ PreKept
<1> DEFINE bid == pos[po].budget
<1>0. SoundTable(budgets) /\ pos \in [PoIds -> Pos] /\ po \in PoIds
  BY DEF LedgerInv, TypedPos, Live
<1>1. \A q : pos' = [pos EXCEPT ![po] = q] => OnlyPo(po) /\ pos'[po] = q
  BY <1>0 DEF OnlyPo
<1>2. ASSUME a <= OpenAmount(pos[po]),
             budgets' = OnBudget(budgets, bid, LAMBDA x : Recognize(x, a)),
             pos' = [pos EXCEPT ![po] =
                       [pos[po] EXCEPT !.recognized = pos[po].recognized + a]]
      PROVE  Books(po, a) /\ SameRows(budgets, budgets') /\ PreKept
  <2>1. \A cs : cs = OnBudget(budgets, bid, LAMBDA x : Recognize(x, a)) =>
          /\ SameRows(budgets, cs) /\ PreMoves(budgets, cs, bid, 0) /\ FloorMoves(budgets, cs, bid, a)
          /\ (bid \in Live(budgets) => a <= budgets[bid].committed)
               => FirmMoves(budgets, cs, bid, -a, a)
    BY <1>0, RecognizeMoves, Zenon DEF OnBudget
  <2>2. /\ SameRows(budgets, budgets') /\ PreMoves(budgets, budgets', bid, 0)
        /\ FloorMoves(budgets, budgets', bid, a)
        /\ (bid \in Live(budgets) => a <= budgets[bid].committed)
             => FirmMoves(budgets, budgets', bid, -a, a)
    BY <1>2, <2>1, Zenon DEF OnBudget
  <2>3. OnlyPo(po) /\ pos'[po] = [pos[po] EXCEPT !.recognized = pos[po].recognized + a]
    BY <1>1, <1>2, Zenon
  <2>4. Books(po, a) BY <1>2, <2>2, <2>3, Zenon DEF Books
  <2> QED BY <2>2, <2>4, MovesNothing
<1>3. ASSUME budgets' = OnBudget(budgets, bid, LAMBDA x : Unrecognize(x, a)),
             pos' = Unreceived(po, a)
      PROVE  Unbooks(po, a) /\ SameRows(budgets, budgets') /\ PreKept
  <2>1. \A cs : cs = OnBudget(budgets, bid, LAMBDA x : Unrecognize(x, a)) =>
          /\ SameRows(budgets, cs) /\ PreMoves(budgets, cs, bid, 0)
          /\ (bid \in Live(budgets) => a <= budgets[bid].spent)
               => FirmMoves(budgets, cs, bid, a, -a)
    BY <1>0, UnrecognizeMoves, Zenon DEF OnBudget
  <2>2. /\ SameRows(budgets, budgets') /\ PreMoves(budgets, budgets', bid, 0)
        /\ (bid \in Live(budgets) => a <= budgets[bid].spent)
             => FirmMoves(budgets, budgets', bid, a, -a)
    BY <1>3, <2>1, Zenon DEF OnBudget
  <2>3. OnlyPo(po) /\ pos'[po] = [pos[po] EXCEPT !.recognized = Floor0(pos[po].recognized - a)]
    BY <1>1, <1>3, Zenon DEF Unreceived
  <2>4. Unbooks(po, a) BY <2>2, <2>3, Zenon DEF Unbooks
  <2> QED BY <2>2, <2>4, MovesNothing
<1> QED BY <1>2, <1>3, Zenon DEF OnBudget

\* recognizePOSpendOnReceipt.
LEMMA RecognitionMoves ==
  ASSUME LedgerInv, NEW g \in GrnIds, NEW row \in Grns, row.amount >= 0,
         NEW po \in PoIds \cup {None}, NEW posted \in BOOLEAN,
         recognizePOSpendOnReceipt(g, row, po, posted)
  PROVE  /\ Settled(g, row) /\ SameRows(budgets, budgets') /\ PreKept
         /\ \/ MarkOnly(g, row, po)
            \/ /\ ~row.recognized /\ Books(po, grns'[g].amount)
               /\ grns'[g].recognized = TRUE
            \/ /\ row.recognized /\ Unbooks(po, row.amount)
               /\ grns'[g].amount = 0 /\ grns'[g].recognized = FALSE
<1> DEFINE open == OpenAmount(pos[po])
           value == IF row.value > 0 THEN row.value ELSE open
           amt == IF value > open THEN open ELSE value
           bid == pos[po].budget
           marked(f, a) == [row EXCEPT !.recognized = f, !.amount = a]
<1>0. pos \in [PoIds -> Pos] /\ g \in DOMAIN grns BY DEF LedgerInv, TypedPos, TypedGrns
<1>1. row.value \in Nat /\ row.amount \in Int /\ row.recognized \in BOOLEAN BY DEF Grns
<1>2. \A q : grns' = [grns EXCEPT ![g] = q] => OnlyGrn(g) /\ grns'[g] = q
  BY <1>0 DEF LedgerInv, TypedGrns, OnlyGrn
<1>3. \A f \in BOOLEAN, a \in Int :
        /\ marked(f, a).row = row.row /\ marked(f, a).po = row.po
        /\ marked(f, a).recognized = f /\ marked(f, a).amount = a
  BY MarkedRow
<1>a. /\ marked(TRUE, 0).row = row.row /\ marked(TRUE, 0).po = row.po
      /\ marked(TRUE, 0).recognized = TRUE /\ marked(TRUE, 0).amount = 0
      /\ marked(FALSE, 0).row = row.row /\ marked(FALSE, 0).po = row.po
      /\ marked(FALSE, 0).recognized = FALSE /\ marked(FALSE, 0).amount = 0
  <2>1. 0 \in Int /\ TRUE \in BOOLEAN /\ FALSE \in BOOLEAN OBVIOUS
  <2> HIDE DEF marked
  <2> QED BY <1>3, <2>1, Zenon
<1>b. \A a \in Int : /\ marked(TRUE, a).row = row.row /\ marked(TRUE, a).po = row.po
                      /\ marked(TRUE, a).recognized = TRUE /\ marked(TRUE, a).amount = a
  <2>1. TRUE \in BOOLEAN OBVIOUS
  <2> HIDE DEF marked
  <2> QED BY <1>3, <2>1, Zenon
<1>4. po \in Live(pos) => open \in Int
  BY <1>0 DEF OpenAmount, Pos, Live
<1>5. po \in Live(pos) /\ open > 0 => amt \in Int /\ amt > 0 /\ amt <= open
  BY <1>1, <1>4
<1>6. \/ /\ posted /\ ~row.recognized /\ po \notin Live(pos)
         /\ grns' = [grns EXCEPT ![g] = row] /\ UNCHANGED <<budgets, pos>>
      \/ /\ posted /\ ~row.recognized
         /\ grns' = [grns EXCEPT ![g] = marked(TRUE, 0)] /\ UNCHANGED <<budgets, pos>>
      \/ /\ posted /\ ~row.recognized /\ po \in Live(pos) /\ open > 0
         /\ Drifts(po)
         /\ budgets' = OnBudget(budgets, bid, LAMBDA x : Recognize(x, amt))
         /\ pos' = [pos EXCEPT ![po] = [pos[po] EXCEPT !.recognized = pos[po].recognized + amt]]
         /\ grns' = [grns EXCEPT ![g] = marked(TRUE, amt)]
      \/ /\ ~posted /\ row.recognized /\ po \in Live(pos) /\ row.amount > 0
         /\ Drifts(po)
         /\ budgets' = OnBudget(budgets, bid, LAMBDA x : Unrecognize(x, row.amount))
         /\ pos' = Unreceived(po, row.amount)
         /\ grns' = [grns EXCEPT ![g] = marked(FALSE, 0)]
      \/ /\ ~posted /\ row.recognized /\ ~(po \in Live(pos) /\ row.amount > 0)
         /\ grns' = [grns EXCEPT ![g] = marked(FALSE, 0)] /\ UNCHANGED <<budgets, pos>>
      \/ /\ grns' = [grns EXCEPT ![g] = row] /\ UNCHANGED <<budgets, pos>>
  BY Zenon DEF recognizePOSpendOnReceipt, OnBudget
<1> HIDE DEF amt, marked
<1>7. CASE grns' = [grns EXCEPT ![g] = row] /\ UNCHANGED <<budgets, pos>>
  <2>1. Settled(g, row) /\ MarkOnly(g, row, po) BY <1>2, <1>7 DEF Settled, MarkOnly
  <2> QED BY <1>7, <2>1, UnchangedKept
<1>8. CASE /\ ~row.recognized
           /\ grns' = [grns EXCEPT ![g] = marked(TRUE, 0)] /\ UNCHANGED <<budgets, pos>>
  <2>1. Settled(g, row) /\ MarkOnly(g, row, po) BY <1>2, <1>8, <1>a DEF Settled, MarkOnly
  <2> QED BY <1>8, <2>1, UnchangedKept
<1>9. CASE /\ row.recognized /\ ~(po \in Live(pos) /\ row.amount > 0)
           /\ grns' = [grns EXCEPT ![g] = marked(FALSE, 0)] /\ UNCHANGED <<budgets, pos>>
  <2>1. Settled(g, row) /\ MarkOnly(g, row, po)
    <3>1. po \notin Live(pos) \/ row.amount <= 0 BY <1>1, <1>9
    <3>2. grns'[g] = marked(FALSE, 0) /\ OnlyGrn(g) BY <1>2, <1>9
    <3> QED BY <1>9, <1>a, <3>1, <3>2 DEF Settled, MarkOnly
  <2> QED BY <1>9, <2>1, UnchangedKept
<1>10. CASE /\ ~row.recognized /\ po \in Live(pos) /\ open > 0
            /\ Drifts(po)
            /\ budgets' = OnBudget(budgets, bid, LAMBDA x : Recognize(x, amt))
            /\ pos' = [pos EXCEPT ![po] = [pos[po] EXCEPT !.recognized = pos[po].recognized + amt]]
            /\ grns' = [grns EXCEPT ![g] = marked(TRUE, amt)]
  <2>1. amt \in Int /\ amt > 0 /\ amt <= open BY <1>5, <1>10
  <2>2. Books(po, amt) /\ SameRows(budgets, budgets') /\ PreKept
    BY <1>10, <2>1, BookMoves, Zenon DEF OnBudget
  <2>3. grns'[g] = marked(TRUE, amt) /\ OnlyGrn(g) BY <1>2, <1>10, Zenon
  <2>4. Settled(g, row) /\ grns'[g].amount = amt /\ grns'[g].recognized = TRUE
    BY <1>b, <2>1, <2>3 DEF Settled
  <2> QED BY <1>10, <2>2, <2>4, Zenon
<1>11. CASE /\ row.recognized /\ po \in Live(pos) /\ row.amount > 0
            /\ Drifts(po)
            /\ budgets' = OnBudget(budgets, bid, LAMBDA x : Unrecognize(x, row.amount))
            /\ pos' = Unreceived(po, row.amount)
            /\ grns' = [grns EXCEPT ![g] = marked(FALSE, 0)]
  <2>1. Unbooks(po, row.amount) /\ SameRows(budgets, budgets') /\ PreKept
    BY <1>1, <1>11, BookMoves, Zenon DEF OnBudget
  <2>2. grns'[g] = marked(FALSE, 0) /\ OnlyGrn(g) BY <1>2, <1>11, Zenon
  <2>3. Settled(g, row) /\ grns'[g].amount = 0 /\ grns'[g].recognized = FALSE
    BY <1>a, <2>2 DEF Settled
  <2> QED BY <1>11, <2>1, <2>3, Zenon
<1> QED BY <1>6, <1>7, <1>8, <1>9, <1>10, <1>11, Zenon DEF OnBudget

\* The fields of the receipt rows the endpoints pass on.
LEMMA ReceiptRow ==
  ASSUME NEW q \in Grns, NEW f \in BOOLEAN, NEW po \in PoIds \cup {None}, NEW v \in Nat
  PROVE  LET row == [q EXCEPT !.posted = f, !.po = po, !.value = v]
         IN  /\ row.row = q.row /\ row.po = po
             /\ row.recognized = q.recognized /\ row.amount = q.amount
  BY DEF Grns

\* How a receipt's transaction moves spend, whichever receipt it is.
MovesSpend(g, old, po) ==
    \/ MarkOnly(g, old, po)
    \/ ~old.recognized /\ Books(po, grns'[g].amount) /\ grns'[g].recognized = TRUE
    \/ /\ old.recognized /\ Unbooks(po, old.amount)
       /\ grns'[g].amount = 0 /\ grns'[g].recognized = FALSE

\* MovesSpend only looks at a receipt's mark and amount.
LEMMA MovesSpendOf ==
  ASSUME NEW g, NEW po, NEW q, NEW old, q.recognized = old.recognized, q.amount = old.amount,
         MovesSpend(g, q, po)
  PROVE  MovesSpend(g, old, po)
  BY DEF MovesSpend, MarkOnly

\* CreateGrn's commit.
LEMMA CreateGrnMoves ==
  ASSUME LedgerInv, NEW g \in GrnIds, NEW posted \in BOOLEAN, NEW v \in Nat,
         CreateGrnCommit(g, posted, v)
  PROVE  /\ tx.op = "CreateGrn" /\ tx.po \in PoIds \cup {None} /\ tx' = Idle /\ UNCHANGED reqs
         /\ grns[g].row = "free"
         /\ OnlyGrn(g) /\ grns'[g].row = "live" /\ grns'[g].po = tx.po
         /\ SameRows(budgets, budgets') /\ PreKept
         /\ MovesSpend(g, NoGrn, tx.po)
<1> DEFINE row == [NoGrn EXCEPT !.row = "live", !.posted = posted, !.po = tx.po, !.value = v]
<1>1. tx.op = "CreateGrn" /\ tx' = Idle /\ UNCHANGED reqs /\ grns[g].row = "free"
  BY DEF CreateGrnCommit
<1>2. tx.po \in PoIds \cup {None} BY <1>1 DEF LedgerInv, Transactions, Idle
<1>3. row \in Grns /\ row.amount = 0 BY <1>2, NewGrnRow, Zenon
<1>4. /\ row.row = "live" /\ row.po = tx.po /\ row.recognized = FALSE
  BY DEF NoGrn
<1>5. recognizePOSpendOnReceipt(g, row, tx.po, posted) BY Zenon DEF CreateGrnCommit
<1> HIDE DEF row
<1>6. row.amount >= 0 BY <1>3
<1>7. Settled(g, row) /\ SameRows(budgets, budgets') /\ PreKept /\ MovesSpend(g, row, tx.po)
  BY <1>2, <1>3, <1>5, <1>6, RecognitionMoves, Zenon DEF MovesSpend
<1>8. NoGrn.recognized = FALSE /\ NoGrn.amount = 0 BY DEF NoGrn
<1>9. MovesSpend(g, NoGrn, tx.po) BY <1>3, <1>4, <1>7, <1>8, MovesSpendOf
<1> QED BY <1>1, <1>2, <1>4, <1>7, <1>9 DEF Settled

\* The receipts' PATCH.
LEMMA PatchGrnMoves ==
  ASSUME LedgerInv, NEW g \in GrnIds, NEW posted \in BOOLEAN, NEW po \in PoIds \cup {None},
         NEW v \in Nat, UpdateGrn(g, posted, po, v)
  PROVE  /\ g \in Live(grns) /\ UNCHANGED <<reqs, tx>> /\ Undisturbed
         /\ po = grns[g].po \/ (po \in OrderRefs \ {None} /\ May("repointReceipt"))
         /\ OnlyGrn(g) /\ grns'[g].row = "live" /\ grns'[g].po = po
         /\ SameRows(budgets, budgets') /\ PreKept
         /\ MovesSpend(g, grns[g], po)
<1> DEFINE row == [grns[g] EXCEPT !.posted = posted, !.po = po, !.value = v]
<1>0. grns[g] \in Grns /\ grns[g].amount >= 0 BY DEF LedgerInv, TypedGrns
<1>1. /\ g \in Live(grns) /\ UNCHANGED <<reqs, tx>> /\ Undisturbed
      /\ po = grns[g].po \/ (po \in OrderRefs \ {None} /\ May("repointReceipt"))
  BY DEF UpdateGrn
<1>2. row = PatchedGrn(grns[g], posted, po, v) BY Zenon DEF PatchedGrn
<1>3. /\ row.row = grns[g].row /\ row.po = po
      /\ row.recognized = grns[g].recognized /\ row.amount = grns[g].amount
  BY <1>0, ReceiptRow
<1>4. recognizePOSpendOnReceipt(g, row, po, posted) BY Zenon DEF UpdateGrn
<1> HIDE DEF row
<1>5. PatchedGrn(grns[g], posted, po, v) \in Grns
  BY ONLY <1>0, GrnRows, posted \in BOOLEAN, po \in PoIds \cup {None}, v \in Nat
<1>6. row \in Grns /\ row.amount >= 0 BY ONLY <1>0, <1>2, <1>3, <1>5
<1>7. Settled(g, row) /\ SameRows(budgets, budgets') /\ PreKept /\ MovesSpend(g, row, po)
  BY <1>4, <1>6, RecognitionMoves, Zenon DEF MovesSpend
<1>8. MovesSpend(g, grns[g], po) BY <1>3, <1>7, MovesSpendOf
<1>9. grns[g].row = "live" BY <1>1 DEF Live
<1> QED BY <1>1, <1>3, <1>7, <1>8, <1>9 DEF Settled

\* DeleteGrn's commit.
LEMMA DeleteGrnMoves ==
  ASSUME LedgerInv, DeleteGrnCommit
  PROVE  /\ tx.op = "DeleteGrn" /\ tx.grn \in GrnIds /\ tx.grn \in Live(grns)
         /\ tx' = Idle /\ UNCHANGED reqs
         /\ OnlyGrn(tx.grn) /\ grns'[tx.grn].row = "gone"
         /\ SameRows(budgets, budgets') /\ PreKept
         /\ \/ /\ UNCHANGED <<budgets, pos>>
               /\ \/ ~grns[tx.grn].recognized \/ grns[tx.grn].amount <= 0
                  \/ tx.po \notin Live(pos)
            \/ Unbooks(tx.po, grns[tx.grn].amount)
<1> DEFINE g == tx.grn
           held == grns[g].amount
           po == tx.po
           gone == [NoGrn EXCEPT !.row = "gone"]
<1>1. /\ tx.op = "DeleteGrn" /\ g \in GrnIds /\ g \in Live(grns) /\ tx' = Idle
      /\ UNCHANGED reqs /\ grns' = [grns EXCEPT ![g] = gone]
  BY DEF DeleteGrnCommit, LedgerInv, Transactions, Idle
<1>2. held \in Int BY <1>1 DEF LedgerInv, TypedGrns, Grns
<1>3. gone.row = "gone" BY DEF NoGrn
<1> HIDE DEF gone
<1>4. OnlyGrn(g) /\ grns'[g].row = "gone" BY <1>1, <1>3 DEF OnlyGrn, LedgerInv, TypedGrns
<1>5. \/ /\ ~(grns[g].recognized /\ held > 0 /\ po \in Live(pos))
         /\ budgets' = budgets /\ pos' = pos
      \/ /\ po \in Live(pos) /\ held > 0
         /\ Drifts(po)
         /\ budgets' = OnBudget(budgets, pos[po].budget, LAMBDA x : Unrecognize(x, held))
         /\ pos' = Unreceived(po, held)
  BY Zenon DEF DeleteGrnCommit, OnBudget
<1>6. CASE /\ ~(grns[g].recognized /\ held > 0 /\ po \in Live(pos))
           /\ budgets' = budgets /\ pos' = pos
  BY <1>1, <1>2, <1>4, <1>6, UnchangedKept
<1>7. CASE /\ po \in Live(pos) /\ held > 0
           /\ Drifts(po)
           /\ budgets' = OnBudget(budgets, pos[po].budget, LAMBDA x : Unrecognize(x, held))
           /\ pos' = Unreceived(po, held)
  <2>1. Unbooks(po, held) /\ SameRows(budgets, budgets') /\ PreKept
    <3> HIDE DEF held, po
    <3> QED BY <1>2, <1>7, BookMoves, Zenon DEF OnBudget
  <2> QED BY <1>1, <1>4, <2>1, Zenon
<1> QED BY <1>5, <1>6, <1>7, Zenon DEF OnBudget

-----------------------------------------------------------------------------
(* The kinds of steps: every action of Next, by what it does to the rows.    *)

NewBudget(b) ==
    /\ UNCHANGED <<reqs, pos, grns, tx>>
    /\ budgets[b].row = "free" /\ \A x \in BudgetIds : x # b => budgets'[x] = budgets[x]
    /\ budgets'[b].row = "live" /\ budgets'[b].allocated \in Allocations
    /\ budgets'[b].pre = 0 /\ budgets'[b].committed = 0 /\ budgets'[b].spent = 0

DropsBudget(b) ==
    /\ UNCHANGED <<reqs, pos, grns, tx>>
    /\ \A r \in Live(reqs) : reqs[r].budget # b
    /\ \A p \in Live(pos) : pos[p].budget # b
    /\ budgets'[b].row = "gone" /\ \A x \in BudgetIds : x # b => budgets'[x] = budgets[x]

\* A new allocation or a period close.
SetsBudgets ==
    /\ UNCHANGED <<reqs, pos, grns, tx>> /\ RowsKept
    /\ "lapse" \notin Policies => PreKept
    /\ FirmStays
    /\ ~May("reallocate") => SameRows(budgets, budgets')

NewReq(r, b) ==
    /\ UNCHANGED <<budgets, pos, grns, tx>>
    /\ reqs[r].row = "free" /\ OnlyReq(r) /\ b \in Live(budgets)
    /\ reqs'[r].row = "live" /\ reqs'[r].budget = b
    /\ ~reqs'[r].committed /\ ~reqs'[r].released

EditsReq(r) ==
    /\ UNCHANGED <<budgets, pos, grns, tx>>
    /\ May("editRequisition") /\ r \in Live(reqs) /\ OnlyReq(r)
    /\ reqs'[r].row = "live"
    /\ reqs'[r].budget = reqs[r].budget \/ reqs'[r].budget \in Live(budgets)

Decided(r) ==
    /\ UNCHANGED <<pos, grns, tx>> /\ Undisturbed /\ r \in Live(reqs)
    /\ OnlyReq(r) /\ SameCharge(reqs'[r], reqs[r])
    /\ SameRows(budgets, budgets') /\ FirmKept
    /\ TierMove(r) \/ DeskMove(r)
    /\ \/ ReservationKept(r, reqs[r])
       \/ ReservationMade(r, reqs[r])
       \/ ReservationCleared(r, reqs[r])

\* The four steps that write no table.
Reads ==
    /\ UNCHANGED <<budgets, reqs, pos, grns>>
    /\ \/ tx' = Idle
       \/ /\ tx'.op = "DeleteRequisition" /\ tx'.req \in Live(reqs)
          /\ tx'.budget = reqs[tx'.req].budget /\ tx'.total = reqs[tx'.req].total
          /\ tx'.held = HoldsReservation(reqs[tx'.req])
       \/ tx'.op = "CreateGrn" /\ tx'.po \in OrderRefs
       \/ tx'.op = "DeleteGrn" /\ tx'.grn \in Live(grns) /\ tx'.po = grns[tx'.grn].po

\* DeleteRequisition's commit, for requisition r.
DropsReq(r) ==
    /\ UNCHANGED <<pos, grns>> /\ tx' = Idle
    /\ tx.op = "DeleteRequisition" /\ tx.req = r /\ r \in Live(reqs)
    /\ \A p \in Live(pos) : pos[p].req # r
    /\ OnlyReq(r) /\ reqs'[r].row = "gone"
    /\ SameRows(budgets, budgets') /\ FirmKept
    /\ ~(tx.held /\ tx.budget # None /\ tx.total > 0) => PreKept
    /\ /\ tx.held /\ tx.budget # None /\ tx.total > 0
       /\ tx.budget \in Live(budgets) => tx.total <= budgets[tx.budget].pre
       => PreMoves(budgets, budgets', tx.budget, -tx.total)

Raises(p, b, r, v) ==
    /\ Undisturbed
    /\ r \in Live(reqs) \cup {None}
    /\ b \in Live(budgets) \cup {None} \/ (r \in Live(reqs) /\ b = reqs[r].budget)
    /\ RaisedPo(p, b, r, v) /\ OrderedReq(b, r, v) /\ UNCHANGED <<grns, tx>>
    /\ SameRows(budgets, budgets')
    /\ FirmMoves(budgets, budgets', b, IF Encumbers(b, v) THEN v ELSE 0, 0)
    /\ ~Liquidates(b, r, v) => PreKept
    /\ /\ Liquidates(b, r, v)
       /\ reqs[r].budget \in Live(budgets) => reqs[r].total <= budgets[reqs[r].budget].pre
       => PreMoves(budgets, budgets', reqs[r].budget, -reqs[r].total)
    /\ Encumbers(b, v) /\ b \in Live(budgets) =>
         budgets[b].committed + v + budgets[b].spent <= budgets[b].allocated

Patches(p, st, v, b, r) ==
    /\ Undisturbed
    /\ p \in Live(pos) /\ PatchedTo(p, st, v, b, r) /\ UNCHANGED <<reqs, grns, tx>>
    /\ b = pos[p].budget \/ b \in Live(budgets)
    /\ r = pos[p].req \/ r \in Live(reqs) \cup {None}
    /\ May("relinkOrder") \/ (b = pos[p].budget /\ r = pos[p].req)
    /\ SameRows(budgets, budgets') /\ PreKept
    /\ Voids(p, st) \/ Revalues(p, st, v) \/ KeepsEncumbrance(p, st, v)

DropsPo(p) ==
    /\ Undisturbed
    /\ p \in Live(pos) /\ OnlyPo(p) /\ pos'[p].row = "gone" /\ UNCHANGED <<reqs, grns, tx>>
    /\ May("deleteReceived") \/ pos[p].recognized = 0
    /\ SameRows(budgets, budgets') /\ PreKept
    /\ \/ ~(pos[p].committed /\ pos[p].budget # None) /\ FirmKept
       \/ pos[p].committed /\ pos[p].budget # None /\ Releases(p, OpenAmount(pos[p]))

NewReceipt(g) ==
    /\ tx.op = "CreateGrn" /\ tx.po \in PoIds \cup {None} /\ tx' = Idle /\ UNCHANGED reqs
    /\ grns[g].row = "free"
    /\ OnlyGrn(g) /\ grns'[g].row = "live" /\ grns'[g].po = tx.po
    /\ SameRows(budgets, budgets') /\ PreKept
    /\ MovesSpend(g, NoGrn, tx.po)

PatchesReceipt(g, po) ==
    /\ g \in Live(grns) /\ UNCHANGED <<reqs, tx>> /\ Undisturbed
    /\ po = grns[g].po \/ (po \in OrderRefs \ {None} /\ May("repointReceipt"))
    /\ OnlyGrn(g) /\ grns'[g].row = "live" /\ grns'[g].po = po
    /\ SameRows(budgets, budgets') /\ PreKept
    /\ MovesSpend(g, grns[g], po)

DropsReceipt(g) ==
    /\ tx.op = "DeleteGrn" /\ tx.grn = g /\ g \in Live(grns) /\ tx' = Idle /\ UNCHANGED reqs
    /\ OnlyGrn(g) /\ grns'[g].row = "gone"
    /\ SameRows(budgets, budgets') /\ PreKept
    /\ \/ /\ UNCHANGED <<budgets, pos>>
          /\ ~grns[g].recognized \/ grns[g].amount <= 0 \/ tx.po \notin Live(pos)
       \/ Unbooks(tx.po, grns[g].amount)

\* The budget endpoints.
LEMMA BudgetKinds ==
  ASSUME LedgerInv, NEW b \in BudgetIds, NEW a \in Int
  PROVE  /\ a \in Allocations /\ CreateBudget(b, a) => NewBudget(b)
         /\ UpdateBudget(b, a) => SetsBudgets
         /\ DeleteBudget(b) => DropsBudget(b)
<1>0. SoundTable(budgets) /\ DOMAIN budgets = BudgetIds
  BY DEF LedgerInv, SoundTable
<1>1. ASSUME a \in Allocations, CreateBudget(b, a) PROVE NewBudget(b)
  <2> DEFINE new == [NoBudget EXCEPT !.row = "live", !.allocated = a, !.remaining = a]
  <2>1. /\ new.row = "live" /\ new.allocated = a /\ new.pre = 0 /\ new.committed = 0
        /\ new.spent = 0
    BY DEF NoBudget
  <2>2. /\ budgets' = [budgets EXCEPT ![b] = new] /\ budgets[b].row = "free"
        /\ UNCHANGED <<reqs, pos, grns, tx>>
    BY <1>1 DEF CreateBudget
  <2> HIDE DEF new
  <2>3. budgets'[b] = new /\ \A x \in BudgetIds : x # b => budgets'[x] = budgets[x]
    BY <1>0, <2>2
  <2> QED BY <1>1, <2>1, <2>2, <2>3 DEF NewBudget
<1>2. ASSUME UpdateBudget(b, a) PROVE SetsBudgets
  <2>1. \A cs : cs = OnBudget(budgets, b, LAMBDA x : Reallocate(x, a)) =>
          /\ \A x \in BudgetIds : cs[x].row = budgets[x].row
          /\ PreMoves(budgets, cs, b, 0) /\ FirmMoves(budgets, cs, b, 0, 0)
    BY <1>0, ReallocateMoves, Zenon DEF OnBudget
  <2>2. /\ budgets' = OnBudget(budgets, b, LAMBDA x : Reallocate(x, a))
        /\ UNCHANGED <<reqs, pos, grns, tx>> /\ May("reallocate")
    BY <1>2, Zenon DEF UpdateBudget, OnBudget
  <2>3. /\ \A x \in BudgetIds : budgets'[x].row = budgets[x].row
        /\ PreMoves(budgets, budgets', b, 0) /\ FirmMoves(budgets, budgets', b, 0, 0)
    BY <2>1, <2>2, Zenon DEF OnBudget
  <2>4. FirmKept BY <2>3, MovesNothing
  <2> QED BY <2>2, <2>3, <2>4, MovesNothing DEF SetsBudgets, RowsKept, FirmKept, FirmStays
<1>3. ASSUME DeleteBudget(b) PROVE DropsBudget(b)
  <2> DEFINE gone == [NoBudget EXCEPT !.row = "gone"]
  <2>1. gone.row = "gone" BY DEF NoBudget
  <2>2. /\ budgets' = [budgets EXCEPT ![b] = gone] /\ UNCHANGED <<reqs, pos, grns, tx>>
        /\ \A r \in Live(reqs) : reqs[r].budget # b
        /\ \A p \in Live(pos) : pos[p].budget # b
    BY <1>3 DEF DeleteBudget
  <2> HIDE DEF gone
  <2> QED BY <1>0, <2>1, <2>2 DEF DropsBudget
<1> QED BY <1>1, <1>2, <1>3

\* The period close.
LEMMA CloseKind ==
  ASSUME LedgerInv, NEW policy \in Policies, NEW sel \in SUBSET BudgetIds,
         CloseBudgetPeriod(policy, sel)
  PROVE  SetsBudgets
<1>1. /\ UNCHANGED <<reqs, pos, grns, tx>>
      /\ budgets' = [x \in BudgetIds |->
                       IF x \notin sel THEN budgets[x]
                       ELSE IF policy = "lapse" THEN Lapse(budgets[x])
                       ELSE Carry(budgets[x])]
      /\ adrift' = IF policy = "lapse" THEN adrift \cup sel ELSE adrift
  BY DEF CloseBudgetPeriod
<1>2. \A x \in BudgetIds :
        /\ Lapse(budgets[x]).row = budgets[x].row /\ Carry(budgets[x]).row = budgets[x].row
        /\ Carry(budgets[x]).allocated = budgets[x].allocated
        /\ Carry(budgets[x]).pre = budgets[x].pre
        /\ Carry(budgets[x]).committed = budgets[x].committed
        /\ Carry(budgets[x]).spent = budgets[x].spent
        /\ Lapse(budgets[x]).allocated = budgets[x].allocated
        /\ Lapse(budgets[x]).spent = budgets[x].spent
  BY AdminColumns, 0 \in Int DEF LedgerInv, SoundTable
<1>3. RowsKept BY <1>1, <1>2 DEF RowsKept
<1>4. SameRows(budgets, budgets') BY <1>1, <1>2 DEF SameRows
<1>5. FirmStays BY <1>1, <1>2 DEF FirmStays
<1>6. "lapse" \notin Policies => PreKept BY <1>1, <1>2 DEF PreKept
<1> QED BY <1>1, <1>3, <1>4, <1>5, <1>6 DEF SetsBudgets

\* The requisition endpoints that reserve nothing.
LEMMA ReqKinds ==
  ASSUME LedgerInv, NEW r \in ReqIds, NEW b \in BudgetIds, NEW t, NEW st
  PROVE  /\ CreateRequisition(r, b, t) => NewReq(r, b)
         /\ ImportRequisition(r, b, t, st) => NewReq(r, b)
         /\ UpdateRequisition(r, st, b, t) => EditsReq(r)
<1>0. r \in DOMAIN reqs /\ reqs[r] \in Reqs BY DEF LedgerInv, TypedReqs
<1>1. \A q : reqs' = [reqs EXCEPT ![r] = q] => OnlyReq(r) /\ reqs'[r] = q
  BY <1>0 DEF LedgerInv, TypedReqs, OnlyReq
<1>2. ASSUME CreateRequisition(r, b, t) PROVE NewReq(r, b)
  <2> DEFINE new == [NoReq EXCEPT !.row = "live", !.budget = b, !.total = t]
  <2>1. new.row = "live" /\ new.budget = b /\ new.committed = FALSE /\ new.released = FALSE
    BY DEF NoReq
  <2>2. /\ reqs' = [reqs EXCEPT ![r] = new] /\ UNCHANGED <<budgets, pos, grns, tx>>
        /\ reqs[r].row = "free" /\ b \in Live(budgets)
    BY <1>2 DEF CreateRequisition
  <2> HIDE DEF new
  <2> QED BY <1>1, <2>1, <2>2 DEF NewReq
<1>3. ASSUME ImportRequisition(r, b, t, st) PROVE NewReq(r, b)
  <2> DEFINE new == [NoReq EXCEPT !.row = "live", !.status = st, !.budget = b, !.total = t]
  <2>1. new.row = "live" /\ new.budget = b /\ new.committed = FALSE /\ new.released = FALSE
    BY DEF NoReq
  <2>2. /\ reqs' = [reqs EXCEPT ![r] = new] /\ UNCHANGED <<budgets, pos, grns, tx>>
        /\ reqs[r].row = "free" /\ b \in Live(budgets)
    BY <1>3 DEF ImportRequisition
  <2> HIDE DEF new
  <2> QED BY <1>1, <2>1, <2>2 DEF NewReq
<1>4. ASSUME UpdateRequisition(r, st, b, t) PROVE EditsReq(r)
  <2> DEFINE new == [reqs[r] EXCEPT !.status = st, !.budget = b, !.total = t]
  <2>1. new.row = reqs[r].row /\ new.budget = b BY <1>0 DEF Reqs
  <2>2. /\ reqs' = [reqs EXCEPT ![r] = new] /\ UNCHANGED <<budgets, pos, grns, tx>>
        /\ May("editRequisition") /\ r \in Live(reqs)
        /\ b = reqs[r].budget \/ b \in Live(budgets)
    BY <1>4 DEF UpdateRequisition
  <2>3. reqs[r].row = "live" BY <2>2 DEF Live
  <2> HIDE DEF new
  <2> QED BY <1>1, <2>1, <2>2, <2>3 DEF EditsReq
<1> QED BY <1>2, <1>3, <1>4

\* The reads and the rollback.
LEMMA ReadKinds ==
  ASSUME LedgerInv,
         \/ \E r \in ReqIds : DeleteRequisitionRead(r)
         \/ \E po \in PoIds \cup {None} : CreateGrnAssert(po)
         \/ \E g \in GrnIds : DeleteGrnRead(g)
         \/ Rollback
  PROVE  Reads
<1>1. ASSUME NEW r \in ReqIds, DeleteRequisitionRead(r) PROVE Reads
  <2> DEFINE h == HoldsReservation(reqs[r])
  <2>1. /\ tx' = [op |-> "DeleteRequisition", req |-> r, budget |-> reqs[r].budget,
                  total |-> reqs[r].total, held |-> h]
        /\ r \in Live(reqs) /\ UNCHANGED <<budgets, reqs, pos, grns>>
    BY <1>1 DEF DeleteRequisitionRead
  <2> HIDE DEF h
  <2>2. /\ tx'.op = "DeleteRequisition" /\ tx'.req = r /\ tx'.budget = reqs[r].budget
        /\ tx'.total = reqs[r].total /\ tx'.held = h
    BY <2>1
  <2> QED BY <2>1, <2>2 DEF Reads, h
<1>2. ASSUME NEW po \in PoIds \cup {None}, CreateGrnAssert(po) PROVE Reads
  BY <1>2 DEF CreateGrnAssert, Reads
<1>3. ASSUME NEW g \in GrnIds, DeleteGrnRead(g) PROVE Reads
  BY <1>3 DEF DeleteGrnRead, Reads
<1>4. CASE Rollback BY <1>4 DEF Rollback, Reads
<1> QED BY <1>1, <1>2, <1>3, <1>4

\* DeleteRequisition's commit.
LEMMA DropsReqKind ==
  ASSUME LedgerInv, DeleteRequisitionCommit
  PROVE  \E r \in ReqIds : DropsReq(r)
<1> DEFINE r == tx.req
           b == tx.budget
           t == tx.total
           gone == [NoReq EXCEPT !.row = "gone"]
<1>0. SoundTable(budgets) BY DEF LedgerInv
<1>1. /\ UNCHANGED <<pos, grns>> /\ tx' = Idle /\ tx.op = "DeleteRequisition"
      /\ r \in Live(reqs) /\ \A p \in Live(pos) : pos[p].req # r
      /\ reqs' = [reqs EXCEPT ![r] = gone]
  BY DEF DeleteRequisitionCommit
<1>2. r \in ReqIds /\ t \in Int /\ tx.held \in BOOLEAN BY <1>1 DEF LedgerInv, Transactions, Idle
<1>3. gone.row = "gone" BY DEF NoReq
<1> HIDE DEF gone
<1>4. OnlyReq(r) /\ reqs'[r].row = "gone"
  BY <1>1, <1>2, <1>3 DEF OnlyReq, LedgerInv, TypedReqs
<1>5. \/ ~(tx.held /\ b # None /\ t > 0) /\ UNCHANGED budgets
      \/ /\ tx.held /\ b # None /\ t > 0
         /\ budgets' = OnBudget(budgets, b, LAMBDA x : ReleasePre(x, t))
  BY Zenon DEF DeleteRequisitionCommit, OnBudget
<1>6. CASE ~(tx.held /\ b # None /\ t > 0) /\ UNCHANGED budgets
  <2>1. SameRows(budgets, budgets') /\ FirmKept /\ PreKept BY <1>6, UnchangedKept
  <2> QED BY <1>1, <1>2, <1>4, <1>6, <2>1 DEF DropsReq
<1>7. CASE /\ tx.held /\ b # None /\ t > 0
           /\ budgets' = OnBudget(budgets, b, LAMBDA x : ReleasePre(x, t))
  <2>1. \A cs : cs = OnBudget(budgets, b, LAMBDA x : ReleasePre(x, t)) =>
          /\ SameRows(budgets, cs) /\ FirmMoves(budgets, cs, b, 0, 0)
          /\ (b \in Live(budgets) => t <= budgets[b].pre) => PreMoves(budgets, cs, b, -t)
    <3> HIDE DEF b, t
    <3> QED BY <1>0, <1>2, ReleasePreMoves, Zenon DEF OnBudget
  <2>2. /\ SameRows(budgets, budgets') /\ FirmMoves(budgets, budgets', b, 0, 0)
        /\ (b \in Live(budgets) => t <= budgets[b].pre) => PreMoves(budgets, budgets', b, -t)
    BY <1>7, <2>1, Zenon DEF OnBudget
  <2>3. FirmKept BY <2>2, MovesNothing
  <2>4. DropsReq(r) BY <1>1, <1>2, <1>4, <1>7, <2>2, <2>3 DEF DropsReq
  <2> QED BY <1>2, <2>4
<1> QED BY <1>5, <1>6, <1>7, Zenon DEF OnBudget

\* The kind of a step.
StepKind ==
    \/ \E b \in BudgetIds : NewBudget(b) \/ DropsBudget(b)
    \/ SetsBudgets
    \/ \E r \in ReqIds, b \in BudgetIds : NewReq(r, b)
    \/ \E r \in ReqIds : EditsReq(r) \/ Decided(r) \/ DropsReq(r)
    \/ Reads
    \/ \E p \in PoIds, b \in BudgetIds \cup {None}, r \in ReqIds \cup {None},
          v \in OrderValues : Raises(p, b, r, v)
    \/ \E p \in PoIds, st \in {"pending", "cleared", "void"}, b \in BudgetIds \cup {None},
          r \in ReqIds \cup {None} :
         \E v \in {pos[p].total} \cup OrderValues : Patches(p, st, v, b, r)
    \/ \E p \in PoIds : DropsPo(p)
    \/ \E g \in GrnIds : NewReceipt(g) \/ DropsReceipt(g)
    \/ \E g \in GrnIds, po \in PoIds \cup {None} : PatchesReceipt(g, po)

\* Every action is of one of these kinds.
LEMMA StepKinds ==
  ASSUME LedgerInv, Next
  PROVE  StepKind
<1>1. ASSUME NEW b \in BudgetIds, NEW a \in Allocations,
             CreateBudget(b, a) \/ UpdateBudget(b, a)
      PROVE  StepKind
  <2>1. a \in Int BY LedgerAssumption DEF LedgerAssumption
  <2> QED BY <1>1, <2>1, BudgetKinds, Zenon DEF StepKind
<1>2. ASSUME NEW b \in BudgetIds, DeleteBudget(b) PROVE StepKind
  <2>1. DropsBudget(b) BY <1>2, 0 \in Int, BudgetKinds
  <2> QED BY <2>1, Zenon DEF StepKind
<1>3. ASSUME NEW policy \in Policies, NEW sel \in SUBSET BudgetIds, CloseBudgetPeriod(policy, sel)
      PROVE  StepKind
  BY <1>3, CloseKind, Zenon DEF StepKind
<1>4. ASSUME NEW r \in ReqIds, NEW b \in BudgetIds, NEW t, NEW st,
             \/ CreateRequisition(r, b, t) \/ ImportRequisition(r, b, t, st)
             \/ UpdateRequisition(r, st, b, t)
      PROVE  StepKind
  BY <1>4, ReqKinds, Zenon DEF StepKind
<1>5. ASSUME NEW r \in ReqIds, NEW f \in BOOLEAN,
             NEW d \in {"moving", "approved", "rejected", "cancelled"}, Decides(r, f, d)
      PROVE  StepKind
  <2>1. Decided(r) BY <1>5, DecisionMoves, Zenon DEF Decided
  <2> QED BY <2>1, Zenon DEF StepKind
<1>6. CASE \/ \E r \in ReqIds : DeleteRequisitionRead(r)
           \/ \E po \in PoIds \cup {None} : CreateGrnAssert(po)
           \/ \E g \in GrnIds : DeleteGrnRead(g)
           \/ Rollback
  BY <1>6, ReadKinds, Zenon DEF StepKind
<1>7. CASE DeleteRequisitionCommit BY <1>7, DropsReqKind, Zenon DEF StepKind
<1>8. ASSUME NEW p \in PoIds, NEW b \in BudgetIds, NEW r \in ReqIds \cup {None},
             NEW v \in OrderValues, CreatePurchaseOrder(p, b, r, v)
      PROVE  StepKind
  <2>1. v \in Int /\ b \in BudgetIds \cup {None} BY LedgerAssumption DEF LedgerAssumption
  <2>2. /\ Undisturbed /\ r \in Live(reqs) \cup {None} /\ b \in Live(budgets) \cup {None}
        /\ RaisePO(p, b, r, v)
    BY <1>8, <2>1 DEF CreatePurchaseOrder
  <2>3. Raises(p, b, r, v) BY <2>1, <2>2, RaiseMoves, Zenon DEF Raises
  <2> QED BY <2>1, <2>3, Zenon DEF StepKind
<1>9. ASSUME NEW p \in PoIds, NEW b \in BudgetIds \cup {None}, NEW r \in ReqIds \cup {None},
             NEW v \in OrderValues, AwardRfq(p, b, r, v)
      PROVE  StepKind
  <2> DEFINE c == IF b = None /\ r # None THEN reqs[r].budget ELSE b
  <2>1. v \in Int BY LedgerAssumption DEF LedgerAssumption
  <2>2. /\ Undisturbed /\ r \in Live(reqs) \cup {None} /\ b \in Live(budgets) \cup {None}
        /\ RaisePO(p, c, r, v)
    BY <1>9, Zenon DEF AwardRfq
  <2>3. c \in BudgetIds \cup {None} BY DEF LedgerInv, TypedReqs, Reqs
  <2>4. c \in Live(budgets) \cup {None} \/ (r \in Live(reqs) /\ c = reqs[r].budget)
    BY <2>2
  <2> HIDE DEF c
  <2>5. Raises(p, c, r, v) BY <2>1, <2>2, <2>3, <2>4, RaiseMoves, Zenon DEF Raises
  <2> QED BY <2>3, <2>5, Zenon DEF StepKind
<1>10. ASSUME NEW p \in PoIds, NEW st \in {"pending", "cleared", "void"},
              NEW b \in BudgetIds \cup {None}, NEW r \in ReqIds \cup {None},
              NEW v \in {pos[p].total} \cup OrderValues, UpdatePurchaseOrder(p, st, v, b, r)
       PROVE  StepKind
  <2>1. v \in Int BY LedgerAssumption DEF LedgerAssumption, LedgerInv, TypedPos, Pos
  <2>2. Undisturbed BY <1>10 DEF UpdatePurchaseOrder
  <2>3. Patches(p, st, v, b, r) BY <1>10, <2>1, <2>2, PatchPoMoves DEF Patches
  <2> QED BY <2>3, Zenon DEF StepKind
<1>11. ASSUME NEW p \in PoIds, DeletePurchaseOrder(p) PROVE StepKind
  <2>1. Undisturbed BY <1>11 DEF DeletePurchaseOrder
  <2>2. DropsPo(p) BY <1>11, <2>1, DeletePoMoves, Zenon DEF DropsPo
  <2> QED BY <2>2, Zenon DEF StepKind
<1>12. ASSUME NEW g \in GrnIds, NEW posted \in BOOLEAN, NEW v \in ReceiptValues,
              CreateGrnCommit(g, posted, v)
       PROVE  StepKind
  <2>1. v \in Nat BY LedgerAssumption DEF LedgerAssumption
  <2>2. NewReceipt(g) BY <1>12, <2>1, CreateGrnMoves, Zenon DEF NewReceipt
  <2> QED BY <2>2, Zenon DEF StepKind
<1>13. ASSUME NEW g \in GrnIds, NEW posted \in BOOLEAN, NEW po \in PoIds \cup {None},
              NEW v \in ReceiptValues, UpdateGrn(g, posted, po, v)
       PROVE  StepKind
  <2>1. v \in Nat BY LedgerAssumption DEF LedgerAssumption
  <2>2. PatchesReceipt(g, po) BY <1>13, <2>1, PatchGrnMoves, Zenon DEF PatchesReceipt
  <2> QED BY <2>2, Zenon DEF StepKind
<1>14. CASE DeleteGrnCommit
  <2>1. tx.grn \in GrnIds BY <1>14, DeleteGrnMoves
  <2>2. DropsReceipt(tx.grn) BY <1>14, DeleteGrnMoves, Zenon DEF DropsReceipt
  <2> QED BY <2>1, <2>2, Zenon DEF StepKind
<1>15. \A r \in ReqIds :
         /\ TierSign(r) \/ TierReject(r) \/ OpenDeskChain(r) => Decides(r, TRUE, "moving")
         /\ \A f \in BOOLEAN : TierApprove(r, f) => Decides(r, f, "moving")
         /\ \A d \in {"moving", "approved", "rejected", "cancelled"} :
              ApplyDeskTransition(r, d) => Decides(r, TRUE, d)
  BY Zenon DEF Decides
<1>16. TRUE \in BOOLEAN /\ "moving" \in {"moving", "approved", "rejected", "cancelled"}
  OBVIOUS
<1>17. ASSUME NEW r \in ReqIds, TierSign(r) \/ TierReject(r) \/ OpenDeskChain(r) PROVE StepKind
  BY <1>5, <1>15, <1>16, <1>17, Zenon
<1>18. ASSUME NEW r \in ReqIds, NEW f \in BOOLEAN, TierApprove(r, f) PROVE StepKind
  BY <1>5, <1>15, <1>16, <1>18, Zenon
<1>19. ASSUME NEW r \in ReqIds, NEW d \in {"moving", "approved", "rejected", "cancelled"},
              ApplyDeskTransition(r, d)
       PROVE  StepKind
  BY <1>5, <1>15, <1>16, <1>19, Zenon
<1> QED
  BY <1>1, <1>2, <1>3, <1>4, <1>6, <1>7, <1>8, <1>9, <1>10, <1>11, <1>12, <1>13,
     <1>14, <1>17, <1>18, <1>19
  DEF Next, postBudget, patchBudget, deleteBudget, closeBudgetPeriod, postRequisition,
      deleteRequisition

-----------------------------------------------------------------------------
(* The foreign keys. *)

\* A step that leaves every order but its recognised spend alone.
OrdersStay ==
    \A p \in PoIds :
        /\ pos'[p].row = pos[p].row /\ pos'[p].status = pos[p].status
        /\ pos'[p].budget = pos[p].budget /\ pos'[p].req = pos[p].req
        /\ pos'[p].total = pos[p].total /\ pos'[p].committed = pos[p].committed

\* A receipt's transaction is such a step.
LEMMA SpendStays ==
  ASSUME LedgerInv, NEW po, NEW a,
         Books(po, a) \/ Unbooks(po, a) \/ UNCHANGED pos
  PROVE  OrdersStay
<1>1. CASE UNCHANGED pos BY <1>1 DEF OrdersStay
<1>2. CASE Books(po, a) \/ Unbooks(po, a)
  <2>1. po \in PoIds /\ pos[po] \in Pos BY <1>2 DEF Books, Unbooks, Live, LedgerInv, TypedPos
  <2>2. OnlyPo(po) BY <1>2 DEF Books, Unbooks
  <2>3. \E x : pos'[po] = [pos[po] EXCEPT !.recognized = x] BY <1>2 DEF Books, Unbooks
  <2>4. /\ pos'[po].row = pos[po].row /\ pos'[po].status = pos[po].status
        /\ pos'[po].budget = pos[po].budget /\ pos'[po].req = pos[po].req
        /\ pos'[po].total = pos[po].total /\ pos'[po].committed = pos[po].committed
    BY <2>1, <2>3 DEF Pos
  <2> QED BY <2>2, <2>4 DEF OnlyPo, OrdersStay
<1> QED BY <1>1, <1>2

\* MovesSpend and the commit of DeleteGrn are such transactions.
LEMMA ReceiptsKeepOrders ==
  ASSUME LedgerInv, NEW g \in GrnIds,
         NewReceipt(g) \/ DropsReceipt(g) \/ \E po \in PoIds \cup {None} : PatchesReceipt(g, po)
  PROVE  OrdersStay /\ UNCHANGED reqs /\ SameRows(budgets, budgets') /\ PreKept
<1>1. ASSUME NEW old, NEW po, MovesSpend(g, old, po) PROVE OrdersStay
  BY <1>1, SpendStays DEF MovesSpend, MarkOnly
<1>2. CASE NewReceipt(g) BY <1>1, <1>2 DEF NewReceipt
<1>3. CASE DropsReceipt(g) BY <1>3, SpendStays DEF DropsReceipt
<1>4. ASSUME NEW po, PatchesReceipt(g, po)
      PROVE  OrdersStay /\ UNCHANGED reqs /\ SameRows(budgets, budgets') /\ PreKept
  BY <1>1, <1>4 DEF PatchesReceipt
<1> QED BY <1>2, <1>3, <1>4

\* The live rows of the tables, by their ids.
LEMMA LiveRows ==
  ASSUME LedgerInv
  PROVE  /\ \A b : b \in Live(budgets) <=> b \in BudgetIds /\ budgets[b].row = "live"
         /\ \A r : r \in Live(reqs) <=> r \in ReqIds /\ reqs[r].row = "live"
         /\ \A p : p \in Live(pos) <=> p \in PoIds /\ pos[p].row = "live"
         /\ \A g : g \in Live(grns) <=> g \in GrnIds /\ grns[g].row = "live"
  BY DEF LedgerInv, SoundTable, TypedReqs, TypedPos, TypedGrns, Live

\* A step that drops no row, and where a row's references come from.
References ==
    /\ \A b \in BudgetIds : budgets[b].row = "live" => budgets'[b].row = "live"
    /\ \A r \in ReqIds : reqs[r].row = "live" => reqs'[r].row = "live"
    /\ \A r \in ReqIds : reqs'[r].row = "live" =>
         \/ reqs[r].row = "live" /\ reqs'[r].budget = reqs[r].budget
         \/ reqs'[r].budget \in Live(budgets)
    /\ \A p \in PoIds : pos'[p].row = "live" =>
         /\ \/ pos[p].row = "live" /\ pos'[p].budget = pos[p].budget
            \/ pos'[p].budget \in Live(budgets) \cup {None}
            \/ \E r \in Live(reqs) : pos'[p].budget = reqs[r].budget
         /\ \/ pos[p].row = "live" /\ pos'[p].req = pos[p].req
            \/ pos'[p].req \in Live(reqs) \cup {None}

\* Every step but a delete of a budget or a requisition is one.
LEMMA StepReferences ==
  ASSUME LedgerInv, StepKind
  PROVE  \/ References
         \/ \E b \in BudgetIds : DropsBudget(b)
         \/ \E r \in ReqIds : DropsReq(r)
<1>0. SameRows(budgets, budgets') => RowsKept BY DEF SameRows, RowsKept
<1>1. ASSUME NEW b \in BudgetIds, NewBudget(b) PROVE References
  BY <1>1 DEF NewBudget, References
<1>2. CASE SetsBudgets BY <1>2 DEF SetsBudgets, RowsKept, References
<1>3. ASSUME NEW r \in ReqIds, NEW b \in BudgetIds, NewReq(r, b) PROVE References
  BY <1>3 DEF NewReq, OnlyReq, References
<1>4. ASSUME NEW r \in ReqIds, EditsReq(r) PROVE References
  BY <1>4, LiveRows DEF EditsReq, OnlyReq, References
<1>5. ASSUME NEW r \in ReqIds, Decided(r) PROVE References
  BY <1>0, <1>5 DEF Decided, SameCharge, OnlyReq, RowsKept, References
<1>6. CASE Reads BY <1>6 DEF Reads, References
<1>7. ASSUME NEW p \in PoIds, NEW b \in BudgetIds \cup {None}, NEW r \in ReqIds \cup {None},
             NEW v \in OrderValues, Raises(p, b, r, v)
      PROVE  References
  <2>1. \A x \in ReqIds : reqs'[x].row = reqs[x].row /\ reqs'[x].budget = reqs[x].budget
    BY <1>7 DEF Raises, OrderedReq, OnlyReq
  <2>2. RowsKept BY <1>0, <1>7 DEF Raises
  <2>3. /\ OnlyPo(p) /\ pos'[p].budget = b /\ pos'[p].req = r
        /\ r \in Live(reqs) \cup {None}
        /\ b \in Live(budgets) \cup {None} \/ (r \in Live(reqs) /\ b = reqs[r].budget)
    BY <1>7 DEF Raises, RaisedPo
  <2> QED BY <2>1, <2>2, <2>3 DEF OnlyPo, RowsKept, References
<1>8. ASSUME NEW p \in PoIds, NEW st, NEW v, NEW b \in BudgetIds \cup {None},
             NEW r \in ReqIds \cup {None}, Patches(p, st, v, b, r)
      PROVE  References
  <2>1. RowsKept /\ UNCHANGED reqs BY <1>0, <1>8 DEF Patches
  <2>2. /\ OnlyPo(p) /\ pos'[p].budget = b /\ pos'[p].req = r /\ pos[p].row = "live"
        /\ r = pos[p].req \/ r \in Live(reqs) \cup {None}
        /\ b = pos[p].budget \/ b \in Live(budgets)
    BY <1>8, LiveRows DEF Patches, PatchedTo
  <2> QED BY <2>1, <2>2 DEF OnlyPo, RowsKept, References
<1>9. ASSUME NEW p \in PoIds, DropsPo(p) PROVE References
  BY <1>0, <1>9 DEF DropsPo, OnlyPo, RowsKept, References
<1>10. ASSUME NEW g \in GrnIds,
              \/ NewReceipt(g) \/ DropsReceipt(g)
              \/ \E po \in PoIds \cup {None} : PatchesReceipt(g, po)
       PROVE  References
  BY <1>0, <1>10, ReceiptsKeepOrders DEF OrdersStay, RowsKept, References
<1> QED BY <1>1, <1>2, <1>3, <1>4, <1>5, <1>6, <1>7, <1>8, <1>9, <1>10 DEF StepKind

\* The references a budget's or a requisition's delete leaves.
LEMMA DropsKeepReferences ==
  ASSUME LedgerInv, LedgerInv', ReferencesHold,
         \/ \E b \in BudgetIds : DropsBudget(b)
         \/ \E r \in ReqIds : DropsReq(r)
  PROVE  ReferencesHold'
<1>1. ASSUME NEW b \in BudgetIds, DropsBudget(b) PROVE ReferencesHold'
  <2>1. \A x : x \in Live(budgets) /\ x # b => x \in Live(budgets')
    BY <1>1, LiveRows DEF DropsBudget, LedgerInv, SoundTable, Live
  <2>2. b # None BY LedgerAssumption DEF LedgerAssumption
  <2> QED BY <1>1, <2>1, <2>2 DEF DropsBudget, ReferencesHold, Live
<1>2. ASSUME NEW r \in ReqIds, DropsReq(r) PROVE ReferencesHold'
  <2>1. \A x : x \in Live(budgets) => x \in Live(budgets')
    BY <1>2 DEF DropsReq, SameRows, LedgerInv, SoundTable, Live
  <2>2. \A x : x \in Live(reqs') => x # r /\ x \in Live(reqs) /\ reqs'[x] = reqs[x]
    BY <1>2 DEF DropsReq, OnlyReq, LedgerInv, TypedReqs, Live
  <2>3. \A x : x \in Live(reqs) /\ x # r => x \in Live(reqs')
    BY <1>2 DEF DropsReq, OnlyReq, LedgerInv, TypedReqs, Live
  <2>4. UNCHANGED pos /\ \A p \in Live(pos) : pos[p].req # r BY <1>2 DEF DropsReq
  <2>5. Live(pos') = Live(pos) BY <2>4
  <2> QED BY <2>1, <2>2, <2>3, <2>4, <2>5 DEF ReferencesHold
<1> QED BY <1>1, <1>2

\* A step that drops nothing keeps the references.
LEMMA ReferencesKept ==
  ASSUME LedgerInv, LedgerInv', ReferencesHold, References
  PROVE  ReferencesHold'
<1>1. \A x : x \in Live(budgets) => x \in Live(budgets')
  BY DEF References, LedgerInv, SoundTable, Live
<1>2. \A x : x \in Live(reqs) => x \in Live(reqs')
  BY DEF References, LedgerInv, TypedReqs, Live
<1>3. \A x : x \in Live(reqs') => x \in ReqIds /\ reqs'[x].row = "live"
  BY DEF LedgerInv, TypedReqs, Live
<1>4. \A x : x \in Live(pos') => x \in PoIds /\ pos'[x].row = "live"
  BY DEF LedgerInv, TypedPos, Live
<1>5. \A r \in Live(reqs') : reqs'[r].budget \in Live(budgets') \cup {None}
  BY <1>1, <1>3, LiveRows DEF References, ReferencesHold
<1>6. \A p \in Live(pos') : /\ pos'[p].budget \in Live(budgets') \cup {None}
                            /\ pos'[p].req \in Live(reqs') \cup {None}
  BY <1>1, <1>2, <1>4, LiveRows DEF References, ReferencesHold
<1> QED BY <1>5, <1>6 DEF ReferencesHold

\* Every step keeps the references.
LEMMA ReferencesStep ==
  ASSUME LedgerInv, ReferencesHold, [Next]_vars
  PROVE  ReferencesHold'
<1>1. LedgerInv' BY LedgerStep
<1>2. CASE Next BY <1>1, <1>2, StepKinds, StepReferences, DropsKeepReferences, ReferencesKept
<1>3. CASE UNCHANGED vars BY <1>3 DEF vars, ReferencesHold
<1> QED BY <1>2, <1>3

-----------------------------------------------------------------------------
(* Reservations.  A requisition that is edited after its approval, or that   *)
(* the other engine decides again, and a period close that lapses, move a    *)
(* reservation without its column or the column without it; an interleaving  *)
(* lets DeleteRequisition release what is no longer held.                    *)

\* The clients and policies the reservations are proved for.
Orderly ==
    /\ "lapse" \notin Policies
    /\ ~May("editRequisition") /\ ~May("mixEngines") /\ ~May("race")

\* A reservation belongs to an approved requisition, and only a reservation
\* is released: so no decision is ever taken on a requisition that holds one.
ReqOrder ==
    \A r \in ReqIds : reqs[r].row = "live" =>
        /\ reqs[r].committed => \/ /\ reqs[r].desk = "none"
                                   /\ reqs[r].status \in {"approved", "ordered"}
                                \/ reqs[r].desk = "approved"
        /\ reqs[r].released => reqs[r].committed

\* What DeleteRequisition has read is still so.
DeleteFresh ==
    tx.op = "DeleteRequisition" =>
        /\ tx.req \in Live(reqs)
        /\ tx.budget = reqs[tx.req].budget /\ tx.total = reqs[tx.req].total
        /\ tx.held <=> HoldsReservation(reqs[tx.req])

ReservedInv == LedgerInv /\ ReferencesHold /\ PreReconciles /\ ReqOrder /\ DeleteFresh

\* What a requisition reserves is an amount, and 0 or more.
LEMMA ReservedAmount ==
  ASSUME NEW q \in Reqs, NEW b
  PROVE  Reserved(q, b) \in Int /\ Reserved(q, b) >= 0
  BY DEF Reserved, Reqs

\* A budget has reserved at least what any one of its requisitions has.
LEMMA ReservationFits ==
  ASSUME ReservedInv, NEW b \in Live(budgets), NEW r \in ReqIds
  PROVE  Reserved(reqs[r], b) <= budgets[b].pre
<1> DEFINE f == [x \in ReqIds |-> Reserved(reqs[x], b)]
<1>1. IsFiniteSet(ReqIds) BY LedgerAssumption DEF LedgerAssumption
<1>2. f \in [ReqIds -> Int] /\ \A x \in ReqIds : f[x] >= 0
  BY ReservedAmount DEF ReservedInv, LedgerInv, TypedReqs
<1>3. budgets[b].pre = SumOver(f) BY DEF ReservedInv, PreReconciles, OpenReservations
<1>4. f[r] = Reserved(reqs[r], b) OBVIOUS
<1>5. Reserved(reqs[r], b) \in Int BY <1>2, <1>4
<1> HIDE DEF f
<1>6. SumOver(f) \in Int /\ SumOver(f) >= f[r] BY <1>1, <1>2, SumAtLeast
<1> QED BY <1>3, <1>4, <1>5, <1>6

\* A step that changes one requisition, and the column by as much.
LEMMA ReservationBalance ==
  ASSUME LedgerInv, LedgerInv', PreReconciles, NEW r \in ReqIds, OnlyReq(r),
         \A b \in BudgetIds : budgets'[b].row = "live" =>
            /\ budgets[b].row = "live"
            /\ budgets'[b].pre = budgets[b].pre + Reserved(reqs'[r], b) - Reserved(reqs[r], b)
  PROVE  PreReconciles'
<1>1. SUFFICES ASSUME NEW b \in BudgetIds, budgets'[b].row = "live"
               PROVE  budgets'[b].pre = OpenReservations(b)'
  BY DEF PreReconciles, Live, LedgerInv, SoundTable
<1> DEFINE f == [x \in ReqIds |-> Reserved(reqs[x], b)]
           h == [x \in ReqIds |-> Reserved(reqs'[x], b)]
<1>2. IsFiniteSet(ReqIds) BY LedgerAssumption DEF LedgerAssumption
<1>3. f \in [ReqIds -> Int] /\ h \in [ReqIds -> Int]
  BY ReservedAmount DEF LedgerInv, TypedReqs
<1>4. \A x \in ReqIds : x # r => f[x] = h[x] BY DEF OnlyReq
<1>5. f[r] = Reserved(reqs[r], b) /\ h[r] = Reserved(reqs'[r], b) OBVIOUS
<1>6. budgets[b].pre = SumOver(f)
  BY <1>1, LiveRows DEF PreReconciles, OpenReservations
<1>7. OpenReservations(b)' = SumOver(h) BY DEF OpenReservations
<1>8. budgets'[b].pre = budgets[b].pre + h[r] - f[r] BY <1>1, <1>5
<1> HIDE DEF f, h
<1>9. SumOver(f) \in Int /\ SumOver(h) = SumOver(f) + h[r] - f[r]
  BY <1>2, <1>3, <1>4, SumPoint
<1> QED BY <1>6, <1>7, <1>8, <1>9

\* A step that changes no requisition and no column.
LEMMA ReservationsUnchanged ==
  ASSUME LedgerInv, LedgerInv', PreReconciles, UNCHANGED reqs,
         \A b \in BudgetIds : budgets'[b].row = "live" =>
            budgets[b].row = "live" /\ budgets'[b].pre = budgets[b].pre
  PROVE  PreReconciles'
<1>1. SUFFICES ASSUME NEW b \in BudgetIds, budgets'[b].row = "live"
               PROVE  budgets'[b].pre = OpenReservations(b)'
  BY DEF PreReconciles, Live, LedgerInv, SoundTable
<1>2. OpenReservations(b)' = OpenReservations(b) BY DEF OpenReservations
<1> QED BY <1>1, <1>2, LiveRows DEF PreReconciles

\* A new budget has no requisitions.
LEMMA NewBudgetReserves ==
  ASSUME LedgerInv, LedgerInv', ReferencesHold, PreReconciles, NEW n \in BudgetIds, NewBudget(n)
  PROVE  PreReconciles'
<1>1. SUFFICES ASSUME NEW b \in BudgetIds, budgets'[b].row = "live"
               PROVE  budgets'[b].pre = OpenReservations(b)'
  BY DEF PreReconciles, Live, LedgerInv, SoundTable
<1>2. OpenReservations(b)' = OpenReservations(b) BY DEF OpenReservations, NewBudget
<1>3. CASE b # n BY <1>1, <1>2, <1>3, LiveRows DEF PreReconciles, NewBudget
<1>4. CASE b = n
  <2> DEFINE f == [x \in ReqIds |-> Reserved(reqs[x], b)]
  <2>1. IsFiniteSet(ReqIds) BY LedgerAssumption DEF LedgerAssumption
  <2>2. b # None BY LedgerAssumption DEF LedgerAssumption
  <2>3. ASSUME NEW x \in ReqIds PROVE Reserved(reqs[x], b) = 0
    <3>1. reqs[x].row = "live" => reqs[x].budget # b
      BY <1>4, <2>2, LiveRows DEF ReferencesHold, NewBudget
    <3> QED BY <3>1 DEF Reserved
  <2>4. f \in [ReqIds -> Int] /\ \A x \in ReqIds : f[x] = 0 BY <2>3
  <2>5. OpenReservations(b) = SumOver(f) BY DEF OpenReservations
  <2> HIDE DEF f
  <2>6. SumOver(f) = 0 BY <2>1, <2>4, SumZero
  <2> QED BY <1>2, <1>4, <2>5, <2>6 DEF NewBudget
<1> QED BY <1>3, <1>4

\* No decision is taken on a requisition that holds a reservation.
LEMMA DecidedIsFree ==
  ASSUME Orderly, ReservedInv, NEW r \in ReqIds, Decided(r)
  PROVE  /\ ~reqs[r].committed /\ ~reqs[r].released
         /\ reqs[r].row = "live" /\ tx = Idle
<1>1. reqs[r].row = "live" /\ Undisturbed /\ (TierMove(r) \/ DeskMove(r))
  BY LiveRows DEF Decided, ReservedInv
<1>2. tx = Idle BY <1>1 DEF Undisturbed, Orderly
<1>3. reqs[r].committed => \/ /\ reqs[r].desk = "none"
                              /\ reqs[r].status \in {"approved", "ordered"}
                           \/ reqs[r].desk = "approved"
  BY <1>1 DEF ReservedInv, ReqOrder
<1>4. ~reqs[r].committed
  <2>1. CASE TierMove(r) BY <1>3, <2>1 DEF TierMove, Orderly
  <2>2. CASE DeskMove(r) BY <1>3, <2>2 DEF DeskMove, Orderly
  <2> QED BY <1>1, <2>1, <2>2
<1>5. ~reqs[r].released BY <1>1, <1>4 DEF ReservedInv, ReqOrder
<1> QED BY <1>1, <1>2, <1>4, <1>5

\* A decision reserves the total of a requisition that had reserved nothing.
LEMMA DecisionReserves ==
  ASSUME Orderly, ReservedInv, LedgerInv', NEW r \in ReqIds, Decided(r)
  PROVE  PreReconciles'
<1>1. ~reqs[r].committed /\ ~reqs[r].released /\ reqs[r].row = "live" BY DecidedIsFree
<1>2. /\ OnlyReq(r) /\ SameCharge(reqs'[r], reqs[r]) /\ SameRows(budgets, budgets')
      /\ ReservationKept(r, reqs[r]) \/ ReservationMade(r, reqs[r])
  BY <1>1 DEF Decided, ReservationCleared
<1>3. LedgerInv /\ PreReconciles BY DEF ReservedInv
<1>4. \A b \in BudgetIds : budgets[b].pre \in Int BY <1>3 DEF LedgerInv, SoundTable, Budgets
<1>5. \A b \in BudgetIds : Reserved(reqs[r], b) = 0 BY <1>1 DEF Reserved
<1>6. CASE ReservationKept(r, reqs[r])
  <2>1. \A b \in BudgetIds : Reserved(reqs'[r], b) = 0
    BY <1>1, <1>6 DEF Reserved, ReservationKept
  <2>2. \A b \in BudgetIds : budgets'[b].row = budgets[b].row /\ budgets'[b].pre = budgets[b].pre
    BY <1>6 DEF ReservationKept
  <2> QED BY <1>2, <1>3, <1>4, <1>5, <2>1, <2>2, ReservationBalance
<1>7. CASE ReservationMade(r, reqs[r])
  <2>1. budgets[reqs[r].budget].row = "live"
    BY <1>1, <1>3, <1>7, LiveRows DEF ReservedInv, ReferencesHold, ReservationMade
  <2>2. /\ \A b \in BudgetIds : Reserved(reqs'[r], b) = By(budgets, b, reqs[r].budget, reqs[r].total)
        /\ reqs[r].total \in Int
    BY <1>1, <1>2, <1>3, <1>7, <2>1
    DEF Reserved, By, SameCharge, ReservationMade, LedgerInv, TypedReqs, Reqs
  <2>3. \A b \in BudgetIds : /\ budgets'[b].row = budgets[b].row
                             /\ budgets'[b].pre = budgets[b].pre + Reserved(reqs'[r], b)
                             /\ Reserved(reqs'[r], b) \in Int
    BY <1>2, <1>7, <2>2 DEF SameRows, PreMoves, ReservationMade, By
  <2> QED BY <1>2, <1>3, <1>4, <1>5, <2>3, ReservationBalance
<1> QED BY <1>2, <1>6, <1>7

\* An order that liquidates its requisition releases what that had reserved.
LEMMA RaiseReleases ==
  ASSUME ReservedInv, LedgerInv', NEW p \in PoIds, NEW b, NEW r \in ReqIds \cup {None},
         NEW v, Raises(p, b, r, v)
  PROVE  PreReconciles'
<1>1. LedgerInv /\ PreReconciles BY DEF ReservedInv
<1>2. \A x \in BudgetIds : budgets[x].pre \in Int BY <1>1 DEF LedgerInv, SoundTable, Budgets
<1>3. /\ OrderedReq(b, r, v) /\ SameRows(budgets, budgets')
      /\ ~Liquidates(b, r, v) => PreKept
      /\ /\ Liquidates(b, r, v)
         /\ reqs[r].budget \in Live(budgets) => reqs[r].total <= budgets[reqs[r].budget].pre
         => PreMoves(budgets, budgets', reqs[r].budget, -reqs[r].total)
      /\ r \in Live(reqs) \cup {None}
  BY DEF Raises
<1>4. CASE r = None
  <2>1. None \notin ReqIds /\ ~Liquidates(b, r, v)
    BY <1>4, LedgerAssumption DEF LedgerAssumption, Liquidates
  <2>2. reqs' = reqs
    BY <1>1, <1>3, <1>4, <2>1 DEF OrderedReq, OnlyReq, LedgerInv, TypedReqs
  <2> QED BY <1>1, <1>3, <2>1, <2>2, ReservationsUnchanged DEF SameRows, PreKept
<1>5. CASE r # None
  <2>1. r \in ReqIds /\ reqs[r] \in Reqs /\ reqs[r].row = "live"
    BY <1>1, <1>3, <1>5, LiveRows DEF LedgerInv, TypedReqs
  <2>2. \A x \in BudgetIds : Reserved(reqs[r], x) \in Int BY <2>1, ReservedAmount
  <2>3. /\ OnlyReq(r) /\ reqs'[r].row = reqs[r].row /\ reqs'[r].budget = reqs[r].budget
        /\ reqs'[r].total = reqs[r].total /\ reqs'[r].committed = reqs[r].committed
        /\ reqs'[r].released = (reqs[r].released \/ Liquidates(b, r, v))
    BY <1>3, <2>1 DEF OrderedReq
  <2>4. CASE ~Liquidates(b, r, v)
    <3>1. \A x \in BudgetIds : Reserved(reqs'[r], x) = Reserved(reqs[r], x)
      BY <2>3, <2>4 DEF Reserved
    <3>2. \A x \in BudgetIds : budgets'[x].row = budgets[x].row /\ budgets'[x].pre = budgets[x].pre
      BY <1>3, <2>4 DEF SameRows, PreKept
    <3> QED BY <1>1, <1>2, <2>1, <2>2, <2>3, <3>1, <3>2, ReservationBalance
  <2>5. CASE Liquidates(b, r, v)
    <3> DEFINE a == reqs[r].budget
               t == reqs[r].total
    <3>1. a # None /\ t > 0 /\ t \in Int /\ HoldsReservation(reqs[r])
      BY <2>1, <2>5 DEF Liquidates, Reqs
    <3>2. a \in Live(budgets) BY <1>1, <2>1, <3>1, LiveRows DEF ReservedInv, ReferencesHold
    <3>3. Reserved(reqs[r], a) = t BY <2>1, <3>1 DEF Reserved, HoldsReservation
    <3>4. t <= budgets[a].pre BY <2>1, <3>2, <3>3, ReservationFits
    <3>5. PreMoves(budgets, budgets', a, -t) BY <1>3, <2>5, <3>4
    <3>6. budgets[a].row = "live" BY <1>1, <3>2, LiveRows
    <3>7. reqs'[r].released BY <2>3, <2>5
    <3>8. \A x \in BudgetIds : Reserved(reqs'[r], x) = 0 BY <3>7 DEF Reserved
    <3>9. \A x \in BudgetIds : By(budgets, x, a, -t) = -Reserved(reqs[r], x)
      BY <2>1, <3>1, <3>6 DEF Reserved, By, HoldsReservation
    <3>10. \A x \in BudgetIds :
            /\ budgets'[x].row = budgets[x].row
            /\ budgets'[x].pre = budgets[x].pre + Reserved(reqs'[r], x) - Reserved(reqs[r], x)
      BY <1>2, <1>3, <2>2, <3>5, <3>8, <3>9 DEF SameRows, PreMoves
    <3> QED BY <1>1, <2>1, <2>3, <3>10, ReservationBalance
  <2> QED BY <2>4, <2>5
<1> QED BY <1>4, <1>5

\* A deleted requisition releases what it had reserved.
LEMMA DropReleases ==
  ASSUME ReservedInv, LedgerInv', NEW r \in ReqIds, DropsReq(r)
  PROVE  PreReconciles'
<1> DEFINE a == reqs[r].budget
           t == reqs[r].total
<1>1. LedgerInv /\ PreReconciles BY DEF ReservedInv
<1>2. \A x \in BudgetIds : budgets[x].pre \in Int BY <1>1 DEF LedgerInv, SoundTable, Budgets
<1>3. reqs[r] \in Reqs /\ reqs[r].row = "live" /\ t \in Int
  BY <1>1, LiveRows DEF DropsReq, LedgerInv, TypedReqs, Reqs
<1>4. tx.budget = a /\ tx.total = t /\ (tx.held <=> HoldsReservation(reqs[r]))
  BY DEF DropsReq, ReservedInv, DeleteFresh
<1>5. OnlyReq(r) /\ \A x \in BudgetIds : Reserved(reqs'[r], x) = 0
  BY DEF DropsReq, Reserved
<1>6. \A x \in BudgetIds : budgets'[x].row = budgets[x].row BY DEF DropsReq, SameRows
<1>7. \A x \in BudgetIds : Reserved(reqs[r], x) \in Int BY <1>3, ReservedAmount
<1>8. CASE ~(tx.held /\ tx.budget # None /\ tx.total > 0)
  <2>1. PreKept BY <1>8 DEF DropsReq
  <2>2. \A x \in BudgetIds : x # None BY LedgerAssumption DEF LedgerAssumption
  <2>3. \A x \in BudgetIds : Reserved(reqs[r], x) = 0
    BY <1>3, <1>4, <1>8, <2>2 DEF Reserved, HoldsReservation
  <2> QED BY <1>1, <1>2, <1>5, <1>6, <2>1, <2>3, ReservationBalance DEF PreKept
<1>9. CASE tx.held /\ tx.budget # None /\ tx.total > 0
  <2>1. HoldsReservation(reqs[r]) /\ a # None /\ t > 0 BY <1>4, <1>9
  <2>2. a \in Live(budgets) BY <1>1, <1>3, <2>1, LiveRows DEF ReservedInv, ReferencesHold
  <2>3. Reserved(reqs[r], a) = t BY <1>3, <2>1 DEF Reserved, HoldsReservation
  <2>4. t <= budgets[a].pre BY <2>2, <2>3, ReservationFits
  <2>5. PreMoves(budgets, budgets', a, -t) BY <1>4, <1>9, <2>4 DEF DropsReq
  <2>6. budgets[a].row = "live" BY <1>1, <2>2, LiveRows
  <2>7. \A x \in BudgetIds : By(budgets, x, a, -t) = -Reserved(reqs[r], x)
    BY <1>3, <2>1, <2>6 DEF Reserved, By, HoldsReservation
  <2>8. \A x \in BudgetIds :
          budgets'[x].pre = budgets[x].pre + Reserved(reqs'[r], x) - Reserved(reqs[r], x)
    BY <1>2, <1>5, <1>7, <2>5, <2>7 DEF PreMoves
  <2> QED BY <1>1, <1>5, <1>6, <2>8, ReservationBalance
<1> QED BY <1>8, <1>9

\* The column reconciles after every step.
LEMMA PreStep ==
  ASSUME Orderly, ReservedInv, LedgerInv', StepKind
  PROVE  PreReconciles'
<1>0. LedgerInv /\ PreReconciles /\ ReferencesHold BY DEF ReservedInv
<1>1. ASSUME UNCHANGED reqs, PreKept, SameRows(budgets, budgets') PROVE PreReconciles'
  BY <1>0, <1>1, ReservationsUnchanged DEF PreKept, SameRows
<1>2. ASSUME NEW b \in BudgetIds, NewBudget(b) PROVE PreReconciles'
  BY <1>0, <1>2, NewBudgetReserves
<1>3. ASSUME NEW b \in BudgetIds, DropsBudget(b) PROVE PreReconciles'
  <2>1. UNCHANGED reqs /\ \A x \in BudgetIds : budgets'[x].row = "live" =>
          budgets[x].row = "live" /\ budgets'[x].pre = budgets[x].pre
    BY <1>3 DEF DropsBudget
  <2> QED BY <1>0, <2>1, ReservationsUnchanged
<1>4. CASE SetsBudgets
  BY <1>0, <1>4, ReservationsUnchanged DEF SetsBudgets, Orderly, PreKept, RowsKept
<1>5. ASSUME NEW r \in ReqIds, NEW b \in BudgetIds, NewReq(r, b) PROVE PreReconciles'
  <2>1. OnlyReq(r) /\ UNCHANGED budgets /\ \A x \in BudgetIds :
          Reserved(reqs'[r], x) = 0 /\ Reserved(reqs[r], x) = 0
    BY <1>5 DEF NewReq, Reserved
  <2>2. \A x \in BudgetIds : budgets[x].pre \in Int BY <1>0 DEF LedgerInv, SoundTable, Budgets
  <2>3. \A x \in BudgetIds :
          budgets'[x].pre = budgets[x].pre + Reserved(reqs'[r], x) - Reserved(reqs[r], x)
    BY <2>1, <2>2
  <2> QED BY <1>0, <2>1, <2>3, ReservationBalance
<1>6. ASSUME NEW r \in ReqIds, EditsReq(r) PROVE PreReconciles'
  BY <1>6 DEF EditsReq, Orderly
<1>7. ASSUME NEW r \in ReqIds, Decided(r) PROVE PreReconciles' BY <1>7, DecisionReserves
<1>8. ASSUME NEW r \in ReqIds, DropsReq(r) PROVE PreReconciles' BY <1>8, DropReleases
<1>9. CASE Reads BY <1>1, <1>9, UnchangedKept DEF Reads
<1>10. ASSUME NEW p \in PoIds, NEW b, NEW r \in ReqIds \cup {None}, NEW v, Raises(p, b, r, v)
       PROVE  PreReconciles'
  BY <1>10, RaiseReleases
<1>11. ASSUME NEW p \in PoIds, NEW st, NEW v, NEW b, NEW r, Patches(p, st, v, b, r)
       PROVE  PreReconciles'
  BY <1>1, <1>11 DEF Patches
<1>12. ASSUME NEW p \in PoIds, DropsPo(p) PROVE PreReconciles' BY <1>1, <1>12 DEF DropsPo
<1>13. ASSUME NEW g \in GrnIds,
              \/ NewReceipt(g) \/ DropsReceipt(g)
              \/ \E po \in PoIds \cup {None} : PatchesReceipt(g, po)
       PROVE  PreReconciles'
  BY <1>0, <1>1, <1>13, ReceiptsKeepOrders
<1> QED
  BY <1>2, <1>3, <1>4, <1>5, <1>6, <1>7, <1>8, <1>9, <1>10, <1>11, <1>12, <1>13
  DEF StepKind

\* The order of a requisition's decisions after every step.
LEMMA OrderStep ==
  ASSUME Orderly, ReservedInv, StepKind
  PROVE  ReqOrder'
<1>0. LedgerInv /\ ReqOrder BY DEF ReservedInv
<1>1. CASE UNCHANGED reqs BY <1>0, <1>1 DEF ReqOrder
<1>2. ASSUME NEW r \in ReqIds, OnlyReq(r),
             reqs'[r].row = "live" =>
               /\ reqs'[r].committed => \/ /\ reqs'[r].desk = "none"
                                           /\ reqs'[r].status \in {"approved", "ordered"}
                                        \/ reqs'[r].desk = "approved"
               /\ reqs'[r].released => reqs'[r].committed
      PROVE  ReqOrder'
  BY <1>0, <1>2 DEF ReqOrder, OnlyReq
<1>3. ASSUME NEW r \in ReqIds, NEW b \in BudgetIds, NewReq(r, b) PROVE ReqOrder'
  BY <1>2, <1>3 DEF NewReq
<1>4. ASSUME NEW r \in ReqIds, EditsReq(r) PROVE ReqOrder'
  BY <1>4 DEF EditsReq, Orderly
<1>5. ASSUME NEW r \in ReqIds, Decided(r) PROVE ReqOrder'
  <2>1. ~reqs[r].committed /\ ~reqs[r].released BY <1>5, DecidedIsFree
  <2>2. OnlyReq(r) /\ ~reqs'[r].released /\ (TierMove(r) \/ DeskMove(r))
    BY <1>5, <2>1 DEF Decided, SameCharge
  <2>3. reqs'[r].committed => \/ reqs'[r].desk = "none" /\ reqs'[r].status = "approved"
                              \/ reqs'[r].desk = "approved"
    BY <2>1, <2>2 DEF TierMove, DeskMove, Orderly
  <2> QED BY <1>2, <2>2, <2>3
<1>6. ASSUME NEW r \in ReqIds, DropsReq(r) PROVE ReqOrder'
  BY <1>2, <1>6 DEF DropsReq
<1>7. ASSUME NEW p \in PoIds, NEW b, NEW r \in ReqIds \cup {None}, NEW v, Raises(p, b, r, v)
      PROVE  ReqOrder'
  <2>1. OrderedReq(b, r, v) /\ r \in Live(reqs) \cup {None} BY <1>7 DEF Raises
  <2>2. CASE r \notin ReqIds
    <3>1. \A x \in ReqIds : reqs'[x] = reqs[x] BY <2>1, <2>2 DEF OrderedReq, OnlyReq
    <3> QED BY <1>0, <3>1 DEF ReqOrder
  <2>3. CASE r \in ReqIds
    <3>1. reqs[r].row = "live"
      BY <1>0, <2>1, <2>3, LiveRows, LedgerAssumption DEF LedgerAssumption
    <3>2. /\ reqs[r].committed => reqs[r].desk \in {"none", "approved"}
          /\ reqs[r].released => reqs[r].committed
      BY <1>0, <2>3, <3>1 DEF ReqOrder
    <3>3. /\ OnlyReq(r) /\ reqs'[r].desk = reqs[r].desk
          /\ reqs'[r].committed = reqs[r].committed /\ reqs'[r].status = "ordered"
          /\ reqs'[r].released = (reqs[r].released \/ Liquidates(b, r, v))
      BY <2>1, <2>3 DEF OrderedReq
    <3>4. Liquidates(b, r, v) => reqs[r].committed BY DEF Liquidates, HoldsReservation
    <3>5. reqs'[r].released => reqs'[r].committed BY <3>2, <3>3, <3>4
    <3> QED BY <1>2, <2>3, <3>2, <3>3, <3>5
  <2> QED BY <2>2, <2>3
<1>8. ASSUME NEW g \in GrnIds,
             \/ NewReceipt(g) \/ DropsReceipt(g)
             \/ \E po \in PoIds \cup {None} : PatchesReceipt(g, po)
      PROVE  ReqOrder'
  BY <1>0, <1>1, <1>8, ReceiptsKeepOrders
<1> QED
  BY <1>1, <1>3, <1>4, <1>5, <1>6, <1>7, <1>8
  DEF StepKind, NewBudget, DropsBudget, SetsBudgets, Reads, Patches, DropsPo

\* What DeleteRequisition read is still so after every step.
LEMMA FreshStep ==
  ASSUME Orderly, ReservedInv, LedgerInv', StepKind
  PROVE  DeleteFresh'
<1>0. LedgerInv /\ DeleteFresh BY DEF ReservedInv
<1>1. CASE UNCHANGED <<reqs, tx>> BY <1>0, <1>1 DEF DeleteFresh, Live
<1>2. CASE tx' = Idle BY <1>2 DEF DeleteFresh, Idle
<1>3. ASSUME NEW r \in ReqIds, NEW b \in BudgetIds, NewReq(r, b) PROVE DeleteFresh'
  <2>1. tx' = tx /\ reqs[r].row = "free" /\ OnlyReq(r) BY <1>3 DEF NewReq
  <2>2. SUFFICES ASSUME tx.op = "DeleteRequisition" PROVE DeleteFresh' BY <2>1 DEF DeleteFresh
  <2>3. tx.req \in ReqIds /\ reqs[tx.req].row = "live"
    BY <1>0, <2>2, LiveRows DEF DeleteFresh
  <2>4. reqs'[tx.req] = reqs[tx.req] BY <2>1, <2>3 DEF OnlyReq
  <2>5. tx.req \in Live(reqs') BY <2>3, <2>4 DEF LedgerInv, TypedReqs, Live
  <2> QED BY <1>0, <2>1, <2>2, <2>4, <2>5 DEF DeleteFresh
<1>4. ASSUME NEW r \in ReqIds, EditsReq(r) PROVE DeleteFresh'
  BY <1>4 DEF EditsReq, Orderly
<1>5. ASSUME NEW r \in ReqIds, Decided(r) PROVE DeleteFresh'
  BY <1>2, <1>5, DecidedIsFree DEF Decided
<1>6. ASSUME NEW r \in ReqIds, DropsReq(r) PROVE DeleteFresh' BY <1>2, <1>6 DEF DropsReq
<1>7. ASSUME NEW p \in PoIds, NEW b, NEW r, NEW v, Raises(p, b, r, v) PROVE DeleteFresh'
  BY <1>2, <1>7 DEF Raises, Undisturbed, Orderly
<1>8. CASE Reads
  <2>1. CASE tx'.op = "DeleteRequisition"
    <3>1. /\ UNCHANGED reqs /\ tx'.req \in Live(reqs)
          /\ tx'.budget = reqs[tx'.req].budget /\ tx'.total = reqs[tx'.req].total
          /\ tx'.held = HoldsReservation(reqs[tx'.req])
      BY <1>8, <2>1 DEF Reads, Idle
    <3> QED BY <3>1 DEF DeleteFresh
  <2> QED BY <2>1 DEF DeleteFresh
<1>9. ASSUME NEW g \in GrnIds, NEW po, PatchesReceipt(g, po) PROVE DeleteFresh'
  BY <1>1, <1>9 DEF PatchesReceipt
<1> QED
  BY <1>1, <1>2, <1>3, <1>4, <1>5, <1>6, <1>7, <1>8, <1>9
  DEF StepKind, NewBudget, DropsBudget, SetsBudgets, Patches, DropsPo, NewReceipt, DropsReceipt

\* Every step keeps the reservations' invariant.
LEMMA ReservedStep ==
  ASSUME Orderly, ReservedInv, [Next]_vars
  PROVE  ReservedInv'
<1>0. LedgerInv /\ ReferencesHold BY DEF ReservedInv
<1>1. LedgerInv' BY <1>0, LedgerStep
<1>2. ReferencesHold' BY <1>0, ReferencesStep
<1>3. CASE Next
  BY <1>0, <1>1, <1>2, <1>3, StepKinds, PreStep, OrderStep, FreshStep DEF ReservedInv
<1>4. CASE UNCHANGED vars
  <2>1. PreReconciles' BY <1>4 DEF vars, ReservedInv, PreReconciles, OpenReservations, Live
  <2>2. ReqOrder' BY <1>4 DEF vars, ReservedInv, ReqOrder
  <2>3. DeleteFresh' BY <1>4 DEF vars, ReservedInv, DeleteFresh, Live
  <2> QED BY <1>1, <1>2, <2>1, <2>2, <2>3 DEF ReservedInv
<1> QED BY <1>3, <1>4

\* No row is live at the start.
LEMMA NothingLive ==
  ASSUME Init
  PROVE  /\ LedgerInv
         /\ Live(budgets) = {} /\ Live(reqs) = {} /\ Live(pos) = {} /\ Live(grns) = {}
<1>1. LedgerInv BY LedgerInit
<1> QED BY <1>1, LiveRows DEF Init, NoBudget, NoReq, NoPo, NoGrn

\* No live row of the ledger ever names a budget or a requisition that is
\* gone, whatever is edited, deleted or raced.
THEOREM ReferencesStand == Spec => []ReferencesHold
<1>1. Init => ReferencesHold BY NothingLive DEF ReferencesHold
<1>2. LedgerInv /\ ReferencesHold /\ [Next]_vars => ReferencesHold' BY ReferencesStep
<1> QED BY <1>1, <1>2, LedgerInvariant, PTL DEF Spec

\* pre_committed is exactly the sum of the reservations that are held.
THEOREM ReservationsReconcile == ASSUME Orderly PROVE Spec => []PreReconciles
<1>1. Init => ReservedInv
  <2> SUFFICES ASSUME Init PROVE ReservedInv OBVIOUS
  <2>1. LedgerInv /\ ReferencesHold /\ PreReconciles
    BY NothingLive DEF ReferencesHold, PreReconciles
  <2>2. ReqOrder BY DEF Init, NoReq, ReqOrder
  <2>3. DeleteFresh BY DEF Init, Idle, DeleteFresh
  <2> QED BY <2>1, <2>2, <2>3 DEF ReservedInv
<1>2. ReservedInv /\ [Next]_vars => ReservedInv' BY ReservedStep
<1>3. ReservedInv => PreReconciles BY DEF ReservedInv
<1> QED BY <1>1, <1>2, <1>3, PTL DEF Spec

-----------------------------------------------------------------------------
(* Encumbrances and spend.  They reconcile whatever happens to requisitions, *)
(* to periods and to the status of orders, and however transactions          *)
(* interleave, as long as an order keeps its budget and a receipt its order: *)
(* spend on every budget, encumbrances on every budget that no receipt of an *)
(* order without one and no lapse has set adrift.                            *)

\* The clients the encumbrances are proved for.
Disciplined == ~May("relinkOrder") /\ ~May("repointReceipt")

\* Spend s covers what orders have recognised, and is no more unless orders
\* with spend are deleted: their spend stays on the budget.
Covers(s, r) == s >= r /\ (s = r \/ May("deleteReceived"))

\* The two halves of SpentReconciles, of which the first is weaker then.
BudgetSpend == \A b \in Live(budgets) : Covers(budgets[b].spent, RecognizedSpend(b))
OrderSpend == \A p \in Live(pos) : pos[p].recognized = ReceiptsOf(p)

\* An encumbered order has a budget, and has not recognised more than it is
\* worth.
FirmOrder(q) == q.committed => q.budget # None /\ q.recognized <= q.total
OrdersFirm == \A p \in PoIds : pos[p].row = "live" => FirmOrder(pos[p])

\* A receipt names an order that was raised, and stores an amount only while
\* it is recognised.
Known(po) == po = None \/ (po \in PoIds /\ pos[po].row # "free")
ReceiptsKnown ==
    \A g \in GrnIds : grns[g].row = "live" =>
        Known(grns[g].po) /\ (grns[g].recognized \/ grns[g].amount = 0)

\* What the receipts' transactions have read is still so.
ReceiptFresh ==
    /\ tx.op = "CreateGrn" => Known(tx.po)
    /\ tx.op = "DeleteGrn" => /\ grns[tx.grn].row # "free"
                              /\ grns[tx.grn].row = "live" => grns[tx.grn].po = tx.po

FirmInv ==
    /\ LedgerInv /\ ReferencesHold
    /\ CommittedReconciles /\ BudgetSpend /\ OrderSpend
    /\ OrdersFirm /\ ReceiptsKnown /\ ReceiptFresh

\* What a row adds to a sum is an amount, and 0 or more.
LEMMA OrderAmount ==
  ASSUME NEW q \in Pos, q.recognized >= 0, NEW b
  PROVE  /\ Encumbered(q, b) \in Int /\ Recognized(q, b) \in Int
         /\ Recognized(q, b) >= 0
         /\ (q.row = "live" => FirmOrder(q)) => Encumbered(q, b) >= 0
  BY DEF Encumbered, Recognized, FirmOrder, Pos

\* What a receipt adds to its order's spend is one, too.
LEMMA ReceiptAmount ==
  ASSUME NEW q \in Grns, q.amount >= 0, NEW p
  PROVE  Received(q, p) \in Int /\ Received(q, p) >= 0
  BY DEF Received, Grns

\* A budget's columns hold at least the amounts of any one of its orders.
LEMMA OrderFits ==
  ASSUME FirmInv, NEW b \in Live(budgets), NEW p \in PoIds
  PROVE  /\ b \notin adrift => Encumbered(pos[p], b) <= budgets[b].committed
         /\ Recognized(pos[p], b) <= budgets[b].spent
<1> DEFINE f == [x \in PoIds |-> Encumbered(pos[x], b)]
           h == [x \in PoIds |-> Recognized(pos[x], b)]
<1>1. IsFiniteSet(PoIds) BY LedgerAssumption DEF LedgerAssumption
<1>2. \A x \in PoIds : /\ Encumbered(pos[x], b) \in Int /\ Encumbered(pos[x], b) >= 0
                       /\ Recognized(pos[x], b) \in Int /\ Recognized(pos[x], b) >= 0
  BY OrderAmount DEF FirmInv, LedgerInv, TypedPos, OrdersFirm
<1>3. /\ f \in [PoIds -> Int] /\ \A x \in PoIds : f[x] >= 0
      /\ h \in [PoIds -> Int] /\ \A x \in PoIds : h[x] >= 0
  BY <1>2
<1>4. /\ b \notin adrift => budgets[b].committed = SumOver(f)
      /\ budgets[b].spent >= SumOver(h)
  BY DEF FirmInv, CommittedReconciles, BudgetSpend, Covers, OpenEncumbrances, RecognizedSpend
<1>5. f[p] = Encumbered(pos[p], b) /\ h[p] = Recognized(pos[p], b) OBVIOUS
<1> HIDE DEF f, h
<1>6. SumOver(f) \in Int /\ SumOver(f) >= f[p] BY <1>1, <1>3, SumAtLeast
<1>7. SumOver(h) \in Int /\ SumOver(h) >= h[p] BY <1>1, <1>3, SumAtLeast
<1>8. budgets[b].spent \in Int BY LiveRows DEF FirmInv, LedgerInv, SoundTable, Budgets
<1> QED BY <1>2, <1>4, <1>5, <1>6, <1>7, <1>8

\* An order has recognised at least the amount of any one of its receipts.
LEMMA ReceiptFits ==
  ASSUME FirmInv, NEW p \in Live(pos), NEW g \in GrnIds
  PROVE  Received(grns[g], p) <= pos[p].recognized
<1> DEFINE f == [x \in GrnIds |-> Received(grns[x], p)]
<1>1. IsFiniteSet(GrnIds) BY LedgerAssumption DEF LedgerAssumption
<1>2. \A x \in GrnIds : Received(grns[x], p) \in Int /\ Received(grns[x], p) >= 0
  BY ReceiptAmount DEF FirmInv, LedgerInv, TypedGrns
<1>3. f \in [GrnIds -> Int] /\ \A x \in GrnIds : f[x] >= 0 BY <1>2
<1>4. pos[p].recognized = SumOver(f) BY DEF FirmInv, OrderSpend, ReceiptsOf
<1>5. f[g] = Received(grns[g], p) OBVIOUS
<1> HIDE DEF f
<1>6. SumOver(f) \in Int /\ SumOver(f) >= f[g] BY <1>1, <1>3, SumAtLeast
<1> QED BY <1>2, <1>4, <1>5, <1>6

\* The sums of two tables of orders that differ in one row.
LEMMA OrderSums ==
  ASSUME LedgerInv, LedgerInv', NEW p \in PoIds, OnlyPo(p), NEW b
  PROVE  /\ OpenEncumbrances(b) \in Int /\ RecognizedSpend(b) \in Int
         /\ OpenEncumbrances(b)' =
              OpenEncumbrances(b) + Encumbered(pos'[p], b) - Encumbered(pos[p], b)
         /\ RecognizedSpend(b)' =
              RecognizedSpend(b) + Recognized(pos'[p], b) - Recognized(pos[p], b)
<1> DEFINE e == [x \in PoIds |-> Encumbered(pos[x], b)]
           f == [x \in PoIds |-> Encumbered(pos'[x], b)]
           h == [x \in PoIds |-> Recognized(pos[x], b)]
           k == [x \in PoIds |-> Recognized(pos'[x], b)]
<1>1. IsFiniteSet(PoIds) BY LedgerAssumption DEF LedgerAssumption
<1>2. \A x \in PoIds : Encumbered(pos[x], b) \in Int /\ Recognized(pos[x], b) \in Int
  BY OrderAmount DEF LedgerInv, TypedPos
<1>3. \A x \in PoIds : Encumbered(pos'[x], b) \in Int /\ Recognized(pos'[x], b) \in Int
  BY OrderAmount DEF LedgerInv, TypedPos
<1>4. /\ e \in [PoIds -> Int] /\ f \in [PoIds -> Int]
      /\ h \in [PoIds -> Int] /\ k \in [PoIds -> Int]
      /\ \A x \in PoIds : x # p => e[x] = f[x] /\ h[x] = k[x]
  BY <1>2, <1>3 DEF OnlyPo
<1>5. /\ e[p] = Encumbered(pos[p], b) /\ f[p] = Encumbered(pos'[p], b)
      /\ h[p] = Recognized(pos[p], b) /\ k[p] = Recognized(pos'[p], b)
  OBVIOUS
<1>6. /\ OpenEncumbrances(b) = SumOver(e) /\ OpenEncumbrances(b)' = SumOver(f)
      /\ RecognizedSpend(b) = SumOver(h) /\ RecognizedSpend(b)' = SumOver(k)
  BY DEF OpenEncumbrances, RecognizedSpend
<1> HIDE DEF e, f, h, k
<1>7. SumOver(e) \in Int /\ SumOver(f) = SumOver(e) + f[p] - e[p]
  BY <1>1, <1>4, SumPoint
<1>8. SumOver(h) \in Int /\ SumOver(k) = SumOver(h) + k[p] - h[p]
  BY <1>1, <1>4, SumPoint
<1> QED BY <1>5, <1>6, <1>7, <1>8

\* A step that changes one order, and the columns by as much.
LEMMA OrderBalance ==
  ASSUME LedgerInv, LedgerInv', CommittedReconciles, BudgetSpend, adrift \subseteq adrift',
         NEW p \in PoIds, OnlyPo(p),
         \A b \in BudgetIds : budgets'[b].row = "live" =>
            /\ budgets[b].row = "live"
            /\ b \notin adrift' =>
                 budgets'[b].committed =
                   budgets[b].committed + Encumbered(pos'[p], b) - Encumbered(pos[p], b)
            /\ Covers(budgets'[b].spent,
                      budgets[b].spent + Recognized(pos'[p], b) - Recognized(pos[p], b))
  PROVE  CommittedReconciles' /\ BudgetSpend'
<1>1. SUFFICES ASSUME NEW b \in BudgetIds, budgets'[b].row = "live"
               PROVE  /\ b \notin adrift' => budgets'[b].committed = OpenEncumbrances(b)'
                      /\ Covers(budgets'[b].spent, RecognizedSpend(b)')
  BY DEF CommittedReconciles, BudgetSpend, Live, LedgerInv, SoundTable
<1>2. b \in Live(budgets) BY <1>1, LiveRows
<1>3. /\ b \notin adrift' => budgets[b].committed = OpenEncumbrances(b)
      /\ Covers(budgets[b].spent, RecognizedSpend(b))
  BY <1>2 DEF CommittedReconciles, BudgetSpend
<1>4. /\ OpenEncumbrances(b)' =
              OpenEncumbrances(b) + Encumbered(pos'[p], b) - Encumbered(pos[p], b)
      /\ RecognizedSpend(b)' =
              RecognizedSpend(b) + Recognized(pos'[p], b) - Recognized(pos[p], b)
      /\ RecognizedSpend(b) \in Int
  BY OrderSums
<1>5. /\ Recognized(pos[p], b) \in Int /\ Recognized(pos'[p], b) \in Int
      /\ budgets[b].spent \in Int /\ budgets'[b].spent \in Int
  BY OrderAmount DEF LedgerInv, TypedPos, SoundTable, Budgets
<1> QED BY <1>1, <1>3, <1>4, <1>5 DEF Covers

\* A step that changes no order and no column.
LEMMA OrdersUnchanged ==
  ASSUME LedgerInv, LedgerInv', CommittedReconciles, BudgetSpend, UNCHANGED pos,
         adrift \subseteq adrift',
         \A b \in BudgetIds : budgets'[b].row = "live" =>
            /\ budgets[b].row = "live" /\ budgets'[b].spent = budgets[b].spent
            /\ b \notin adrift' => budgets'[b].committed = budgets[b].committed
  PROVE  CommittedReconciles' /\ BudgetSpend'
<1>1. SUFFICES ASSUME NEW b \in BudgetIds, budgets'[b].row = "live"
               PROVE  /\ b \notin adrift' => budgets'[b].committed = OpenEncumbrances(b)'
                      /\ Covers(budgets'[b].spent, RecognizedSpend(b)')
  BY DEF CommittedReconciles, BudgetSpend, Live, LedgerInv, SoundTable
<1>2. OpenEncumbrances(b)' = OpenEncumbrances(b) /\ RecognizedSpend(b)' = RecognizedSpend(b)
  BY DEF OpenEncumbrances, RecognizedSpend
<1> QED BY <1>1, <1>2, LiveRows DEF CommittedReconciles, BudgetSpend

\* A new budget has no orders.
LEMMA NewBudgetHolds ==
  ASSUME LedgerInv, LedgerInv', ReferencesHold, CommittedReconciles, BudgetSpend,
         adrift \subseteq adrift', NEW n \in BudgetIds, NewBudget(n)
  PROVE  CommittedReconciles' /\ BudgetSpend'
<1>1. SUFFICES ASSUME NEW b \in BudgetIds, budgets'[b].row = "live"
               PROVE  /\ b \notin adrift' => budgets'[b].committed = OpenEncumbrances(b)'
                      /\ Covers(budgets'[b].spent, RecognizedSpend(b)')
  BY DEF CommittedReconciles, BudgetSpend, Live, LedgerInv, SoundTable
<1>2. OpenEncumbrances(b)' = OpenEncumbrances(b) /\ RecognizedSpend(b)' = RecognizedSpend(b)
  BY DEF OpenEncumbrances, RecognizedSpend, NewBudget
<1>3. CASE b # n
  BY <1>1, <1>2, <1>3, LiveRows DEF CommittedReconciles, BudgetSpend, NewBudget
<1>4. CASE b = n
  <2> DEFINE e == [x \in PoIds |-> Encumbered(pos[x], b)]
             h == [x \in PoIds |-> Recognized(pos[x], b)]
  <2>1. IsFiniteSet(PoIds) BY LedgerAssumption DEF LedgerAssumption
  <2>2. b # None BY LedgerAssumption DEF LedgerAssumption
  <2>3. ASSUME NEW x \in PoIds PROVE Encumbered(pos[x], b) = 0 /\ Recognized(pos[x], b) = 0
    <3>1. pos[x].row = "live" => pos[x].budget # b
      BY <1>4, <2>2, LiveRows DEF ReferencesHold, NewBudget
    <3> QED BY <3>1 DEF Encumbered, Recognized
  <2>4. /\ e \in [PoIds -> Int] /\ \A x \in PoIds : e[x] = 0
        /\ h \in [PoIds -> Int] /\ \A x \in PoIds : h[x] = 0
    BY <2>3
  <2>5. OpenEncumbrances(b) = SumOver(e) /\ RecognizedSpend(b) = SumOver(h)
    BY DEF OpenEncumbrances, RecognizedSpend
  <2> HIDE DEF e, h
  <2>6. SumOver(e) = 0 /\ SumOver(h) = 0 BY <2>1, <2>4, SumZero
  <2> QED BY <1>2, <1>4, <2>5, <2>6 DEF NewBudget, Covers
<1> QED BY <1>3, <1>4

\* The sums of two tables of receipts that differ in one row.
LEMMA ReceiptSums ==
  ASSUME LedgerInv, LedgerInv', NEW g \in GrnIds, OnlyGrn(g), NEW p
  PROVE  /\ ReceiptsOf(p) \in Int
         /\ ReceiptsOf(p)' = ReceiptsOf(p) + Received(grns'[g], p) - Received(grns[g], p)
<1> DEFINE f == [x \in GrnIds |-> Received(grns[x], p)]
           h == [x \in GrnIds |-> Received(grns'[x], p)]
<1>1. IsFiniteSet(GrnIds) BY LedgerAssumption DEF LedgerAssumption
<1>2. \A x \in GrnIds : Received(grns[x], p) \in Int
  BY ReceiptAmount DEF LedgerInv, TypedGrns
<1>3. \A x \in GrnIds : Received(grns'[x], p) \in Int
  BY ReceiptAmount DEF LedgerInv, TypedGrns
<1>4. /\ f \in [GrnIds -> Int] /\ h \in [GrnIds -> Int]
      /\ \A x \in GrnIds : x # g => f[x] = h[x]
  BY <1>2, <1>3 DEF OnlyGrn
<1>5. f[g] = Received(grns[g], p) /\ h[g] = Received(grns'[g], p) OBVIOUS
<1>6. ReceiptsOf(p) = SumOver(f) /\ ReceiptsOf(p)' = SumOver(h) BY DEF ReceiptsOf
<1> HIDE DEF f, h
<1>7. SumOver(f) \in Int /\ SumOver(h) = SumOver(f) + h[g] - f[g]
  BY <1>1, <1>4, SumPoint
<1> QED BY <1>5, <1>6, <1>7

\* An order that has just been raised has no receipts.
LEMMA NewOrderReceives ==
  ASSUME LedgerInv, ReceiptsKnown, NEW p \in PoIds, pos[p].row = "free"
  PROVE  ReceiptsOf(p) = 0
<1> DEFINE f == [x \in GrnIds |-> Received(grns[x], p)]
<1>1. IsFiniteSet(GrnIds) BY LedgerAssumption DEF LedgerAssumption
<1>2. p # None BY LedgerAssumption DEF LedgerAssumption
<1>3. \A x \in GrnIds : Received(grns[x], p) = 0
  BY <1>2 DEF ReceiptsKnown, Known, Received
<1>4. f \in [GrnIds -> Int] /\ \A x \in GrnIds : f[x] = 0 BY <1>3
<1>5. ReceiptsOf(p) = SumOver(f) BY DEF ReceiptsOf
<1> HIDE DEF f
<1> QED BY <1>1, <1>4, <1>5, SumZero

\* What a move may add to a budget's firm stages.
Allowed(b, c, s) ==
    c + s > 0 /\ b \in Live(budgets) =>
        budgets[b].committed + budgets[b].spent + (c + s) <= budgets[b].allocated

\* A step that changes one order p, and moves s on budget b by what the order
\* adds to that budget's spend; a deleted order leaves its spend.  Unless b is
\* adrift, it moves c by what the order adds to the encumbrances as well.
FirmStep(p, b, c, s) ==
    /\ OnlyPo(p) /\ SameRows(budgets, budgets') /\ FloorMoves(budgets, budgets', b, s)
    /\ b \notin adrift' => FirmMoves(budgets, budgets', b, c, s) /\ Allowed(b, c, s)
    /\ \A x \in BudgetIds : budgets[x].row = "live" =>
         /\ x \notin adrift' =>
              Encumbered(pos'[p], x) = Encumbered(pos[p], x) + By(budgets, x, b, c)
         /\ Covers(Recognized(pos[p], x) + By(budgets, x, b, s), Recognized(pos'[p], x))
    /\ pos'[p].row = "live" => FirmOrder(pos'[p])

\* Such a step keeps what the columns are proved to be.
LEMMA FirmStepKeeps ==
  ASSUME FirmInv, LedgerInv', adrift \subseteq adrift',
         NEW p \in PoIds, NEW b, NEW c \in Int, NEW s \in Int, FirmStep(p, b, c, s)
  PROVE  /\ CommittedReconciles' /\ BudgetSpend' /\ OrdersFirm'
         /\ HardCeiling => HardCeiling'
<1>0. LedgerInv /\ CommittedReconciles /\ BudgetSpend /\ OrdersFirm BY DEF FirmInv
<1>1. \A x \in BudgetIds : /\ budgets[x].committed \in Int /\ budgets[x].spent \in Int
                           /\ budgets[x].allocated \in Int
  BY <1>0 DEF LedgerInv, SoundTable, Budgets
<1>2. \A x \in BudgetIds : By(budgets, x, b, c) \in Int /\ By(budgets, x, b, s) \in Int
  BY DEF By
<1>3. \A x \in BudgetIds : Encumbered(pos[p], x) \in Int /\ Recognized(pos[p], x) \in Int
  BY <1>0, OrderAmount DEF LedgerInv, TypedPos
<1>4. OnlyPo(p) BY DEF FirmStep
<1>a. ASSUME NEW x \in BudgetIds, budgets'[x].row = "live"
      PROVE  /\ budgets[x].row = "live" /\ budgets'[x].allocated = budgets[x].allocated
             /\ x \notin adrift' =>
                  budgets'[x].committed = budgets[x].committed + By(budgets, x, b, c)
             /\ budgets'[x].spent = budgets[x].spent + By(budgets, x, b, s)
  <2>1. /\ budgets[x].row = "live" /\ budgets'[x].allocated = budgets[x].allocated
        /\ x # b => budgets'[x].committed = budgets[x].committed
        /\ budgets'[x].spent = budgets[x].spent + By(budgets, x, b, s)
    BY <1>a DEF FirmStep, FloorMoves, SameRows
  <2>2. x # b => By(budgets, x, b, c) = 0 BY DEF By
  <2>3. b \notin adrift' => budgets'[x].committed = budgets[x].committed + By(budgets, x, b, c)
    BY DEF FirmStep, FirmMoves
  <2> QED BY <1>1, <2>1, <2>2, <2>3
<1>5. \A x \in BudgetIds : budgets'[x].row = "live" =>
        /\ budgets[x].row = "live"
        /\ x \notin adrift' =>
             budgets'[x].committed =
               budgets[x].committed + Encumbered(pos'[p], x) - Encumbered(pos[p], x)
        /\ Covers(budgets'[x].spent,
                  budgets[x].spent + Recognized(pos'[p], x) - Recognized(pos[p], x))
  <2> SUFFICES ASSUME NEW x \in BudgetIds, budgets'[x].row = "live"
               PROVE  /\ budgets[x].row = "live"
                      /\ x \notin adrift' =>
                           budgets'[x].committed =
                             budgets[x].committed + Encumbered(pos'[p], x) - Encumbered(pos[p], x)
                      /\ Covers(budgets'[x].spent,
                           budgets[x].spent + Recognized(pos'[p], x) - Recognized(pos[p], x))
    OBVIOUS
  <2>1. /\ budgets[x].row = "live"
        /\ x \notin adrift' =>
             budgets'[x].committed = budgets[x].committed + By(budgets, x, b, c)
        /\ budgets'[x].spent = budgets[x].spent + By(budgets, x, b, s)
    BY <1>a
  <2>2. /\ x \notin adrift' =>
             Encumbered(pos'[p], x) = Encumbered(pos[p], x) + By(budgets, x, b, c)
        /\ Covers(Recognized(pos[p], x) + By(budgets, x, b, s), Recognized(pos'[p], x))
    BY <2>1 DEF FirmStep
  <2>3. Recognized(pos'[p], x) \in Int BY OrderAmount DEF LedgerInv, TypedPos
  <2> QED BY <1>1, <1>2, <1>3, <2>1, <2>2, <2>3 DEF Covers
<1>6. CommittedReconciles' /\ BudgetSpend' BY <1>0, <1>4, <1>5, OrderBalance
<1>7. OrdersFirm' BY <1>0 DEF FirmStep, OnlyPo, OrdersFirm
<1>8. ASSUME HardCeiling PROVE HardCeiling'
  <2>1. SUFFICES ASSUME NEW x \in BudgetIds, budgets'[x].row = "live", x \notin adrift'
                 PROVE  budgets'[x].committed + budgets'[x].spent <= budgets'[x].allocated
    BY DEF HardCeiling, Live, LedgerInv, SoundTable
  <2>2. /\ budgets[x].row = "live" /\ budgets'[x].allocated = budgets[x].allocated
        /\ budgets'[x].committed = budgets[x].committed + By(budgets, x, b, c)
        /\ budgets'[x].spent = budgets[x].spent + By(budgets, x, b, s)
    BY <1>a, <2>1
  <2>3. x \in Live(budgets) /\ x \notin adrift BY <1>0, <2>1, <2>2, LiveRows
  <2>4. budgets[x].committed + budgets[x].spent <= budgets[x].allocated
    BY <1>8, <2>3 DEF HardCeiling
  <2>5. CASE x = b
    <3>1. By(budgets, x, b, c) = c /\ By(budgets, x, b, s) = s BY <2>2, <2>5 DEF By
    <3>2. c + s > 0 =>
            budgets[x].committed + budgets[x].spent + (c + s) <= budgets[x].allocated
      BY <2>1, <2>3, <2>5 DEF FirmStep, Allowed
    <3> QED BY <1>1, <2>2, <2>4, <3>1, <3>2
  <2>6. CASE x # b
    <3>1. By(budgets, x, b, c) = 0 /\ By(budgets, x, b, s) = 0 BY <2>6 DEF By
    <3> QED BY <1>1, <2>2, <2>4, <3>1
  <2> QED BY <2>5, <2>6
<1> QED BY <1>6, <1>7, <1>8

\* A step that leaves the stages alone moves nothing on any budget.
LEMMA KeptMoves ==
  ASSUME LedgerInv, FirmKept, NEW b
  PROVE  FirmMoves(budgets, budgets', b, 0, 0)
<1>1. \A x \in BudgetIds : budgets[x].committed \in Int /\ budgets[x].spent \in Int
  BY DEF LedgerInv, SoundTable, Budgets
<1>2. \A x : By(budgets, x, b, 0) = 0 BY DEF By
<1> QED BY <1>1, <1>2 DEF FirmKept, FirmMoves

\* An exact move is one that GREATEST did not cut short.
LEMMA FirmIsFloor ==
  ASSUME LedgerInv, NEW b, NEW c \in Int, NEW s \in Int, FirmMoves(budgets, budgets', b, c, s)
  PROVE  FloorMoves(budgets, budgets', b, s)
<1>1. \A x \in BudgetIds : budgets[x].committed \in Int
  BY DEF LedgerInv, SoundTable, Budgets
<1>2. \A x : x # b => By(budgets, x, b, c) = 0 BY DEF By
<1> QED BY <1>1, <1>2 DEF FirmMoves, FloorMoves

\* Raising an order encumbers its value, within the ceiling.
LEMMA RaiseFirm ==
  ASSUME FirmInv, NEW p \in PoIds, NEW b \in BudgetIds \cup {None}, NEW r,
         NEW v \in OrderValues, Raises(p, b, r, v)
  PROVE  FirmStep(p, b, IF Encumbers(b, v) THEN v ELSE 0, 0)
<1> DEFINE c == IF Encumbers(b, v) THEN v ELSE 0
<1>0. LedgerInv /\ v \in Int /\ c \in Int
  BY LedgerAssumption DEF LedgerAssumption, FirmInv
<1>1. /\ pos[p].row = "free" /\ OnlyPo(p) /\ pos'[p].row = "live" /\ pos'[p].budget = b
      /\ pos'[p].total = v /\ pos'[p].recognized = 0 /\ pos'[p].committed = Encumbers(b, v)
      /\ SameRows(budgets, budgets') /\ FirmMoves(budgets, budgets', b, c, 0)
  BY DEF Raises, RaisedPo
<1>2. \A x \in BudgetIds : x # None BY LedgerAssumption DEF LedgerAssumption
<1>3. \A x \in BudgetIds : Encumbered(pos[p], x) = 0 /\ Recognized(pos[p], x) = 0
  BY <1>1 DEF Encumbered, Recognized
<1>4. \A x \in BudgetIds : budgets[x].row = "live" =>
        /\ Encumbered(pos'[p], x) = By(budgets, x, b, c)
        /\ Recognized(pos'[p], x) = 0 /\ By(budgets, x, b, 0) = 0
  BY <1>0, <1>1, <1>2 DEF Encumbered, Recognized, By
<1>5. FirmOrder(pos'[p])
  <2>1. pos'[p].committed <=> b # None /\ v > 0 BY <1>1, Zenon DEF Encumbers
  <2> HIDE DEF c
  <2> QED BY <1>0, <1>1, <2>1 DEF FirmOrder
<1>6. Allowed(b, c, 0)
  <2>1. SUFFICES ASSUME b \in Live(budgets), Encumbers(b, v)
                 PROVE  budgets[b].committed + budgets[b].spent + (v + 0) <= budgets[b].allocated
    BY <1>0 DEF Allowed
  <2>2. budgets[b].committed + v + budgets[b].spent <= budgets[b].allocated
    BY <2>1 DEF Raises
  <2>3. budgets[b].committed \in Int /\ budgets[b].spent \in Int /\ budgets[b].allocated \in Int
    BY <1>0, <2>1, LiveRows DEF LedgerInv, SoundTable, Budgets
  <2> QED BY <1>0, <2>2, <2>3
<1>7. \A x \in BudgetIds : By(budgets, x, b, c) \in Int BY <1>0 DEF By
<1>8. \A x \in BudgetIds : budgets[x].row = "live" =>
        /\ Encumbered(pos'[p], x) = Encumbered(pos[p], x) + By(budgets, x, b, c)
        /\ Covers(Recognized(pos[p], x) + By(budgets, x, b, 0), Recognized(pos'[p], x))
  BY <1>3, <1>4, <1>7 DEF Covers
<1> HIDE DEF c
<1>9. FloorMoves(budgets, budgets', b, 0) BY <1>0, <1>1, 0 \in Int, FirmIsFloor
<1>10. FirmStep(p, b, c, 0) BY <1>1, <1>5, <1>6, <1>8, <1>9 DEF FirmStep
<1> QED BY <1>10 DEF c

\* How far an order is encumbered.
LEMMA OpenOrder ==
  ASSUME FirmInv, NEW p \in PoIds, pos[p].row = "live"
  PROVE  /\ pos[p] \in Pos /\ pos[p].recognized \in Int /\ pos[p].recognized >= 0
         /\ pos[p].total \in Int /\ FirmOrder(pos[p])
         /\ pos[p].budget \in BudgetIds \cup {None}
         /\ pos[p].budget # None =>
              /\ pos[p].budget \in Live(budgets)
              /\ pos[p].committed /\ pos[p].budget \notin adrift =>
                   OpenAmount(pos[p]) <= budgets[pos[p].budget].committed
              /\ pos[p].recognized <= budgets[pos[p].budget].spent
         /\ OpenAmount(pos[p]) \in Int
<1>1. /\ pos[p] \in Pos /\ pos[p].recognized \in Int /\ pos[p].recognized >= 0
      /\ pos[p].total \in Int /\ FirmOrder(pos[p]) /\ OpenAmount(pos[p]) \in Int
      /\ pos[p].budget \in BudgetIds \cup {None}
  BY DEF FirmInv, LedgerInv, TypedPos, OrdersFirm, Pos, OpenAmount
<1>2. ASSUME pos[p].budget # None
      PROVE  /\ pos[p].budget \in Live(budgets)
             /\ pos[p].committed /\ pos[p].budget \notin adrift =>
                  OpenAmount(pos[p]) <= budgets[pos[p].budget].committed
             /\ pos[p].recognized <= budgets[pos[p].budget].spent
  <2>1. pos[p].budget \in Live(budgets)
    BY <1>2, LiveRows DEF FirmInv, ReferencesHold
  <2>2. /\ pos[p].budget \notin adrift =>
             Encumbered(pos[p], pos[p].budget) <= budgets[pos[p].budget].committed
        /\ Recognized(pos[p], pos[p].budget) <= budgets[pos[p].budget].spent
    BY <2>1, OrderFits
  <2> QED BY <2>1, <2>2 DEF Encumbered, Recognized, OpenAmount
<1> QED BY <1>1, <1>2

\* A PATCH of an order releases its open amount when it voids the order, and
\* moves the difference, within the ceiling, when it changes the value.
LEMMA PatchFirm ==
  ASSUME Disciplined, FirmInv, adrift \subseteq adrift',
         NEW p \in PoIds, NEW st, NEW v \in Int, NEW b, NEW r, Patches(p, st, v, b, r)
  PROVE  \E c \in Int : FirmStep(p, pos[p].budget, c, 0)
<1> DEFINE bid == pos[p].budget
           total == pos[p].total
           open == OpenAmount(pos[p])
<1>0. LedgerInv /\ pos[p].row = "live" BY LiveRows DEF FirmInv, Patches
<1>1. /\ FirmOrder(pos[p]) /\ total \in Int /\ open \in Int
      /\ pos[p].recognized \in Int /\ pos[p].recognized >= 0
      /\ pos[p].committed \in BOOLEAN
      /\ bid # None => /\ bid \in Live(budgets)
                       /\ pos[p].committed /\ bid \notin adrift' =>
                            open <= budgets[bid].committed
  BY <1>0, OpenOrder DEF Pos
<1>2. /\ OnlyPo(p) /\ pos'[p].row = "live" /\ pos'[p].status = st /\ pos'[p].total = v
      /\ pos'[p].budget = bid /\ pos'[p].recognized = pos[p].recognized
      /\ SameRows(budgets, budgets')
  BY DEF Patches, PatchedTo, Disciplined
<1>3. \A x \in BudgetIds : /\ By(budgets, x, bid, 0) = 0
                           /\ Recognized(pos'[p], x) = Recognized(pos[p], x)
                           /\ Recognized(pos[p], x) \in Int
                           /\ Covers(Recognized(pos[p], x) + By(budgets, x, bid, 0),
                                     Recognized(pos'[p], x))
  BY <1>0, <1>1, <1>2 DEF Recognized, By, Covers
<1>4. open = total - pos[p].recognized BY DEF OpenAmount
<1>5. \A x \in BudgetIds : x # None /\ (budgets[x].row = "live" => x \in Live(budgets))
  BY <1>0, LiveRows, LedgerAssumption DEF LedgerAssumption
<1>6. CASE Voids(p, st)
  <2>1. /\ pos[p].committed /\ bid # None /\ st = "void" /\ pos'[p].committed = FALSE
        /\ Releases(p, open)
    BY <1>6 DEF Voids
  <2>2. open >= 0 BY <1>1, <1>4, <2>1 DEF FirmOrder
  <2>3. /\ FloorMoves(budgets, budgets', bid, 0)
        /\ bid \notin adrift' => FirmMoves(budgets, budgets', bid, -open, 0)
    <3>1. CASE open = 0
      <4>1. FirmKept BY <2>1, <3>1 DEF Releases
      <4>2. FirmMoves(budgets, budgets', bid, 0, 0) BY <1>0, <4>1, KeptMoves
      <4>3. FloorMoves(budgets, budgets', bid, 0) BY <1>0, <4>2, 0 \in Int, FirmIsFloor
      <4> QED BY <3>1, <4>2, <4>3
    <3>2. CASE open > 0 BY <1>1, <2>1, <3>2 DEF Releases
    <3> QED BY <1>1, <2>2, <3>1, <3>2
  <2>4. \A x \in BudgetIds : budgets[x].row = "live" =>
          Encumbered(pos'[p], x) = Encumbered(pos[p], x) + By(budgets, x, bid, -open)
    BY <1>0, <1>1, <1>2, <1>4, <2>1 DEF Encumbered, By
  <2>5. FirmOrder(pos'[p]) BY <1>2, <2>1 DEF FirmOrder
  <2>6. Allowed(bid, -open, 0) /\ -open \in Int BY <1>1, <2>2 DEF Allowed
  <2>7. FirmStep(p, bid, -open, 0) BY <1>2, <1>3, <2>3, <2>4, <2>5, <2>6 DEF FirmStep
  <2> QED BY <2>6, <2>7
<1>7. CASE Revalues(p, st, v)
  <2> DEFINE c == v - total
  <2>0. c \in Int BY <1>1
  <2>1. /\ pos[p].committed /\ bid # None /\ st # "void"
        /\ pos'[p].committed = pos[p].committed /\ v >= pos[p].recognized
        /\ v > total => WithinCeiling(budgets[bid], c)
        /\ FloorMoves(budgets, budgets', bid, 0)
        /\ budgets[bid].committed + c >= 0 => FirmMoves(budgets, budgets', bid, c, 0)
    BY <1>1, <1>7 DEF Revalues
  <2>2. /\ budgets[bid].committed \in Int /\ budgets[bid].spent \in Int
        /\ budgets[bid].allocated \in Int
    BY <1>0, <1>1, <2>1, LiveRows DEF LedgerInv, SoundTable, Budgets
  <2>3. bid \notin adrift' => budgets[bid].committed + c >= 0 BY <1>1, <1>4, <2>1, <2>2
  <2>4. \A x \in BudgetIds : budgets[x].row = "live" =>
          Encumbered(pos'[p], x) = Encumbered(pos[p], x) + By(budgets, x, bid, c)
    BY <1>0, <1>1, <1>2, <2>1 DEF Encumbered, By
  <2>5. FirmOrder(pos'[p]) BY <1>2, <2>1 DEF FirmOrder
  <2>6. Allowed(bid, c, 0) BY <1>1, <2>0, <2>1, <2>2 DEF Allowed, WithinCeiling
  <2> HIDE DEF c
  <2>7. FirmStep(p, bid, c, 0) BY <1>2, <1>3, <2>1, <2>3, <2>4, <2>5, <2>6 DEF FirmStep
  <2> QED BY <2>0, <2>7
<1>8. CASE KeepsEncumbrance(p, st, v)
  <2>1. /\ pos[p].committed /\ bid # None => st # "void" /\ v = total
        /\ pos'[p].committed = pos[p].committed
    BY <1>8 DEF KeepsEncumbrance
  <2>2. FirmMoves(budgets, budgets', bid, 0, 0) BY <1>0, <1>8, KeptMoves DEF KeepsEncumbrance
  <2>a. FloorMoves(budgets, budgets', bid, 0) BY <1>0, <2>2, 0 \in Int, FirmIsFloor
  <2>3. pos[p].committed => v = total BY <1>1, <2>1 DEF FirmOrder
  <2>4. \A x \in BudgetIds : budgets[x].row = "live" =>
          Encumbered(pos'[p], x) = Encumbered(pos[p], x) + By(budgets, x, bid, 0)
    BY <1>0, <1>1, <1>2, <1>3, <2>1, <2>3 DEF Encumbered
  <2>5. FirmOrder(pos'[p]) BY <1>1, <1>2, <2>1, <2>3 DEF FirmOrder
  <2>6. Allowed(bid, 0, 0) /\ 0 \in Int BY DEF Allowed
  <2>7. FirmStep(p, bid, 0, 0) BY <1>2, <1>3, <2>2, <2>a, <2>4, <2>5, <2>6 DEF FirmStep
  <2> QED BY <2>6, <2>7
<1> QED BY <1>6, <1>7, <1>8 DEF Patches

\* A delete of an order releases what it still held, and leaves its spend.
LEMMA DropFirm ==
  ASSUME FirmInv, adrift \subseteq adrift', NEW p \in PoIds, DropsPo(p)
  PROVE  \E c \in Int : FirmStep(p, pos[p].budget, c, 0)
<1> DEFINE bid == pos[p].budget
           open == OpenAmount(pos[p])
<1>0. LedgerInv /\ pos[p].row = "live" BY LiveRows DEF FirmInv, DropsPo
<1>1. /\ FirmOrder(pos[p]) /\ open \in Int /\ pos[p].total \in Int
      /\ pos[p].recognized \in Int /\ pos[p].recognized >= 0
      /\ bid # None => /\ bid \in Live(budgets)
                       /\ pos[p].committed /\ bid \notin adrift' =>
                            open <= budgets[bid].committed
  BY <1>0, OpenOrder
<1>2. /\ OnlyPo(p) /\ pos'[p].row = "gone"
      /\ May("deleteReceived") \/ pos[p].recognized = 0
      /\ SameRows(budgets, budgets')
      /\ \/ ~(pos[p].committed /\ bid # None) /\ FirmKept
         \/ pos[p].committed /\ bid # None /\ Releases(p, open)
  BY DEF DropsPo
<1>3. \A x \in BudgetIds : /\ By(budgets, x, bid, 0) = 0
                           /\ Encumbered(pos'[p], x) = 0
                           /\ Covers(Recognized(pos[p], x) + By(budgets, x, bid, 0),
                                     Recognized(pos'[p], x))
  BY <1>1, <1>2 DEF Recognized, Encumbered, By, Covers
<1>4. open = pos[p].total - pos[p].recognized BY DEF OpenAmount
<1>5. CASE ~(pos[p].committed /\ bid # None) /\ FirmKept
  <2>1. FirmMoves(budgets, budgets', bid, 0, 0) BY <1>0, <1>5, KeptMoves
  <2>a. FloorMoves(budgets, budgets', bid, 0) BY <1>0, <2>1, 0 \in Int, FirmIsFloor
  <2>2. \A x \in BudgetIds : Encumbered(pos[p], x) = 0
    BY <1>1, <1>5 DEF Encumbered, FirmOrder
  <2>3. Allowed(bid, 0, 0) /\ 0 \in Int BY DEF Allowed
  <2>4. FirmStep(p, bid, 0, 0) BY <1>2, <1>3, <2>1, <2>a, <2>2, <2>3 DEF FirmStep
  <2> QED BY <2>3, <2>4
<1>6. CASE pos[p].committed /\ bid # None /\ Releases(p, open)
  <2>1. open >= 0 BY <1>1, <1>4, <1>6 DEF FirmOrder
  <2>2. /\ FloorMoves(budgets, budgets', bid, 0)
        /\ bid \notin adrift' => FirmMoves(budgets, budgets', bid, -open, 0)
    <3>1. CASE open = 0
      <4>1. FirmKept BY <1>6, <3>1 DEF Releases
      <4>2. FirmMoves(budgets, budgets', bid, 0, 0) BY <1>0, <4>1, KeptMoves
      <4>3. FloorMoves(budgets, budgets', bid, 0) BY <1>0, <4>2, 0 \in Int, FirmIsFloor
      <4> QED BY <3>1, <4>2, <4>3
    <3>2. CASE open > 0 BY <1>1, <1>6, <3>2 DEF Releases
    <3> QED BY <1>1, <2>1, <3>1, <3>2
  <2>3. \A x \in BudgetIds : budgets[x].row = "live" =>
          0 = Encumbered(pos[p], x) + By(budgets, x, bid, -open)
    BY <1>0, <1>1, <1>4, <1>6 DEF Encumbered, By
  <2>4. Allowed(bid, -open, 0) /\ -open \in Int BY <1>1, <2>1 DEF Allowed
  <2>5. FirmStep(p, bid, -open, 0) BY <1>2, <1>3, <2>2, <2>3, <2>4 DEF FirmStep
  <2> QED BY <2>4, <2>5
<1> QED BY <1>2, <1>5, <1>6

\* Booking a receipt's value turns as much encumbrance into spend, if the order
\* has it; if not, the budget is adrift.
LEMMA BookFirm ==
  ASSUME FirmInv, NEW po, NEW a \in Int, Books(po, a),
         SameRows(budgets, budgets')
  PROVE  po \in PoIds /\ FirmStep(po, pos[po].budget, -a, a)
<1> DEFINE bid == pos[po].budget
           x0 == pos[po].recognized + a
<1>0. LedgerInv /\ po \in PoIds /\ pos[po].row = "live" BY LiveRows DEF FirmInv, Books
<1>1. /\ FirmOrder(pos[po]) /\ pos[po] \in Pos /\ pos[po].total \in Int
      /\ pos[po].recognized \in Int
      /\ bid # None => /\ bid \in Live(budgets)
                       /\ pos[po].committed /\ bid \notin adrift =>
                            OpenAmount(pos[po]) <= budgets[bid].committed
  BY <1>0, OpenOrder
<1>2. /\ OnlyPo(po) /\ a > 0 /\ a <= OpenAmount(pos[po])
      /\ pos'[po] = [pos[po] EXCEPT !.recognized = x0]
      /\ (bid \in Live(budgets) => a <= budgets[bid].committed)
           => FirmMoves(budgets, budgets', bid, -a, a)
      /\ FloorMoves(budgets, budgets', bid, a)
  BY DEF Books
<1>3. x0 \in Int /\ x0 <= pos[po].total BY <1>1, <1>2 DEF OpenAmount
<1> HIDE DEF x0
<1>4. /\ pos'[po].row = "live" /\ pos'[po].budget = bid
      /\ pos'[po].total = pos[po].total /\ pos'[po].committed = pos[po].committed
      /\ pos'[po].recognized = x0
  BY <1>0, <1>1, <1>2 DEF Pos
<1>5. bid \notin adrift' => pos[po].committed /\ bid \notin adrift BY DEF Books, Drifts
<1>6. \A x \in BudgetIds : x # None BY LedgerAssumption DEF LedgerAssumption
<1>7. bid \notin adrift' /\ bid \in Live(budgets) => a <= budgets[bid].committed
  <2>1. SUFFICES ASSUME bid \notin adrift', bid \in Live(budgets) PROVE a <= budgets[bid].committed OBVIOUS
  <2>2. bid \in BudgetIds BY <1>0, <2>1, LiveRows
  <2>3. OpenAmount(pos[po]) <= budgets[bid].committed BY <1>1, <1>5, <1>6, <2>1, <2>2
  <2>4. OpenAmount(pos[po]) \in Int /\ budgets[bid].committed \in Int
    BY <1>0, <1>1, <2>2 DEF OpenAmount, LedgerInv, SoundTable, Budgets
  <2> QED BY <1>2, <2>3, <2>4
<1>8. bid \notin adrift' => FirmMoves(budgets, budgets', bid, -a, a) BY <1>2, <1>7
<1>9. \A x \in BudgetIds : budgets[x].row = "live" =>
        /\ x \notin adrift' =>
             Encumbered(pos'[po], x) = Encumbered(pos[po], x) + By(budgets, x, bid, -a)
        /\ Covers(Recognized(pos[po], x) + By(budgets, x, bid, a), Recognized(pos'[po], x))
  <2>1. \A x \in BudgetIds : budgets[x].row = "live" =>
          /\ x \notin adrift' =>
               Encumbered(pos'[po], x) = Encumbered(pos[po], x) + By(budgets, x, bid, -a)
          /\ Recognized(pos'[po], x) = Recognized(pos[po], x) + By(budgets, x, bid, a)
    BY <1>0, <1>1, <1>4, <1>5, <1>6 DEF Encumbered, Recognized, By, x0
  <2>2. \A x \in BudgetIds : Recognized(pos'[po], x) \in Int
    BY <1>1, <1>3, <1>4 DEF Recognized, x0
  <2> QED BY <2>1, <2>2 DEF Covers
<1>10. FirmOrder(pos'[po])
  <2>1. pos'[po].committed <=> pos[po].committed BY <1>4
  <2>2. pos[po].committed => bid # None BY <1>1 DEF FirmOrder
  <2> QED BY <1>3, <1>4, <2>1, <2>2 DEF FirmOrder
<1>11. Allowed(bid, -a, a) BY DEF Allowed
<1>12. FirmStep(po, bid, -a, a)
  BY <1>2, <1>8, <1>9, <1>10, <1>11 DEF FirmStep
<1> QED BY <1>0, <1>12

\* Reversing what a receipt booked turns as much spend back.
LEMMA UnbookFirm ==
  ASSUME FirmInv, NEW po, NEW a \in Int, Unbooks(po, a),
         SameRows(budgets, budgets'), a <= pos[po].recognized
  PROVE  /\ po \in PoIds /\ FirmStep(po, pos[po].budget, a, -a)
         /\ pos'[po].recognized = pos[po].recognized - a
<1> DEFINE bid == pos[po].budget
           x0 == pos[po].recognized - a
<1>0. LedgerInv /\ po \in PoIds /\ pos[po].row = "live" BY LiveRows DEF FirmInv, Unbooks
<1>1. /\ FirmOrder(pos[po]) /\ pos[po] \in Pos /\ pos[po].total \in Int
      /\ pos[po].recognized \in Int
      /\ bid # None => bid \in Live(budgets) /\ pos[po].recognized <= budgets[bid].spent
  BY <1>0, OpenOrder
<1>2. x0 \in Int /\ x0 >= 0 /\ x0 <= pos[po].recognized BY <1>1 DEF Unbooks
<1>3. /\ OnlyPo(po) /\ a > 0
      /\ pos'[po] = [pos[po] EXCEPT !.recognized = x0]
      /\ (bid \in Live(budgets) => a <= budgets[bid].spent)
           => FirmMoves(budgets, budgets', bid, a, -a)
  <2>1. Floor0(x0) = x0 BY <1>2, FloorExact
  <2> QED BY <2>1 DEF Unbooks
<1> HIDE DEF x0
<1>4. /\ pos'[po].row = "live" /\ pos'[po].budget = bid
      /\ pos'[po].total = pos[po].total /\ pos'[po].committed = pos[po].committed
      /\ pos'[po].recognized = x0
  BY <1>0, <1>1, <1>3 DEF Pos
<1>5. bid \notin adrift' => pos[po].committed BY DEF Unbooks, Drifts
<1>6. \A x \in BudgetIds : x # None BY LedgerAssumption DEF LedgerAssumption
<1>7. bid \in Live(budgets) => a <= budgets[bid].spent
  <2>1. SUFFICES ASSUME bid \in Live(budgets) PROVE a <= budgets[bid].spent OBVIOUS
  <2>2. bid \in BudgetIds BY <1>0, <2>1, LiveRows
  <2>3. budgets[bid].spent \in Int BY <1>0, <2>2 DEF LedgerInv, SoundTable, Budgets
  <2> QED BY <1>1, <1>6, <2>2, <2>3
<1>8. FirmMoves(budgets, budgets', bid, a, -a) BY <1>3, <1>7
<1>a. FloorMoves(budgets, budgets', bid, -a) BY <1>0, <1>8, -a \in Int, FirmIsFloor
<1>9. \A x \in BudgetIds : budgets[x].row = "live" =>
        /\ x \notin adrift' =>
             Encumbered(pos'[po], x) = Encumbered(pos[po], x) + By(budgets, x, bid, a)
        /\ Covers(Recognized(pos[po], x) + By(budgets, x, bid, -a), Recognized(pos'[po], x))
  <2>1. \A x \in BudgetIds : budgets[x].row = "live" =>
          /\ x \notin adrift' =>
               Encumbered(pos'[po], x) = Encumbered(pos[po], x) + By(budgets, x, bid, a)
          /\ Recognized(pos'[po], x) = Recognized(pos[po], x) + By(budgets, x, bid, -a)
    BY <1>0, <1>1, <1>4, <1>5, <1>6 DEF Encumbered, Recognized, By, x0
  <2>2. \A x \in BudgetIds : Recognized(pos'[po], x) \in Int
    BY <1>1, <1>2, <1>4 DEF Recognized, x0
  <2> QED BY <2>1, <2>2 DEF Covers
<1>10. FirmOrder(pos'[po])
  <2>1. pos'[po].committed <=> pos[po].committed BY <1>4
  <2>2. pos[po].committed => bid # None /\ pos[po].recognized <= pos[po].total
    BY <1>1 DEF FirmOrder
  <2> QED BY <1>1, <1>2, <1>4, <2>1, <2>2 DEF FirmOrder
<1>11. Allowed(bid, a, -a) BY DEF Allowed
<1>12. FirmStep(po, bid, a, -a) BY <1>3, <1>8, <1>a, <1>9, <1>10, <1>11 DEF FirmStep
<1> QED BY <1>0, <1>4, <1>12 DEF x0

\* A receipt's transaction that changes receipt g: the spend it moves is the
\* change of what the receipt stores.
ReceiptStep(g) ==
    /\ OnlyGrn(g)
    /\ \/ UNCHANGED <<budgets, pos>>
       \/ \E po \in PoIds, c \in Int, s \in Int : FirmStep(po, pos[po].budget, c, s)
    /\ \A p \in Live(pos) :
         pos'[p].recognized = pos[p].recognized + Received(grns'[g], p) - Received(grns[g], p)
    /\ grns'[g].row = "live" =>
         Known(grns'[g].po) /\ (grns'[g].recognized \/ grns'[g].amount = 0)

\* Booking a receipt that stores nothing yet.
LEMMA BooksReceipt ==
  ASSUME FirmInv, LedgerInv', NEW g \in GrnIds, NEW po, Books(po, grns'[g].amount),
         SameRows(budgets, budgets'), OnlyGrn(g),
         grns'[g].row = "live", grns'[g].po = po, grns'[g].recognized = TRUE,
         grns[g].row = "free" \/ grns[g].amount = 0
  PROVE  ReceiptStep(g)
<1> DEFINE a == grns'[g].amount
<1>0. LedgerInv /\ a \in Int /\ -a \in Int BY DEF FirmInv, LedgerInv, TypedGrns, Grns
<1>1. po \in PoIds /\ FirmStep(po, pos[po].budget, -a, a) BY <1>0, BookFirm
<1>2. /\ OnlyPo(po) /\ pos[po] \in Pos /\ pos[po].row = "live"
      /\ pos'[po] = [pos[po] EXCEPT !.recognized = pos[po].recognized + a]
  BY <1>0, <1>1, LiveRows DEF Books, LedgerInv, TypedPos
<1>3. ASSUME NEW p \in Live(pos)
      PROVE  /\ pos'[p].recognized =
                  pos[p].recognized + Received(grns'[g], p) - Received(grns[g], p)
  <2>1. p \in PoIds /\ pos[p].recognized \in Int
    BY <1>0, LiveRows DEF LedgerInv, TypedPos, Pos
  <2>2. Received(grns[g], p) = 0 BY DEF Received
  <2>3. CASE p = po
    <3>1. Received(grns'[g], p) = a BY <2>3 DEF Received
    <3>2. pos'[p].recognized = pos[p].recognized + a BY <1>2, <2>3 DEF Pos
    <3> QED BY <1>0, <2>1, <2>2, <3>1, <3>2
  <2>4. CASE p # po
    <3>1. Received(grns'[g], p) = 0 BY <2>4 DEF Received
    <3>2. pos'[p] = pos[p] BY <1>2, <2>1, <2>4 DEF OnlyPo
    <3> QED BY <2>1, <2>2, <3>1, <3>2
  <2> QED BY <2>3, <2>4
<1>4. Known(grns'[g].po) BY <1>1, <1>2 DEF Known
<1> QED BY <1>0, <1>1, <1>3, <1>4 DEF ReceiptStep

\* Reversing a receipt that stores an amount.
LEMMA UnbooksReceipt ==
  ASSUME FirmInv, LedgerInv', NEW g \in GrnIds, NEW po, Unbooks(po, grns[g].amount),
         SameRows(budgets, budgets'), OnlyGrn(g),
         grns[g].row = "live", grns[g].po = po,
         \/ grns'[g].row = "gone"
         \/ grns'[g].row = "live" /\ grns'[g].po = po /\ grns'[g].amount = 0
  PROVE  ReceiptStep(g)
<1> DEFINE a == grns[g].amount
<1>0. LedgerInv /\ a \in Int /\ -a \in Int BY DEF FirmInv, LedgerInv, TypedGrns, Grns
<1>1. po \in Live(pos) /\ po \in PoIds /\ pos[po].row = "live"
  BY <1>0, LiveRows DEF Unbooks
<1>2. Received(grns[g], po) = a BY DEF Received
<1>3. a <= pos[po].recognized BY <1>1, <1>2, ReceiptFits
<1>4. /\ FirmStep(po, pos[po].budget, a, -a)
      /\ pos'[po].recognized = pos[po].recognized - a
  BY <1>0, <1>3, UnbookFirm
<1>5. ASSUME NEW p \in Live(pos)
      PROVE  /\ pos'[p].recognized =
                  pos[p].recognized + Received(grns'[g], p) - Received(grns[g], p)
  <2>1. p \in PoIds /\ pos[p].recognized \in Int
    BY <1>0, LiveRows DEF LedgerInv, TypedPos, Pos
  <2>2. Received(grns'[g], p) = 0 BY DEF Received
  <2>3. CASE p = po BY <1>0, <1>2, <1>4, <2>1, <2>2, <2>3
  <2>4. CASE p # po
    <3>1. Received(grns[g], p) = 0 BY <2>4 DEF Received
    <3>2. pos'[p] = pos[p] BY <1>4, <2>1, <2>4 DEF FirmStep, OnlyPo
    <3> QED BY <2>1, <2>2, <3>1, <3>2
  <2> QED BY <2>3, <2>4
<1>6. Known(po) BY <1>1 DEF Known
<1> QED BY <1>0, <1>1, <1>4, <1>5, <1>6 DEF ReceiptStep

\* A receipt's transaction that moves no spend.
LEMMA MarksReceipt ==
  ASSUME FirmInv, LedgerInv', NEW g \in GrnIds, UNCHANGED <<budgets, pos>>, OnlyGrn(g),
         \A p \in Live(pos) : Received(grns'[g], p) = Received(grns[g], p),
         grns'[g].row = "live" =>
           Known(grns'[g].po) /\ (grns'[g].recognized \/ grns'[g].amount = 0)
  PROVE  ReceiptStep(g)
<1>0. LedgerInv BY DEF FirmInv
<1>1. ASSUME NEW p \in Live(pos)
      PROVE  /\ pos'[p].recognized =
                  pos[p].recognized + Received(grns'[g], p) - Received(grns[g], p)
  <2>1. pos[p].recognized \in Int BY <1>0, LiveRows DEF LedgerInv, TypedPos, Pos
  <2>2. Received(grns[g], p) \in Int BY <1>0, ReceiptAmount DEF LedgerInv, TypedGrns
  <2> QED BY <2>1, <2>2
<1> QED BY <1>1 DEF ReceiptStep

\* MovesSpend is such a step, for a receipt as it was or a new one.
LEMMA SpendReceipt ==
  ASSUME FirmInv, LedgerInv', NEW g \in GrnIds, NEW old, NEW po,
         \/ old = NoGrn /\ grns[g].row = "free"
         \/ old = grns[g] /\ grns[g].row = "live" /\ grns[g].po = po,
         Known(po), SameRows(budgets, budgets'), OnlyGrn(g),
         grns'[g].row = "live", grns'[g].po = po, MovesSpend(g, old, po)
  PROVE  ReceiptStep(g)
<1>0. LedgerInv BY DEF FirmInv
<1>1. /\ NoGrn.recognized = FALSE /\ NoGrn.amount = 0 BY DEF NoGrn
<1>2. grns[g] \in Grns /\ grns[g].amount >= 0 BY <1>0 DEF LedgerInv, TypedGrns
<1>3. grns[g].row = "live" => grns[g].recognized \/ grns[g].amount = 0
  BY DEF FirmInv, ReceiptsKnown
<1>4. CASE MarkOnly(g, old, po)
  <2>1. UNCHANGED <<budgets, pos>> BY <1>4 DEF MarkOnly
  <2>2. grns'[g].recognized \/ grns'[g].amount = 0 BY <1>1, <1>3, <1>4 DEF MarkOnly
  <2>3. ASSUME NEW p \in Live(pos)
        PROVE  Received(grns'[g], p) = Received(grns[g], p)
    <3>1. CASE p # po BY <3>1 DEF Received
    <3>2. CASE p = po
      <4>1. CASE old = NoGrn /\ grns[g].row = "free"
        <5>1. grns'[g].amount = 0 BY <1>1, <1>4, <4>1 DEF MarkOnly
        <5> QED BY <4>1, <5>1 DEF Received
      <4>2. CASE old = grns[g] /\ grns[g].row = "live" /\ grns[g].po = po
        <5>1. grns'[g].amount = grns[g].amount
          BY <1>2, <1>3, <1>4, <3>2, <4>2 DEF MarkOnly, Grns
        <5> QED BY <4>2, <5>1 DEF Received
      <4> QED BY <4>1, <4>2
    <3> QED BY <3>1, <3>2
  <2> QED BY <2>1, <2>2, <2>3, MarksReceipt
<1>5. CASE ~old.recognized /\ Books(po, grns'[g].amount) /\ grns'[g].recognized = TRUE
  BY <1>3, <1>5, BooksReceipt
<1>6. CASE /\ old.recognized /\ Unbooks(po, old.amount)
           /\ grns'[g].amount = 0 /\ grns'[g].recognized = FALSE
  BY <1>1, <1>6, UnbooksReceipt
<1> QED BY <1>4, <1>5, <1>6 DEF MovesSpend

\* Every receipt's transaction is one.
LEMMA ReceiptSteps ==
  ASSUME Disciplined, FirmInv, LedgerInv', NEW g \in GrnIds,
         NewReceipt(g) \/ DropsReceipt(g) \/ \E po \in PoIds \cup {None} : PatchesReceipt(g, po)
  PROVE  ReceiptStep(g)
<1>0. LedgerInv BY DEF FirmInv
<1>1. CASE NewReceipt(g)
  <2>1. /\ grns[g].row = "free" /\ SameRows(budgets, budgets') /\ OnlyGrn(g)
        /\ grns'[g].row = "live" /\ grns'[g].po = tx.po /\ MovesSpend(g, NoGrn, tx.po)
    BY <1>1 DEF NewReceipt
  <2>2. Known(tx.po) BY <1>1 DEF NewReceipt, FirmInv, ReceiptFresh
  <2> QED BY <2>1, <2>2, SpendReceipt
<1>2. ASSUME NEW po, PatchesReceipt(g, po) PROVE ReceiptStep(g)
  <2>1. /\ grns[g].row = "live" /\ po = grns[g].po
        /\ SameRows(budgets, budgets') /\ OnlyGrn(g)
        /\ grns'[g].row = "live" /\ grns'[g].po = po /\ MovesSpend(g, grns[g], po)
    BY <1>0, <1>2, LiveRows DEF PatchesReceipt, Disciplined
  <2>2. Known(po) BY <2>1 DEF FirmInv, ReceiptsKnown
  <2> QED BY <2>1, <2>2, SpendReceipt
<1>3. CASE DropsReceipt(g)
  <2>1. /\ grns[g].row = "live" /\ grns'[g].row = "gone" /\ OnlyGrn(g)
        /\ grns[g].po = tx.po /\ SameRows(budgets, budgets')
    BY <1>0, <1>3, LiveRows DEF DropsReceipt, FirmInv, ReceiptFresh
  <2>2. grns[g] \in Grns /\ grns[g].amount >= 0 BY <1>0 DEF LedgerInv, TypedGrns
  <2>3. grns[g].recognized \/ grns[g].amount = 0 BY <2>1 DEF FirmInv, ReceiptsKnown
  <2>4. CASE Unbooks(tx.po, grns[g].amount) BY <2>1, <2>4, UnbooksReceipt
  <2>5. CASE /\ UNCHANGED <<budgets, pos>>
             /\ ~grns[g].recognized \/ grns[g].amount <= 0 \/ tx.po \notin Live(pos)
    <3>1. grns[g].amount = 0 \/ tx.po \notin Live(pos) BY <2>2, <2>3, <2>5 DEF Grns
    <3>2. \A p \in Live(pos) : Received(grns'[g], p) = Received(grns[g], p)
      BY <2>1, <3>1 DEF Received
    <3> QED BY <2>1, <2>5, <3>2, MarksReceipt
  <2> QED BY <1>3, <2>4, <2>5 DEF DropsReceipt
<1> QED BY <1>1, <1>2, <1>3

\* ... and, for the ceiling, whose budgets keep the allocation they were
\* created with.
Fixed == Disciplined /\ ~May("reallocate") /\ Allocations \subseteq Nat

\* A step that writes no order and no firm column.
LEMMA ColumnsKept ==
  ASSUME FirmInv, LedgerInv', UNCHANGED pos, RowsKept, FirmStays, adrift \subseteq adrift'
  PROVE  /\ CommittedReconciles' /\ BudgetSpend' /\ OrdersFirm'
         /\ SameRows(budgets, budgets') /\ HardCeiling => HardCeiling'
<1>1. CommittedReconciles' /\ BudgetSpend'
  BY OrdersUnchanged DEF FirmInv, RowsKept, FirmStays
<1>2. OrdersFirm' BY DEF FirmInv, OrdersFirm
<1>3. ASSUME SameRows(budgets, budgets'), HardCeiling PROVE HardCeiling'
  <2>1. LedgerInv BY DEF FirmInv
  <2>2. SUFFICES ASSUME NEW x \in BudgetIds, budgets'[x].row = "live", x \notin adrift'
                 PROVE  budgets'[x].committed + budgets'[x].spent <= budgets'[x].allocated
    BY DEF HardCeiling, Live, LedgerInv, SoundTable
  <2>3. /\ budgets[x].row = "live" /\ budgets'[x].allocated = budgets[x].allocated
        /\ budgets'[x].committed = budgets[x].committed /\ budgets'[x].spent = budgets[x].spent
    BY <1>3, <2>2 DEF SameRows, FirmStays
  <2> QED BY <1>3, <2>1, <2>2, <2>3, LiveRows DEF HardCeiling
<1> QED BY <1>1, <1>2, <1>3

\* The columns after every step.
LEMMA ColumnsStep ==
  ASSUME Disciplined, FirmInv, LedgerInv', adrift \subseteq adrift', StepKind
  PROVE  /\ CommittedReconciles' /\ BudgetSpend' /\ OrdersFirm'
         /\ Fixed /\ HardCeiling => HardCeiling'
<1> DEFINE Goal == /\ CommittedReconciles' /\ BudgetSpend' /\ OrdersFirm'
                   /\ Fixed /\ HardCeiling => HardCeiling'
<1>0. LedgerInv BY DEF FirmInv
<1>a. SameRows(budgets, budgets') => RowsKept BY DEF SameRows, RowsKept
<1>b. FirmKept => FirmStays BY DEF FirmKept, FirmStays
<1>1. ASSUME NEW n \in BudgetIds, NewBudget(n) PROVE Goal
  <2>1. CommittedReconciles' /\ BudgetSpend' BY <1>1, NewBudgetHolds DEF FirmInv
  <2>2. OrdersFirm' BY <1>1 DEF FirmInv, OrdersFirm, NewBudget
  <2>3. ASSUME Fixed, HardCeiling PROVE HardCeiling'
    <3>1. SUFFICES ASSUME NEW x \in BudgetIds, budgets'[x].row = "live", x \notin adrift'
                   PROVE  budgets'[x].committed + budgets'[x].spent <= budgets'[x].allocated
      BY DEF HardCeiling, Live, LedgerInv, SoundTable
    <3>2. CASE x = n
      <4>1. budgets'[n].committed = 0 /\ budgets'[n].spent = 0 /\ budgets'[n].allocated \in Nat
        BY <1>1, <2>3 DEF NewBudget, Fixed
      <4> QED BY <3>2, <4>1
    <3>3. CASE x # n
      <4>1. budgets'[x] = budgets[x] BY <1>1, <3>3 DEF NewBudget
      <4> QED BY <1>0, <2>3, <3>1, <4>1, LiveRows DEF HardCeiling
    <3> QED BY <3>2, <3>3
  <2> QED BY <2>1, <2>2, <2>3
<1>2. ASSUME NEW n \in BudgetIds, DropsBudget(n) PROVE Goal
  <2>1. UNCHANGED pos /\ \A x \in BudgetIds : budgets'[x].row = "live" =>
          budgets[x].row = "live" /\ budgets'[x] = budgets[x]
    BY <1>2 DEF DropsBudget
  <2>2. CommittedReconciles' /\ BudgetSpend' BY <2>1, OrdersUnchanged DEF FirmInv
  <2>3. OrdersFirm' BY <2>1 DEF FirmInv, OrdersFirm
  <2>4. ASSUME HardCeiling PROVE HardCeiling'
    <3>1. SUFFICES ASSUME NEW x \in BudgetIds, budgets'[x].row = "live", x \notin adrift'
                   PROVE  budgets'[x].committed + budgets'[x].spent <= budgets'[x].allocated
      BY DEF HardCeiling, Live, LedgerInv, SoundTable
    <3> QED BY <1>0, <2>1, <2>4, <3>1, LiveRows DEF HardCeiling
  <2> QED BY <2>2, <2>3, <2>4
<1>3. ASSUME SetsBudgets PROVE Goal
  BY <1>3, ColumnsKept DEF SetsBudgets, Fixed
<1>4. ASSUME NEW r \in ReqIds, NEW b \in BudgetIds, NewReq(r, b) PROVE Goal
  BY <1>4, <1>b, ColumnsKept, UnchangedKept DEF NewReq
<1>5. ASSUME NEW r \in ReqIds, EditsReq(r) PROVE Goal
  BY <1>5, <1>b, ColumnsKept, UnchangedKept DEF EditsReq
<1>6. ASSUME NEW r \in ReqIds, Decided(r) \/ DropsReq(r) PROVE Goal
  BY <1>6, <1>a, <1>b, ColumnsKept DEF Decided, DropsReq
<1>7. ASSUME Reads PROVE Goal
  BY <1>7, <1>b, ColumnsKept, UnchangedKept DEF Reads
<1>8. ASSUME NEW p \in PoIds, NEW b, NEW c \in Int, NEW s \in Int, FirmStep(p, b, c, s)
      PROVE  Goal
  BY <1>8, FirmStepKeeps
<1>9. ASSUME NEW p \in PoIds, NEW b \in BudgetIds \cup {None}, NEW r,
             NEW v \in OrderValues, Raises(p, b, r, v)
      PROVE  Goal
  <2> DEFINE c == IF Encumbers(b, v) THEN v ELSE 0
  <2>1. c \in Int BY LedgerAssumption DEF LedgerAssumption
  <2>2. FirmStep(p, b, c, 0) BY <1>9, RaiseFirm
  <2> HIDE DEF c
  <2> QED BY <1>8, <2>1, <2>2, 0 \in Int
<1>10. ASSUME NEW p \in PoIds, NEW st, NEW b, NEW r, NEW v \in {pos[p].total} \cup OrderValues,
              Patches(p, st, v, b, r)
       PROVE  Goal
  <2>1. v \in Int
    BY <1>0, LedgerAssumption DEF LedgerAssumption, LedgerInv, TypedPos, Pos
  <2> QED BY <1>8, <1>10, <2>1, PatchFirm, 0 \in Int
<1>11. ASSUME NEW p \in PoIds, DropsPo(p) PROVE Goal
  BY <1>8, <1>11, DropFirm, 0 \in Int
<1>12. ASSUME NEW g \in GrnIds,
              \/ NewReceipt(g) \/ DropsReceipt(g)
              \/ \E po \in PoIds \cup {None} : PatchesReceipt(g, po)
       PROVE  Goal
  <2>1. CASE UNCHANGED <<budgets, pos>> BY <1>b, <2>1, ColumnsKept, UnchangedKept
  <2>2. CASE \E po \in PoIds, c \in Int, s \in Int : FirmStep(po, pos[po].budget, c, s)
    BY <1>8, <2>2
  <2> QED BY <1>12, <2>1, <2>2, ReceiptSteps DEF ReceiptStep
<1> HIDE DEF Goal
<1>13. \A b \in BudgetIds : NewBudget(b) \/ DropsBudget(b) => Goal BY <1>1, <1>2, Zenon
<1>14. \A r \in ReqIds : (\E b \in BudgetIds : NewReq(r, b)) => Goal BY <1>4, Zenon
<1>15. \A r \in ReqIds : EditsReq(r) \/ Decided(r) \/ DropsReq(r) => Goal
  BY <1>5, <1>6, Zenon
<1>16. \A p \in PoIds, b \in BudgetIds \cup {None}, r \in ReqIds \cup {None}, v \in OrderValues :
         Raises(p, b, r, v) => Goal
  BY <1>9, Zenon
<1>17. \A p \in PoIds, st \in {"pending", "cleared", "void"}, b \in BudgetIds \cup {None},
          r \in ReqIds \cup {None} :
         (\E v \in {pos[p].total} \cup OrderValues : Patches(p, st, v, b, r)) => Goal
  BY <1>10, Zenon
<1>18. \A p \in PoIds : DropsPo(p) => Goal BY <1>11, Zenon
<1>19. \A g \in GrnIds : NewReceipt(g) \/ DropsReceipt(g) => Goal BY <1>12, Zenon
<1>20. \A g \in GrnIds, po \in PoIds \cup {None} : PatchesReceipt(g, po) => Goal
  BY <1>12, Zenon
<1>21. Goal
  BY <1>3, <1>7, <1>13, <1>14, <1>15, <1>16, <1>17, <1>18, <1>19, <1>20, Zenon DEF StepKind
<1> QED BY <1>21 DEF Goal

\* What every order has recognised, after every step.
LEMMA SpendStep ==
  ASSUME Disciplined, FirmInv, LedgerInv', StepKind
  PROVE  OrderSpend'
<1>0. LedgerInv /\ OrderSpend BY DEF FirmInv
<1>1. CASE UNCHANGED <<pos, grns>>
  BY <1>0, <1>1 DEF OrderSpend, ReceiptsOf, Live
<1>2. ASSUME UNCHANGED grns, NEW p \in PoIds, OnlyPo(p),
             pos'[p].row = "live" => pos'[p].recognized = ReceiptsOf(p)
      PROVE  OrderSpend'
  <2>1. SUFFICES ASSUME NEW x \in PoIds, pos'[x].row = "live"
                 PROVE  pos'[x].recognized = ReceiptsOf(x)'
    BY DEF OrderSpend, Live, LedgerInv, TypedPos
  <2>2. ReceiptsOf(x)' = ReceiptsOf(x) BY <1>2 DEF ReceiptsOf
  <2>3. x # p => pos'[x] = pos[x] BY <1>2 DEF OnlyPo
  <2> QED BY <1>0, <1>2, <2>1, <2>2, <2>3, LiveRows DEF OrderSpend
<1>3. ASSUME NEW p \in PoIds, NEW b, NEW r, NEW v, Raises(p, b, r, v) PROVE OrderSpend'
  <2>1. /\ UNCHANGED grns /\ OnlyPo(p) /\ pos[p].row = "free" /\ pos'[p].recognized = 0
    BY <1>3 DEF Raises, RaisedPo
  <2>2. ReceiptsOf(p) = 0 BY <1>0, <2>1, NewOrderReceives DEF FirmInv
  <2> QED BY <1>2, <2>1, <2>2
<1>4. ASSUME NEW p \in PoIds, NEW st, NEW b, NEW r, NEW v, Patches(p, st, v, b, r)
      PROVE  OrderSpend'
  <2>1. /\ UNCHANGED grns /\ OnlyPo(p) /\ p \in Live(pos)
        /\ pos'[p].recognized = pos[p].recognized
    BY <1>4 DEF Patches, PatchedTo
  <2>2. pos[p].recognized = ReceiptsOf(p) BY <1>0, <2>1 DEF OrderSpend
  <2> QED BY <1>2, <2>1, <2>2
<1>5. ASSUME NEW p \in PoIds, DropsPo(p) PROVE OrderSpend'
  <2>1. UNCHANGED grns /\ OnlyPo(p) /\ pos'[p].row = "gone" BY <1>5 DEF DropsPo
  <2> QED BY <1>2, <2>1
<1>6. ASSUME NEW g \in GrnIds,
             \/ NewReceipt(g) \/ DropsReceipt(g)
             \/ \E po \in PoIds \cup {None} : PatchesReceipt(g, po)
      PROVE  OrderSpend'
  <2>1. SUFFICES ASSUME NEW x \in PoIds, pos'[x].row = "live"
                 PROVE  pos'[x].recognized = ReceiptsOf(x)'
    BY DEF OrderSpend, Live, LedgerInv, TypedPos
  <2>2. x \in Live(pos) BY <1>0, <1>6, <2>1, ReceiptsKeepOrders, LiveRows DEF OrdersStay
  <2>3. /\ OnlyGrn(g)
        /\ pos'[x].recognized = pos[x].recognized + Received(grns'[g], x) - Received(grns[g], x)
    BY <1>6, <2>2, ReceiptSteps DEF ReceiptStep
  <2>4. ReceiptsOf(x)' = ReceiptsOf(x) + Received(grns'[g], x) - Received(grns[g], x)
    BY <1>0, <2>3, ReceiptSums
  <2> QED BY <1>0, <2>2, <2>3, <2>4 DEF OrderSpend
<1> QED
  BY <1>1, <1>3, <1>4, <1>5, <1>6
  DEF StepKind, NewBudget, DropsBudget, SetsBudgets, NewReq, EditsReq, Decided, DropsReq, Reads

\* A row that was inserted is never free again.
LEMMA NeverFreed ==
  ASSUME LedgerInv, StepKind
  PROVE  /\ \A p \in PoIds : pos[p].row # "free" => pos'[p].row # "free"
         /\ \A g \in GrnIds : grns[g].row # "free" => grns'[g].row # "free"
<1> DEFINE Goal == /\ \A p \in PoIds : pos[p].row # "free" => pos'[p].row # "free"
                   /\ \A g \in GrnIds : grns[g].row # "free" => grns'[g].row # "free"
<1>1. CASE UNCHANGED <<pos, grns>> BY <1>1
<1>2. ASSUME UNCHANGED grns, NEW p \in PoIds, OnlyPo(p), pos'[p].row \in {"live", "gone"}
      PROVE  Goal
  BY <1>2 DEF OnlyPo
<1>3. ASSUME NEW g \in GrnIds,
             \/ NewReceipt(g) \/ DropsReceipt(g)
             \/ \E po \in PoIds \cup {None} : PatchesReceipt(g, po)
      PROVE  Goal
  <2>1. OrdersStay BY <1>3, ReceiptsKeepOrders
  <2>2. OnlyGrn(g) /\ grns'[g].row \in {"live", "gone"}
    BY <1>3 DEF NewReceipt, DropsReceipt, PatchesReceipt
  <2> QED BY <2>1, <2>2 DEF OrdersStay, OnlyGrn
<1>4. ASSUME NEW p \in PoIds, NEW b, NEW r, NEW v, Raises(p, b, r, v) PROVE Goal
  BY <1>2, <1>4 DEF Raises, RaisedPo
<1>5. ASSUME NEW p \in PoIds, NEW b, NEW r, NEW v, NEW st, Patches(p, st, v, b, r) PROVE Goal
  BY <1>2, <1>5 DEF Patches, PatchedTo
<1>6. ASSUME NEW p \in PoIds, DropsPo(p) PROVE Goal
  BY <1>2, <1>6 DEF DropsPo
<1> HIDE DEF Goal
<1>7. \/ \E b \in BudgetIds : NewBudget(b) \/ DropsBudget(b)
      \/ SetsBudgets
      \/ \E r \in ReqIds, b \in BudgetIds : NewReq(r, b)
      \/ \E r \in ReqIds : EditsReq(r) \/ Decided(r) \/ DropsReq(r)
      \/ Reads
      => UNCHANGED <<pos, grns>>
  BY DEF NewBudget, DropsBudget, SetsBudgets, NewReq, EditsReq, Decided, DropsReq, Reads
<1>a. UNCHANGED <<pos, grns>> => Goal BY <1>1 DEF Goal
<1>8. \A p \in PoIds, b \in BudgetIds \cup {None}, r \in ReqIds \cup {None}, v \in OrderValues :
        Raises(p, b, r, v) => Goal
  BY <1>4, Zenon
<1>9. \A p \in PoIds, st \in {"pending", "cleared", "void"}, b \in BudgetIds \cup {None},
         r \in ReqIds \cup {None} :
        (\E v \in {pos[p].total} \cup OrderValues : Patches(p, st, v, b, r)) => Goal
  BY <1>5, Zenon
<1>10. \A p \in PoIds : DropsPo(p) => Goal BY <1>6, Zenon
<1>11. \A g \in GrnIds : NewReceipt(g) \/ DropsReceipt(g) => Goal BY <1>3, Zenon
<1>12. \A g \in GrnIds, po \in PoIds \cup {None} : PatchesReceipt(g, po) => Goal
  BY <1>3, Zenon
<1>13. Goal
  BY <1>7, <1>a, <1>8, <1>9, <1>10, <1>11, <1>12, Zenon DEF StepKind
<1> QED BY <1>13 DEF Goal

\* What receipts name, and what their transactions have read, after every step.
LEMMA KnownStep ==
  ASSUME Disciplined, FirmInv, LedgerInv', StepKind
  PROVE  ReceiptsKnown' /\ ReceiptFresh'
<1>0. LedgerInv /\ ReceiptsKnown /\ ReceiptFresh BY DEF FirmInv
<1>1. \A po : Known(po) => po = None \/ (po \in PoIds /\ pos'[po].row # "free")
  BY <1>0, NeverFreed DEF Known
<1>2. CASE UNCHANGED grns /\ (UNCHANGED tx \/ tx' = Idle)
  <2>1. ReceiptsKnown' BY <1>0, <1>1, <1>2 DEF ReceiptsKnown, Known
  <2>2. ReceiptFresh' BY <1>0, <1>1, <1>2 DEF ReceiptFresh, Known, Idle
  <2> QED BY <2>1, <2>2
<1>3. CASE Reads
  <2>1. ReceiptsKnown' BY <1>0, <1>3 DEF Reads, ReceiptsKnown, Known
  <2>2. tx'.op = "CreateGrn" => tx'.po = None \/ (tx'.po \in PoIds /\ pos'[tx'.po].row # "free")
    BY <1>3 DEF Reads, Idle, OrderRefs
  <2>3. tx'.op = "DeleteGrn" => /\ grns'[tx'.grn].row # "free"
                                /\ grns'[tx'.grn].row = "live" => grns'[tx'.grn].po = tx'.po
    BY <1>0, <1>3, LiveRows DEF Reads, Idle
  <2> QED BY <2>1, <2>2, <2>3 DEF ReceiptFresh, Known
<1>4. ASSUME NEW g \in GrnIds, ReceiptStep(g) PROVE ReceiptsKnown'
  <2>1. /\ OnlyGrn(g)
        /\ grns'[g].row = "live" =>
             Known(grns'[g].po) /\ (grns'[g].recognized \/ grns'[g].amount = 0)
    BY <1>4 DEF ReceiptStep
  <2>2. ASSUME NEW x \in GrnIds, grns'[x].row = "live"
        PROVE  Known(grns'[x].po) /\ (grns'[x].recognized \/ grns'[x].amount = 0)
    BY <1>0, <2>1, <2>2 DEF ReceiptsKnown, OnlyGrn
  <2> QED BY <1>1, <2>2 DEF ReceiptsKnown, Known
<1>5. ASSUME NEW g \in GrnIds, NewReceipt(g) \/ DropsReceipt(g)
      PROVE  ReceiptsKnown' /\ ReceiptFresh'
  <2>1. tx' = Idle BY <1>5 DEF NewReceipt, DropsReceipt
  <2>2. ReceiptFresh' BY <2>1 DEF ReceiptFresh, Idle
  <2> QED BY <1>4, <1>5, <2>2, ReceiptSteps
<1>6. ASSUME NEW g \in GrnIds, NEW po \in PoIds \cup {None}, PatchesReceipt(g, po)
      PROVE  ReceiptsKnown' /\ ReceiptFresh'
  <2>1. /\ tx' = tx /\ OnlyGrn(g) /\ grns[g].row = "live" /\ grns'[g].row = "live"
        /\ grns'[g].po = grns[g].po
    BY <1>0, <1>6, LiveRows DEF PatchesReceipt, Disciplined
  <2>2. tx.op = "CreateGrn" => tx.po = None \/ (tx.po \in PoIds /\ pos'[tx.po].row # "free")
    BY <1>0, <1>1 DEF ReceiptFresh
  <2>3. tx.op = "DeleteGrn" => tx.grn \in GrnIds
    BY <1>0 DEF LedgerInv, Transactions, Idle
  <2>4. ReceiptFresh' BY <1>0, <2>1, <2>2, <2>3 DEF ReceiptFresh, Known, OnlyGrn
  <2> QED BY <1>4, <1>6, <2>4, ReceiptSteps
<1> QED
  BY <1>2, <1>3, <1>5, <1>6
  DEF StepKind, NewBudget, DropsBudget, SetsBudgets, NewReq, EditsReq, Decided, DropsReq,
      Raises, Patches, DropsPo

\* Every step keeps the firm stages' invariant.
LEMMA FirmStepInv ==
  ASSUME Disciplined, FirmInv, [Next]_vars
  PROVE  /\ FirmInv'
         /\ Fixed /\ HardCeiling => HardCeiling'
<1>0. LedgerInv /\ ReferencesHold BY DEF FirmInv
<1>1. LedgerInv' BY <1>0, LedgerStep
<1>2. ReferencesHold' BY <1>0, ReferencesStep
<1>a. adrift \subseteq adrift' BY <1>0, AdriftGrows
<1>3. CASE Next
  BY <1>0, <1>1, <1>2, <1>a, <1>3, StepKinds, ColumnsStep, SpendStep, KnownStep DEF FirmInv
<1>4. CASE UNCHANGED vars
  <2>1. CommittedReconciles' /\ BudgetSpend'
    BY <1>4
    DEF vars, FirmInv, CommittedReconciles, BudgetSpend, OpenEncumbrances, RecognizedSpend, Live
  <2>2. OrderSpend' /\ OrdersFirm'
    BY <1>4 DEF vars, FirmInv, OrderSpend, ReceiptsOf, OrdersFirm, Live
  <2>3. ReceiptsKnown' /\ ReceiptFresh'
    BY <1>4 DEF vars, FirmInv, ReceiptsKnown, ReceiptFresh, Known
  <2>4. HardCeiling => HardCeiling' BY <1>4 DEF vars, HardCeiling, Live
  <2> QED BY <1>1, <1>2, <2>1, <2>2, <2>3, <2>4 DEF FirmInv
<1> QED BY <1>3, <1>4

\* The empty ledger satisfies it.
LEMMA FirmInit ==
  ASSUME Init PROVE FirmInv /\ HardCeiling
<1>1. /\ LedgerInv /\ ReferencesHold /\ CommittedReconciles /\ BudgetSpend /\ OrderSpend
      /\ HardCeiling
  BY NothingLive DEF ReferencesHold, CommittedReconciles, BudgetSpend, OrderSpend, HardCeiling
<1>2. OrdersFirm /\ ReceiptsKnown BY DEF Init, NoPo, NoGrn, OrdersFirm, ReceiptsKnown
<1>3. ReceiptFresh BY DEF Init, Idle, ReceiptFresh
<1> QED BY <1>1, <1>2, <1>3 DEF FirmInv

\* The invariant of the firm stages holds of every reachable state, cancels
\* between an unlocked read and its commit included.
THEOREM FirmInvariant == ASSUME Disciplined PROVE Spec => []FirmInv
<1>1. Init => FirmInv BY FirmInit
<1>2. FirmInv /\ [Next]_vars => FirmInv' BY FirmStepInv
<1> QED BY <1>1, <1>2, PTL DEF Spec

\* committed is exactly the sum of what the encumbered orders still expect, on
\* every budget on which no receipt was booked or reversed for an order without
\* an encumbrance and which no period close lapsed.
THEOREM EncumbrancesReconcile == ASSUME Disciplined PROVE Spec => []CommittedReconciles
<1>1. FirmInv => CommittedReconciles BY DEF FirmInv
<1> QED BY <1>1, FirmInvariant, PTL

\* spent is exactly what the orders have recognised, and that is exactly what
\* their receipts store, on every budget and whatever was cancelled meanwhile.
THEOREM SpendReconciles ==
  ASSUME Disciplined, ~May("deleteReceived") PROVE Spec => []SpentReconciles
<1>1. FirmInv => SpentReconciles
  BY DEF FirmInv, BudgetSpend, Covers, OrderSpend, SpentReconciles
<1> QED BY <1>1, FirmInvariant, PTL

\* "committed + spent may not exceed allocated", on every such budget.
THEOREM CeilingHolds == ASSUME Fixed PROVE Spec => []HardCeiling
<1>0. Disciplined BY DEF Fixed
<1>1. Init => FirmInv /\ HardCeiling BY FirmInit
<1>2. (FirmInv /\ HardCeiling) /\ [Next]_vars => (FirmInv /\ HardCeiling)'
  BY <1>0, FirmStepInv
<1> QED BY <1>1, <1>2, PTL DEF Spec

=============================================================================
