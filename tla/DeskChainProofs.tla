--------------------------- MODULE DeskChainProofs ---------------------------
(***************************************************************************)
(* TLAPS proofs about DeskChain, for every set of people, desks and        *)
(* matrices, any number of processes and any amounts.                      *)
(*                                                                         *)
(* The engine walks the list that Engaged computes with a loop, so the     *)
(* proofs begin with what that loop returns: by induction on its turns,    *)
(* desks of the definition, none twice, and, where the bands ascend, lists *)
(* of which the one for the smaller amount starts the one for the larger.  *)
(* That is why re-anchoring the cursor by key (Rebase) and going back to   *)
(* an index (Reopen) agree.                                                *)
(*                                                                         *)
(* Four inductive invariants follow: Typed; Duties with Unsigned (an       *)
(* attempt still to be submitted has no signature); InPlace (a request in  *)
(* an attempt routed by one definition sits where its cursor says); and    *)
(* Walk (every desk before the cursor has signed, too).  Only Walk needs   *)
(* Banded.                                                                 *)
(***************************************************************************)
EXTENDS DeskChain, FiniteSetTheorems, WellFoundedInduction, TLAPS

Desks == [key : DeskKeys, min : Nat]

-----------------------------------------------------------------------------
(* Induction on the natural numbers, with the property given as a set.       *)

\* A set of natural numbers that is not empty has a least element.
LEMMA LeastNumber ==
  ASSUME NEW T, T \subseteq Nat, T # {}
  PROVE  \E n \in T : \A m \in T : n <= m
<1> DEFINE R == {ss \in Nat \X Nat : ss[1] < ss[2]}
<1>1. IsWellFoundedOn(R, Nat) BY NatLessThanWellFounded DEF OpToRel
<1> HIDE DEF R
<1>2. PICK n \in T : \A m \in T : ~(<<m, n>> \in R) BY <1>1, WFMin
<1>3. \A m \in T : n <= m
  <2> TAKE m \in T
  <2>1. m \in Nat /\ n \in Nat OBVIOUS
  <2>2. ~(<<m, n>> \in {ss \in Nat \X Nat : ss[1] < ss[2]}) BY <1>2 DEF R
  <2> QED BY <2>1, <2>2
<1> QED BY <1>3

\* A set that holds 0, and n + 1 with n, holds every natural number.
LEMMA Induction ==
  ASSUME NEW T, 0 \in T, \A n \in Nat : n \in T => n + 1 \in T
  PROVE  \A n \in Nat : n \in T
<1> SUFFICES ASSUME Nat \ T # {} PROVE FALSE OBVIOUS
<1>1. PICK n \in Nat \ T : \A m \in Nat \ T : n <= m BY LeastNumber
<1>2. n # 0 BY <1>1
<1>3. n - 1 \in Nat /\ n - 1 \in T BY <1>1, <1>2
<1> QED BY <1>3

-----------------------------------------------------------------------------
(* What Engaged computes.                                                    *)

\* One turn of Engaged's loop over the desks.
Turn(out, desks, amount, skip, i) ==
    IF i = 0 THEN <<>>
    ELSE IF Engages(desks[i], amount, skip) THEN Append(out[i - 1], desks[i])
    ELSE out[i - 1]

\* The loop of Engaged: what it has collected after each desk.
Loop(desks, amount, skip) ==
    CHOOSE out : out = [i \in 0 .. Len(desks) |-> Turn(out, desks, amount, skip, i)]

\* Engaged is the loop's result.
LEMMA EngagedIsLoop ==
  ASSUME NEW c, NEW amount, NEW skip
  PROVE  Engaged(c, amount, skip) = Loop(c.desks, amount, skip)[Len(c.desks)]
  BY DEF Engaged, Loop, Turn

\* The loop's recursion has a solution.
LEMMA LoopExists ==
  ASSUME NEW desks \in Seq(Desks), NEW amount, NEW skip
  PROVE  \E out : out = [i \in 0 .. Len(desks) |-> Turn(out, desks, amount, skip, i)]
<1> DEFINE T == {n \in Nat :
                   \E out : out = [i \in 0 .. n |-> Turn(out, desks, amount, skip, i)]}
<1>1. 0 \in T
  <2> DEFINE out == [i \in 0 .. 0 |-> <<>>]
  <2>1. out = [i \in 0 .. 0 |-> Turn(out, desks, amount, skip, i)] BY DEF Turn
  <2> QED BY <2>1
<1>2. ASSUME NEW n \in Nat, n \in T PROVE n + 1 \in T
  <2>1. PICK out : out = [i \in 0 .. n |-> Turn(out, desks, amount, skip, i)] BY <1>2
  <2> DEFINE next == [i \in 0 .. n + 1 |->
                        IF i = n + 1 THEN Turn(out, desks, amount, skip, i) ELSE out[i]]
  <2>2. ASSUME NEW i \in 0 .. n + 1 PROVE next[i] = Turn(next, desks, amount, skip, i)
    <3>1. i = 0 \/ (i - 1 \in 0 .. n /\ i - 1 \in 0 .. n + 1 /\ i - 1 # n + 1) OBVIOUS
    <3>2. i # 0 => next[i - 1] = out[i - 1] BY <3>1
    <3>3. Turn(next, desks, amount, skip, i) = Turn(out, desks, amount, skip, i)
      BY <3>2 DEF Turn
    <3>4. CASE i = n + 1 BY <3>3, <3>4
    <3>5. CASE i # n + 1
      <4>1. i \in 0 .. n BY <3>5
      <4>2. next[i] = out[i] BY <3>5
      <4> HIDE DEF next
      <4>3. out[i] = Turn(out, desks, amount, skip, i) BY <4>1, <2>1
      <4> QED BY <3>3, <4>2, <4>3
    <3> QED BY <3>4, <3>5
  <2>3. next = [i \in 0 .. n + 1 |-> next[i]] OBVIOUS
  <2> HIDE DEF next
  <2>4. next = [i \in 0 .. n + 1 |-> Turn(next, desks, amount, skip, i)] BY <2>2, <2>3
  <2> QED BY <2>4
<1> HIDE DEF T
<1>3. Len(desks) \in T BY <1>1, <1>2, Induction
<1> QED BY <1>3 DEF T

\* The loop starts empty and appends exactly the desks that engage.
LEMMA LoopTurns ==
  ASSUME NEW desks \in Seq(Desks), NEW amount, NEW skip
  PROVE  /\ Loop(desks, amount, skip)[0] = <<>>
         /\ \A i \in 1 .. Len(desks) :
              Loop(desks, amount, skip)[i] =
                IF Engages(desks[i], amount, skip)
                THEN Append(Loop(desks, amount, skip)[i - 1], desks[i])
                ELSE Loop(desks, amount, skip)[i - 1]
<1> DEFINE out == Loop(desks, amount, skip)
<1>1. out = [i \in 0 .. Len(desks) |-> Turn(out, desks, amount, skip, i)]
  BY LoopExists DEF Loop
<1> HIDE DEF out
<1>2. 0 \in 0 .. Len(desks) OBVIOUS
<1>3. \A i \in 0 .. Len(desks) : out[i] = Turn(out, desks, amount, skip, i) BY <1>1
<1>4. out[0] = <<>> BY <1>2, <1>3 DEF Turn
<1>5. ASSUME NEW i \in 1 .. Len(desks)
      PROVE  out[i] = IF Engages(desks[i], amount, skip)
                      THEN Append(out[i - 1], desks[i]) ELSE out[i - 1]
  BY <1>3 DEF Turn
<1> QED BY <1>4, <1>5 DEF out

\* After i turns the loop holds desks that engage, each of the first i that
\* does, and none twice.
Collected(q, desks, amount, skip, i) ==
    /\ q \in Seq(Desks)
    /\ \A x \in 1 .. Len(q) :
         \E j \in 1 .. i : q[x] = desks[j] /\ Engages(desks[j], amount, skip)
    /\ \A j \in 1 .. i : Engages(desks[j], amount, skip) =>
         \E x \in 1 .. Len(q) : q[x] = desks[j]
    /\ \A x, y \in 1 .. Len(q) : q[x].key = q[y].key => x = y

\* No desk key is declared twice (NewRegistry).
Distinct(desks) == \A i, j \in 1 .. Len(desks) : desks[i].key = desks[j].key => i = j

\* An appended element is the last one and the others stay.
LEMMA Appended ==
  ASSUME NEW S, NEW q \in Seq(S), NEW d \in S
  PROVE  /\ Append(q, d) \in Seq(S)
         /\ Len(Append(q, d)) = Len(q) + 1 /\ Len(q) \in Nat
         /\ Append(q, d)[Len(q) + 1] = d
         /\ \A x \in 1 .. Len(q) : Append(q, d)[x] = q[x]
  OBVIOUS

\* A desk of a definition.
LEMMA DeskFields ==
  ASSUME NEW d \in Desks
  PROVE  d.key \in DeskKeys /\ d.min \in Nat
  BY DEF Desks

\* One turn of the loop keeps what it has collected.
LEMMA CollectedTurn ==
  ASSUME NEW desks \in Seq(Desks), Distinct(desks), NEW amount, NEW skip,
         NEW i \in Nat, i + 1 \in 1 .. Len(desks),
         NEW q, Collected(q, desks, amount, skip, i)
  PROVE  Collected(IF Engages(desks[i + 1], amount, skip)
                   THEN Append(q, desks[i + 1]) ELSE q, desks, amount, skip, i + 1)
<1> DEFINE d == desks[i + 1]
<1>1. d \in Desks OBVIOUS
<1>2. q \in Seq(Desks) BY DEF Collected
<1>3. ASSUME NEW j \in 1 .. i + 1 PROVE j \in 1 .. i \/ j = i + 1 OBVIOUS
<1>4. CASE ~Engages(d, amount, skip)
  <2>1. \A x \in 1 .. Len(q) :
          \E j \in 1 .. i + 1 : q[x] = desks[j] /\ Engages(desks[j], amount, skip)
    <3> TAKE x \in 1 .. Len(q)
    <3>1. PICK j \in 1 .. i : q[x] = desks[j] /\ Engages(desks[j], amount, skip)
      BY DEF Collected
    <3>2. j \in 1 .. i + 1 OBVIOUS
    <3> QED BY <3>1, <3>2
  <2>2. \A j \in 1 .. i + 1 : Engages(desks[j], amount, skip) =>
          \E x \in 1 .. Len(q) : q[x] = desks[j]
    BY <1>3, <1>4 DEF Collected
  <2>3. Collected(q, desks, amount, skip, i + 1) BY <2>1, <2>2 DEF Collected
  <2> QED BY <1>4, <2>3
<1>5. CASE Engages(d, amount, skip)
  <2> DEFINE r == Append(q, d)
  <2>1. /\ r \in Seq(Desks) /\ Len(r) = Len(q) + 1 /\ Len(q) \in Nat
        /\ r[Len(q) + 1] = d /\ \A x \in 1 .. Len(q) : r[x] = q[x]
    BY <1>1, <1>2, Appended
  <2> HIDE DEF r
  <2>2. ASSUME NEW x \in 1 .. Len(r) PROVE x \in 1 .. Len(q) \/ x = Len(q) + 1 BY <2>1
  <2>3. ASSUME NEW x \in 1 .. Len(q) PROVE x \in 1 .. Len(r) BY <2>1
  <2>4. Len(q) + 1 \in 1 .. Len(r) BY <2>1
  <2>5. \A x \in 1 .. Len(r) :
          \E j \in 1 .. i + 1 : r[x] = desks[j] /\ Engages(desks[j], amount, skip)
    <3> TAKE x \in 1 .. Len(r)
    <3>1. CASE x \in 1 .. Len(q)
      <4>1. PICK j \in 1 .. i : q[x] = desks[j] /\ Engages(desks[j], amount, skip)
        BY <3>1 DEF Collected
      <4>2. j \in 1 .. i + 1 OBVIOUS
      <4> QED BY <3>1, <4>1, <4>2, <2>1
    <3>2. CASE x = Len(q) + 1 BY <3>2, <1>5, <2>1
    <3> QED BY <3>1, <3>2, <2>2
  <2>6. \A j \in 1 .. i + 1 : Engages(desks[j], amount, skip) =>
          \E x \in 1 .. Len(r) : r[x] = desks[j]
    <3> TAKE j \in 1 .. i + 1
    <3> HAVE Engages(desks[j], amount, skip)
    <3>1. CASE j \in 1 .. i
      <4>1. PICK x \in 1 .. Len(q) : q[x] = desks[j] BY <3>1 DEF Collected
      <4> QED BY <4>1, <2>1, <2>3
    <3>2. CASE j = i + 1 BY <3>2, <2>1, <2>4
    <3> QED BY <3>1, <3>2, <1>3
  <2>7. ASSUME NEW x \in 1 .. Len(q) PROVE q[x].key # d.key
    <3>1. PICK j \in 1 .. i : q[x] = desks[j] BY DEF Collected
    <3>2. j \in 1 .. Len(desks) /\ j # i + 1 OBVIOUS
    <3> QED BY <3>1, <3>2 DEF Distinct
  <2>8. \A x, y \in 1 .. Len(r) : r[x].key = r[y].key => x = y
    <3> TAKE x, y \in 1 .. Len(r)
    <3>1. CASE x \in 1 .. Len(q) /\ y \in 1 .. Len(q) BY <3>1, <2>1 DEF Collected
    <3>2. CASE x \in 1 .. Len(q) /\ y = Len(q) + 1 BY <3>2, <2>1, <2>7
    <3>3. CASE x = Len(q) + 1 /\ y \in 1 .. Len(q) BY <3>3, <2>1, <2>7
    <3>4. CASE x = Len(q) + 1 /\ y = Len(q) + 1 BY <3>4
    <3> QED BY <3>1, <3>2, <3>3, <3>4, <2>2
  <2>9. Collected(r, desks, amount, skip, i + 1) BY <2>1, <2>5, <2>6, <2>8 DEF Collected
  <2> QED BY <1>5, <2>9 DEF r
<1> QED BY <1>4, <1>5

\* What the loop has collected after i turns.
LEMMA LoopCollects ==
  ASSUME NEW desks \in Seq(Desks), Distinct(desks), NEW amount, NEW skip
  PROVE  \A i \in 0 .. Len(desks) :
           Collected(Loop(desks, amount, skip)[i], desks, amount, skip, i)
<1> DEFINE out == Loop(desks, amount, skip)
           T == {i \in Nat : i <= Len(desks) => Collected(out[i], desks, amount, skip, i)}
<1>0. Len(desks) \in Nat OBVIOUS
<1>1. 0 \in T
  <2>1. out[0] = <<>> BY LoopTurns
  <2>2. Collected(<<>>, desks, amount, skip, 0) BY DEF Collected
  <2> QED BY <2>1, <2>2
<1>2. ASSUME NEW i \in Nat, i \in T PROVE i + 1 \in T
  <2>1. SUFFICES ASSUME i + 1 <= Len(desks)
                 PROVE  Collected(out[i + 1], desks, amount, skip, i + 1)
    OBVIOUS
  <2>2. i + 1 \in 1 .. Len(desks) /\ i + 1 - 1 = i BY <2>1, <1>0
  <2>3. Collected(out[i], desks, amount, skip, i) BY <1>2, <2>1, <1>0
  <2>4. out[i + 1] = IF Engages(desks[i + 1], amount, skip)
                     THEN Append(out[i + 1 - 1], desks[i + 1]) ELSE out[i + 1 - 1]
    BY <2>2, LoopTurns
  <2> HIDE DEF out
  <2> QED BY <2>2, <2>3, <2>4, CollectedTurn
<1> HIDE DEF T
<1>3. \A i \in Nat : i \in T BY <1>1, <1>2, Induction
<1> QED BY <1>3, <1>0 DEF T

\* The desks of a definition ascend: a desk's band does not lie below the band
\* of a desk before it.  The matrices the service is seeded with for
\* requisitions ascend; "material.procurement" does not.
Ascends(desks) == \A i, j \in 1 .. Len(desks) : i < j => desks[i].min <= desks[j].min

\* q is r, or what r starts with.
Starts(q, r) == Len(q) <= Len(r) /\ \A x \in 1 .. Len(q) : q[x] = r[x]

\* In an ascending definition, from the first desk that only the larger of two
\* amounts engages, no desk engages at the smaller one.
LEMMA LoopStarts ==
  ASSUME NEW desks \in Seq(Desks), Distinct(desks), Ascends(desks), NEW skip,
         NEW a \in Nat, NEW b \in Nat, a <= b
  PROVE  Starts(Loop(desks, a, skip)[Len(desks)], Loop(desks, b, skip)[Len(desks)])
<1> DEFINE A == Loop(desks, a, skip)
           B == Loop(desks, b, skip)
           P(i) == \/ A[i] = B[i]
                   \/ Starts(A[i], B[i]) /\ \E j \in 1 .. i : desks[j].min > a
           T == {i \in Nat : i <= Len(desks) => P(i)}
<1>0. Len(desks) \in Nat OBVIOUS
<1>1. 0 \in T BY LoopTurns
<1>2. ASSUME NEW i \in Nat, i \in T PROVE i + 1 \in T
  <2>1. SUFFICES ASSUME i + 1 <= Len(desks) PROVE P(i + 1) OBVIOUS
  <2> DEFINE d == desks[i + 1]
  <2>2. i + 1 \in 1 .. Len(desks) /\ i + 1 - 1 = i /\ i \in 0 .. Len(desks) BY <2>1, <1>0
  <2>3. P(i) BY <1>2, <2>1, <1>0
  <2>4. /\ A[i + 1] = IF Engages(d, a, skip) THEN Append(A[i], d) ELSE A[i]
        /\ B[i + 1] = IF Engages(d, b, skip) THEN Append(B[i], d) ELSE B[i]
    BY <2>2, LoopTurns
  <2>5. A[i] \in Seq(Desks) /\ B[i] \in Seq(Desks)
    BY <2>2, LoopCollects DEF Collected
  <2>6. d \in Desks /\ d.min \in Nat
    <3>1. d \in Desks BY <2>2
    <3> QED BY <3>1, DeskFields
  <2> HIDE DEF A, B
  <2>7. Engages(d, a, skip) => Engages(d, b, skip) BY <2>6 DEF Engages
  <2>8. Starts(B[i], B[i + 1])
    BY <2>4, <2>5, <2>6, Appended DEF Starts
  <2>9. CASE A[i] = B[i]
    <3>1. CASE Engages(d, a, skip) <=> Engages(d, b, skip) BY <2>9, <2>4, <3>1
    <3>2. CASE ~Engages(d, a, skip) /\ Engages(d, b, skip)
      <4>1. d.min > a BY <3>2, <2>6 DEF Engages
      <4>2. A[i + 1] = B[i] BY <3>2, <2>4, <2>9
      <4> QED BY <4>1, <4>2, <2>8, <2>2
    <3> QED BY <3>1, <3>2, <2>7
  <2>10. CASE Starts(A[i], B[i]) /\ \E j \in 1 .. i : desks[j].min > a
    <3>1. PICK j \in 1 .. i : desks[j].min > a BY <2>10
    <3>2. j \in 1 .. Len(desks) /\ j < i + 1 /\ j \in 1 .. i + 1 BY <2>2
    <3>3. desks[j].min <= d.min BY <3>2, <2>2 DEF Ascends
    <3>4. desks[j].min \in Nat
      <4>1. desks[j] \in Desks BY <3>2
      <4> QED BY <4>1, DeskFields
    <3>5. ~Engages(d, a, skip) BY <3>1, <3>3, <3>4, <2>6 DEF Engages
    <3>6. A[i + 1] = A[i] BY <3>5, <2>4
    <3>7. Starts(A[i], B[i + 1])
      <4>1. Len(A[i]) \in Nat /\ Len(B[i]) \in Nat /\ B[i + 1] \in Seq(Desks)
        BY <2>4, <2>5, <2>6
      <4>2. Len(B[i + 1]) \in Nat BY <4>1
      <4>3. Len(A[i]) <= Len(B[i + 1]) BY <2>10, <2>8, <4>1, <4>2 DEF Starts
      <4>4. ASSUME NEW x \in 1 .. Len(A[i]) PROVE A[i][x] = B[i + 1][x]
        <5>1. x \in 1 .. Len(B[i]) BY <2>10, <4>1 DEF Starts
        <5> QED BY <5>1, <2>10, <2>8 DEF Starts
      <4> QED BY <4>3, <4>4 DEF Starts
    <3> QED BY <3>1, <3>2, <3>6, <3>7
  <2> QED BY <2>3, <2>9, <2>10
<1> HIDE DEF T
<1>3. P(Len(desks))
  <2>1. Len(desks) \in T BY <1>1, <1>2, <1>0, Induction
  <2> HIDE DEF P
  <2> QED BY <2>1, <1>0 DEF T
<1>4. Len(desks) \in 0 .. Len(desks) BY <1>0
<1>5. A[Len(desks)] \in Seq(Desks) BY <1>4, LoopCollects DEF Collected
<1> QED BY <1>3, <1>5 DEF Starts

\* The definitions a process may hold.
Definitions == Matrices \cup {NoMatrix}

\* A definition's desks are a sequence of desks with distinct keys.
LEMMA DefinitionDesks ==
  ASSUME NEW c \in Definitions
  PROVE  c.desks \in Seq(Desks) /\ Distinct(c.desks)
<1>1. CASE c \in Matrices
  <2>1. /\ c.desks \in Seq([key : DeskKeys, min : Nat])
        /\ \A i, j \in DOMAIN c.desks : c.desks[i].key = c.desks[j].key => i = j
    BY <1>1, DeskAssumption
  <2>2. c.desks \in Seq(Desks) BY <2>1 DEF Desks
  <2>3. DOMAIN c.desks = 1 .. Len(c.desks) BY <2>2
  <2> QED BY <2>1, <2>2, <2>3 DEF Distinct
<1>2. CASE c = NoMatrix
  <2>1. c.desks = <<>> BY <1>2 DEF NoMatrix
  <2>2. <<>> \in Seq(Desks) /\ Len(<<>>) = 0 OBVIOUS
  <2> QED BY <2>1, <2>2 DEF Distinct
<1> QED BY <1>1, <1>2 DEF Definitions

\* The desks that engage are desks of the definition, none twice.
LEMMA EngagedDesks ==
  ASSUME NEW c \in Definitions, NEW amount, NEW skip
  PROVE  /\ Engaged(c, amount, skip) \in Seq(Desks)
         /\ \A x \in 1 .. Len(Engaged(c, amount, skip)) :
              /\ Engaged(c, amount, skip)[x].key \in DeskKeys
              /\ \E j \in DOMAIN c.desks : Engaged(c, amount, skip)[x] = c.desks[j]
         /\ \A x, y \in 1 .. Len(Engaged(c, amount, skip)) :
              Engaged(c, amount, skip)[x].key = Engaged(c, amount, skip)[y].key => x = y
<1> DEFINE q == Engaged(c, amount, skip)
<1>1. c.desks \in Seq(Desks) /\ Distinct(c.desks) BY DefinitionDesks
<1>2. Len(c.desks) \in 0 .. Len(c.desks) /\ DOMAIN c.desks = 1 .. Len(c.desks) BY <1>1
<1>3. Collected(q, c.desks, amount, skip, Len(c.desks))
  BY <1>1, <1>2, LoopCollects, EngagedIsLoop
<1> HIDE DEF q
<1>4. q \in Seq(Desks) BY <1>3 DEF Collected
<1>5. ASSUME NEW x \in 1 .. Len(q)
      PROVE  q[x].key \in DeskKeys /\ \E j \in DOMAIN c.desks : q[x] = c.desks[j]
  <2>1. q[x] \in Desks BY <1>4
  <2> QED BY <2>1, DeskFields, <1>2, <1>3 DEF Collected
<1>6. \A x, y \in 1 .. Len(q) : q[x].key = q[y].key => x = y BY <1>3 DEF Collected
<1> QED BY <1>4, <1>5, <1>6 DEF q

\* The keys of a sequence of desks.
LEMMA KeysOfDesks ==
  ASSUME NEW q \in Seq(Desks)
  PROVE  KeysOf(q) = {q[i].key : i \in 1 .. Len(q)}
  BY DEF KeysOf

-----------------------------------------------------------------------------
(* Types *)

Cursors == DeskKeys \cup {Nil}
SkipLists == SUBSET DeskKeys
Requesters == People \cup {Nil}
Histories == Seq(Steps)

\* Rows of requisition_approval_state, with their steps.
States == [status : Statuses, desk : Cursors, stage : Int, amount : Nat,
           skip : SkipLists, requester : Requesters, history : Histories]

\* The inductive invariant for types.
Typed ==
    /\ total \in Amounts
    /\ st \in States
    /\ st.status = "none" => st = NoState
    /\ st.status # "none" => st.requester \in People \ {Blank}
    /\ matrix \in Definitions
    /\ engine \in [Processes -> Definitions]
    /\ recut \in Definitions \cup {Nil}
    /\ route \subseteq Definitions

\* The fields of a state.
LEMMA StateFields ==
  ASSUME NEW s \in States
  PROVE  /\ s.status \in Statuses /\ s.desk \in DeskKeys \cup {Nil} /\ s.stage \in Int
         /\ s.amount \in Nat /\ s.skip \subseteq DeskKeys
         /\ s.requester \in People \cup {Nil} /\ s.history \in Seq(Steps)
  BY DEF States, Cursors, SkipLists, Requesters, Histories

\* Nobody has opened a chain yet: that is a state.
LEMMA NoStateFields ==
  /\ NoState \in States /\ NoState.status = "none" /\ NoState.history = <<>>
  /\ NoState.desk = Nil /\ NoState.stage = -1 /\ NoState.amount = 0
  /\ NoState.skip = {} /\ NoState.requester = Nil
<1>1. <<>> \in Seq(Steps) OBVIOUS
<1> QED BY <1>1 DEF NoState, States, Statuses, Cursors, SkipLists, Requesters, Histories

\* What openDeskChainTx inserts.
LEMMA OpenedFields ==
  ASSUME total \in Nat, NEW a \in People, NEW skip \in SUBSET DeskKeys
  PROVE  /\ Opened(a, skip) \in States
         /\ Opened(a, skip).status = "draft" /\ Opened(a, skip).amount = total
         /\ Opened(a, skip).skip = skip /\ Opened(a, skip).requester = a
         /\ Opened(a, skip).history = <<>>
<1>1. PICK n \in States : n = NoState BY NoStateFields
<1>2. n.history = <<>> BY <1>1, NoStateFields
<1> DEFINE r == [n EXCEPT !.status = "draft", !.amount = total, !.skip = skip, !.requester = a]
<1>3. /\ r \in States /\ r.status = "draft" /\ r.amount = total /\ r.skip = skip
      /\ r.requester = a /\ r.history = n.history
  <2>1. a \in Requesters /\ skip \in SkipLists BY DEF Requesters, SkipLists
  <2> QED BY <2>1 DEF States, Statuses
<1>4. Opened(a, skip) = r BY <1>1 DEF Opened
<1> HIDE DEF r
<1> QED BY <1>2, <1>3, <1>4

\* Rebase moves the amount to the live total and, for a request in flight, the
\* cursor; nothing else of the state.
LEMMA RebasedFields ==
  ASSUME total \in Nat, NEW c \in Definitions, NEW s \in States, Rebases(c, s)
  PROVE  /\ Rebased(c, s) \in States
         /\ Rebased(c, s).status = s.status /\ Rebased(c, s).desk = s.desk
         /\ Rebased(c, s).amount = total /\ Rebased(c, s).skip = s.skip
         /\ Rebased(c, s).requester = s.requester /\ Rebased(c, s).history = s.history
         /\ s.status # "in_flight" => Rebased(c, s).stage = s.stage
<1>1. CASE s.amount = total
  <2>1. Rebased(c, s) = s BY <1>1 DEF Rebased
  <2> QED BY <1>1, <2>1
<1>2. CASE s.amount # total /\ s.status # "in_flight"
  <2> DEFINE r == [s EXCEPT !.amount = total]
  <2>1. /\ r \in States /\ r.status = s.status /\ r.desk = s.desk /\ r.amount = total
        /\ r.skip = s.skip /\ r.requester = s.requester /\ r.history = s.history
        /\ r.stage = s.stage
    BY DEF States
  <2>2. Rebased(c, s) = r BY <1>2 DEF Rebased
  <2> HIDE DEF r
  <2> QED BY <2>1, <2>2
<1>3. CASE s.amount # total /\ s.status = "in_flight"
  <2> DEFINE q == Engaged(c, total, s.skip)
             i == CHOOSE x \in DOMAIN q : q[x].key = s.desk
  <2>1. q \in Seq(Desks) BY EngagedDesks
  <2>2. s.desk \in KeysOf(q) BY <1>3 DEF Rebases
  <2>3. Rebased(c, s) = [s EXCEPT !.amount = total, !.stage = i - 1]
    BY <1>3 DEF Rebased
  <2> HIDE DEF q
  <2>4. \E x \in DOMAIN q : q[x].key = s.desk BY <2>2 DEF KeysOf
  <2>5. i \in DOMAIN q BY <2>4
  <2> HIDE DEF i
  <2>6. i \in Int /\ i - 1 \in Int BY <2>1, <2>5
  <2> DEFINE r == [s EXCEPT !.amount = total, !.stage = i - 1]
  <2>7. /\ r \in States /\ r.status = s.status /\ r.desk = s.desk /\ r.amount = total
        /\ r.skip = s.skip /\ r.requester = s.requester /\ r.history = s.history
    BY <2>6 DEF States
  <2> HIDE DEF r
  <2> QED BY <1>3, <2>3, <2>7 DEF r
<1> QED BY <1>1, <1>2, <1>3

-----------------------------------------------------------------------------
(* What each transition does to the state.                                   *)

Step(desk, action, a, override) ==
    [desk |-> desk, action |-> action, actor |-> a, override |-> override]

Actions == {"submit", "advance", "reject", "amend", "cancel"}

\* A recorded step is a step, and its fields are what was recorded.
LEMMA StepFields ==
  ASSUME NEW desk \in DeskKeys \cup {Nil}, NEW action \in Actions, NEW a \in People,
         NEW override \in BOOLEAN
  PROVE  /\ Step(desk, action, a, override) \in Steps
         /\ Step(desk, action, a, override).desk = desk
         /\ Step(desk, action, a, override).action = action
         /\ Step(desk, action, a, override).actor = a
  BY DEF Step, Steps, Actions

\* What all transitions share: the state stays a state, keeps its skip list and
\* its requester, takes the live total, and its history grows by one step.
Moves(e, before, a, desk, action) ==
    /\ engine[e] \in Definitions
    /\ st' \in States
    /\ before.status # "none"
    /\ st'.amount = total /\ st'.skip = before.skip /\ st'.requester = before.requester
    /\ \E o \in BOOLEAN : st'.history = Append(before.history, Step(desk, action, a, o))
    /\ UNCHANGED <<total, matrix, engine, recut>>

\* The request is on the desk that follows k others.
Sits(e, k) ==
    /\ k \in 0 .. Len(Engaged(engine[e], total, st.skip)) - 1
    /\ st.desk = Engaged(engine[e], total, st.skip)[k + 1].key

\* The state a submit starts from.
Draft(a) == IF st.status = "none" THEN Opened(a, {}) ELSE st

\* It is a state with a requester.
LEMMA DraftFields ==
  ASSUME Typed, NEW a \in People
  PROVE  /\ Draft(a) \in States
         /\ a # Blank => Draft(a).requester \in People \ {Blank}
         /\ Draft(a).history = st.history
         /\ st.status = "none" => Draft(a).status = "draft"
         /\ st.status # "none" => Draft(a) = st
<1>1. total \in Nat BY DeskAssumption DEF Typed
<1>2. CASE st.status = "none"
  <2>1. Draft(a) = Opened(a, {}) BY <1>2 DEF Draft
  <2>2. st.history = <<>> BY <1>2, NoStateFields DEF Typed
  <2>3. {} \in SUBSET DeskKeys OBVIOUS
  <2> QED BY <1>1, <1>2, <2>1, <2>2, <2>3, OpenedFields
<1>3. CASE st.status # "none"
  <2>1. Draft(a) = st BY <1>3 DEF Draft
  <2> QED BY <1>3, <2>1 DEF Typed
<1> QED BY <1>2, <1>3

\* A submit puts the request on the first desk that engages.
LEMMA SubmitMoves ==
  ASSUME Typed, NEW e \in Processes, NEW a \in People, Submit(e, a)
  PROVE  /\ Draft(a).status \in {"draft", "returned"}
         /\ Moves(e, Draft(a), a, st'.desk, "submit")
         /\ st'.status = "in_flight" /\ st'.stage = 0
         /\ 1 \in 1 .. Len(Engaged(engine[e], st'.amount, st'.skip))
         /\ st'.desk = Engaged(engine[e], st'.amount, st'.skip)[1].key
         /\ route' = {engine[e]}
<1> DEFINE c == engine[e]
           b == Draft(a)
           s == Rebased(c, b)
           q == Engaged(c, s.amount, s.skip)
           f == q[1].key
           h == Recorded(s, f, "submit", a, FALSE)
           r == [s EXCEPT !.status = "in_flight", !.stage = 0, !.desk = f,
                          !.history = h]
<1>1. /\ b.status \in {"draft", "returned"} /\ Routable(c, s)
      /\ applyDeskTransition(e, b, r) /\ route' = {c}
  BY DEF Submit, Draft
<1>2. /\ c \in Definitions /\ total \in Nat /\ b \in States
  BY DraftFields, DeskAssumption DEF Typed
<1>3. /\ Rebases(c, b) /\ b.status # "none" /\ st' = r
      /\ UNCHANGED <<total, matrix, engine, recut>>
  BY <1>1 DEF applyDeskTransition
<1> HIDE DEF b, c
<1>4. /\ s \in States /\ s.amount = total /\ s.skip = b.skip
      /\ s.requester = b.requester /\ s.history = b.history
  BY <1>2, <1>3, RebasedFields
<1>5. q # <<>> BY <1>1 DEF Routable
<1>6. q \in Seq(Desks) BY <1>2, EngagedDesks
<1>7. 1 \in 1 .. Len(q) BY <1>5, <1>6
<1>8. q[1].key \in DeskKeys BY <1>2, <1>7, EngagedDesks
<1>9. q = Engaged(c, total, b.skip) BY <1>4
<1> HIDE DEF s, q
<1>10. h = Append(b.history, Step(q[1].key, "submit", a, FALSE)) BY <1>4 DEF Recorded, Step
<1>11. Step(q[1].key, "submit", a, FALSE) \in Steps BY <1>8, StepFields DEF Actions
<1>12. h \in Seq(Steps)
  <2>1. b.history \in Seq(Steps) BY <1>2, StateFields
  <2> HIDE DEF h
  <2> QED BY <2>1, <1>10, <1>11, Appended
<1> HIDE DEF h
<1>13. /\ r \in States /\ r.status = "in_flight" /\ r.stage = 0 /\ r.desk = f
       /\ r.history = h /\ r.amount = s.amount /\ r.skip = s.skip
       /\ r.requester = s.requester
  <2>1. f \in Cursors /\ h \in Histories BY <1>8, <1>12 DEF Cursors, Histories
  <2>2. PICK x \in States : x = s BY <1>4
  <2>3. PICK z \in Int : z = 0 OBVIOUS
  <2> DEFINE y == [x EXCEPT !.status = "in_flight", !.stage = z, !.desk = f, !.history = h]
  <2>4. r = y BY <2>2, <2>3
  <2> HIDE DEF f, r
  <2>5. y \in States BY <2>1 DEF States, Statuses
  <2>6. /\ y.status = "in_flight" /\ y.stage = z /\ y.desk = f
        /\ y.history = h /\ y.amount = x.amount /\ y.skip = x.skip
        /\ y.requester = x.requester
    BY <2>1 DEF States
  <2> HIDE DEF y
  <2> QED BY <2>2, <2>3, <2>4, <2>5, <2>6
<1> HIDE DEF r
<1> QED BY <1>1, <1>2, <1>3, <1>4, <1>7, <1>9, <1>10, <1>13 DEF Moves, b, c

\* What Advance, Reject and Amend find: the request in flight, on a desk.
LEMMA RebasedSits ==
  ASSUME Typed, NEW e \in Processes, Rebases(engine[e], st),
         OnDesk(Rebased(engine[e], st),
                Engaged(engine[e], Rebased(engine[e], st).amount, Rebased(engine[e], st).skip))
  PROVE  /\ engine[e] \in Definitions /\ st.status = "in_flight"
         /\ Sits(e, Rebased(engine[e], st).stage)
         /\ Engaged(engine[e], Rebased(engine[e], st).amount, Rebased(engine[e], st).skip)
              = Engaged(engine[e], total, st.skip)
<1>1. engine[e] \in Definitions /\ total \in Nat /\ st \in States BY DeskAssumption DEF Typed
<1> QED BY <1>1, RebasedFields DEF OnDesk, Sits

\* An advance signs the desk the request sits on, and moves it to the next desk
\* or, from the last, to approved.
LEMMA AdvanceMoves ==
  ASSUME Typed, NEW e \in Processes, NEW a \in People, Advance(e, a)
  PROVE  /\ st.status = "in_flight"
         /\ Moves(e, st, a, st.desk, "advance")
         /\ sameActor(a, st.requester) => a \in Admins
         /\ engine[e].noRepeat /\ hasAlreadyAdvanced(st.history, a) => a \in Admins
         /\ \E k \in Nat :
              /\ Sits(e, k)
              /\ \/ /\ k + 1 = Len(Engaged(engine[e], total, st.skip))
                    /\ st'.status = "approved"
                 \/ /\ k + 2 \in 1 .. Len(Engaged(engine[e], total, st.skip))
                    /\ st'.status = "in_flight" /\ st'.stage = k + 1
                    /\ st'.desk = Engaged(engine[e], total, st.skip)[k + 2].key
         /\ route' = route \cup {engine[e]}
<1> DEFINE c == engine[e]
           s == Rebased(c, st)
           q == Engaged(c, s.amount, s.skip)
           h == Recorded(s, s.desk, "advance", a, Overrides(a, s.desk))
           last == [s EXCEPT !.status = "approved", !.desk = Nil, !.stage = Len(q),
                             !.history = h]
           next == [s EXCEPT !.stage = s.stage + 1, !.desk = q[s.stage + 2].key,
                             !.history = h]
<1>1. /\ Rebases(c, st) /\ MayAdvance(c, s, a)
      /\ applyDeskTransition(e, st, IF AtLastDesk(s, q) THEN last ELSE next)
      /\ route' = route \cup {c}
  BY DEF Advance
<1>2. c \in Definitions /\ total \in Nat /\ st \in States BY DeskAssumption DEF Typed
<1>3. /\ st.status # "none" /\ st' = IF AtLastDesk(s, q) THEN last ELSE next
      /\ UNCHANGED <<total, matrix, engine, recut>>
  BY <1>1 DEF applyDeskTransition
<1>4. /\ s \in States /\ s.status = st.status /\ s.desk = st.desk /\ s.amount = total
      /\ s.skip = st.skip /\ s.requester = st.requester /\ s.history = st.history
  BY <1>1, <1>2, RebasedFields
<1>5. OnDesk(s, q) BY <1>1 DEF MayAdvance
<1>6. st.status = "in_flight" /\ Sits(e, s.stage) /\ q = Engaged(c, total, st.skip)
  BY <1>1, <1>5, RebasedSits
<1>7. s.stage \in 0 .. Len(q) - 1 BY <1>6 DEF Sits
<1>8. /\ sameActor(a, st.requester) => a \in Admins
      /\ c.noRepeat /\ hasAlreadyAdvanced(st.history, a) => a \in Admins
  BY <1>1, <1>4 DEF MayAdvance
<1>9. q \in Seq(Desks) /\ \A x \in 1 .. Len(q) : q[x].key \in DeskKeys
  BY <1>2, EngagedDesks
<1>10. Len(q) \in Nat BY <1>9
<1> DEFINE o == Overrides(a, s.desk)
<1>11. o \in BOOLEAN BY DEF Overrides
<1> HIDE DEF s, q, o
<1>12. h = Append(st.history, Step(st.desk, "advance", a, o)) BY <1>4 DEF Recorded, Step, o
<1>13. Step(st.desk, "advance", a, o) \in Steps
  BY <1>2, <1>11, StateFields, StepFields DEF Actions
<1>14. h \in Seq(Steps) BY <1>12, <1>13, <1>2, StateFields
<1> HIDE DEF h
<1>15. CASE AtLastDesk(s, q)
  <2>1. /\ last \in States /\ last.status = "approved" /\ last.history = h
        /\ last.amount = s.amount /\ last.skip = s.skip /\ last.requester = s.requester
    <3>1. Nil \in Cursors /\ h \in Histories /\ Len(q) \in Int
      BY <1>10, <1>14 DEF Cursors, Histories
    <3> QED BY <1>4, <3>1 DEF States, Statuses
  <2>2. st' = last BY <1>3, <1>15
  <2>3. s.stage + 1 = Len(q) /\ s.stage \in Nat BY <1>7, <1>10, <1>15 DEF AtLastDesk
  <2> HIDE DEF last
  <2>4. Moves(e, st, a, st.desk, "advance")
    BY <1>2, <1>3, <1>4, <1>11, <1>12, <2>1, <2>2 DEF Moves
  <2> QED BY <1>1, <1>6, <1>8, <2>1, <2>2, <2>3, <2>4
<1>16. CASE ~AtLastDesk(s, q)
  <2>1. s.stage + 2 \in 1 .. Len(q) /\ s.stage \in Nat /\ s.stage + 1 \in Int
    BY <1>7, <1>10, <1>16 DEF AtLastDesk
  <2>2. q[s.stage + 2].key \in DeskKeys BY <1>9, <2>1
  <2>3. /\ next \in States /\ next.status = s.status /\ next.history = h
        /\ next.amount = s.amount /\ next.skip = s.skip /\ next.requester = s.requester
        /\ next.stage = s.stage + 1 /\ next.desk = q[s.stage + 2].key
    <3>1. q[s.stage + 2].key \in Cursors /\ h \in Histories
      BY <1>14, <2>2 DEF Cursors, Histories
    <3> QED BY <1>4, <2>1, <3>1 DEF States
  <2>4. st' = next BY <1>3, <1>16
  <2> HIDE DEF next
  <2>5. Moves(e, st, a, st.desk, "advance")
    BY <1>2, <1>3, <1>4, <1>11, <1>12, <2>3, <2>4 DEF Moves
  <2> QED BY <1>1, <1>4, <1>6, <1>8, <2>1, <2>3, <2>4, <2>5
<1> QED BY <1>15, <1>16

\* The new history of a transition of e by a is a history.
LEMMA RecordedHistory ==
  ASSUME NEW s \in States, NEW desk \in Cursors, NEW action \in Actions, NEW a \in People,
         NEW o \in BOOLEAN
  PROVE  /\ Recorded(s, desk, action, a, o) \in Histories
         /\ Recorded(s, desk, action, a, o) = Append(s.history, Step(desk, action, a, o))
<1>1. Recorded(s, desk, action, a, o) = Append(s.history, Step(desk, action, a, o))
  BY DEF Recorded, Step
<1>2. Step(desk, action, a, o) \in Steps BY StepFields DEF Cursors
<1>3. s.history \in Seq(Steps) BY StateFields
<1>4. Append(s.history, Step(desk, action, a, o)) \in Seq(Steps) BY <1>2, <1>3, Appended
<1> QED BY <1>1, <1>4 DEF Histories

\* A rejection leaves the cursor on the desk that refused.
LEMMA RejectMoves ==
  ASSUME Typed, NEW e \in Processes, NEW a \in People, Reject(e, a)
  PROVE  /\ st.status = "in_flight" /\ st'.status = "rejected"
         /\ Moves(e, st, a, st.desk, "reject")
         /\ st'.desk = st.desk /\ Sits(e, st'.stage)
         /\ route' = route \cup {engine[e]}
<1> DEFINE c == engine[e]
           s == Rebased(c, st)
           o == Overrides(a, s.desk)
           h == Recorded(s, s.desk, "reject", a, o)
           r == [s EXCEPT !.status = "rejected", !.history = h]
<1>1. /\ Rebases(c, st) /\ OnDesk(s, Engaged(c, s.amount, s.skip))
      /\ applyDeskTransition(e, st, r) /\ route' = route \cup {c}
  BY DEF Reject
<1>2. c \in Definitions /\ total \in Nat /\ st \in States BY DeskAssumption DEF Typed
<1>3. st.status # "none" /\ st' = r /\ UNCHANGED <<total, matrix, engine, recut>>
  BY <1>1 DEF applyDeskTransition
<1>4. /\ s \in States /\ s.status = st.status /\ s.desk = st.desk /\ s.amount = total
      /\ s.skip = st.skip /\ s.requester = st.requester /\ s.history = st.history
  BY <1>1, <1>2, RebasedFields
<1>5. st.status = "in_flight" /\ Sits(e, s.stage) BY <1>1, RebasedSits
<1>6. o \in BOOLEAN /\ s.desk \in Cursors BY <1>4, StateFields DEF Overrides, Cursors
<1> HIDE DEF s, o
<1>7. h \in Histories /\ h = Append(st.history, Step(st.desk, "reject", a, o))
  BY <1>4, <1>6, RecordedHistory DEF Actions
<1> HIDE DEF h
<1>8. PICK x \in States : x = s BY <1>4
<1> DEFINE y == [x EXCEPT !.status = "rejected", !.history = h]
<1>9. st' = y BY <1>3, <1>8
<1>10. /\ y \in States /\ y.status = "rejected" /\ y.history = h /\ y.desk = x.desk
       /\ y.stage = x.stage /\ y.amount = x.amount /\ y.skip = x.skip
       /\ y.requester = x.requester
  BY <1>7 DEF States, Statuses
<1> HIDE DEF y
<1>11. Moves(e, st, a, st.desk, "reject")
  BY <1>2, <1>3, <1>4, <1>6, <1>7, <1>8, <1>9, <1>10 DEF Moves
<1> QED BY <1>1, <1>4, <1>5, <1>8, <1>9, <1>10, <1>11

\* An amendment returns the request to its requester.
LEMMA AmendMoves ==
  ASSUME Typed, NEW e \in Processes, NEW a \in People, Amend(e, a)
  PROVE  /\ st.status = "in_flight" /\ st'.status = "returned"
         /\ Moves(e, st, a, st.desk, "amend")
         /\ route' = route \cup {engine[e]}
<1> DEFINE c == engine[e]
           s == Rebased(c, st)
           o == Overrides(a, s.desk)
           h == Recorded(s, s.desk, "amend", a, o)
           r == [s EXCEPT !.status = "returned", !.stage = -1, !.history = h]
<1>1. /\ Rebases(c, st) /\ OnDesk(s, Engaged(c, s.amount, s.skip))
      /\ applyDeskTransition(e, st, r) /\ route' = route \cup {c}
  BY DEF Amend
<1>2. c \in Definitions /\ total \in Nat /\ st \in States BY DeskAssumption DEF Typed
<1>3. st.status # "none" /\ st' = r /\ UNCHANGED <<total, matrix, engine, recut>>
  BY <1>1 DEF applyDeskTransition
<1>4. /\ s \in States /\ s.status = st.status /\ s.desk = st.desk /\ s.amount = total
      /\ s.skip = st.skip /\ s.requester = st.requester /\ s.history = st.history
  BY <1>1, <1>2, RebasedFields
<1>5. st.status = "in_flight" BY <1>1, RebasedSits
<1>6. o \in BOOLEAN /\ s.desk \in Cursors BY <1>4, StateFields DEF Overrides, Cursors
<1> HIDE DEF s, o
<1>7. h \in Histories /\ h = Append(st.history, Step(st.desk, "amend", a, o))
  BY <1>4, <1>6, RecordedHistory DEF Actions
<1> HIDE DEF h
<1>8. PICK x \in States : x = s BY <1>4
<1>9. PICK z \in Int : z = -1 OBVIOUS
<1> DEFINE y == [x EXCEPT !.status = "returned", !.stage = z, !.history = h]
<1>10. st' = y BY <1>3, <1>8, <1>9
<1>11. /\ y \in States /\ y.status = "returned" /\ y.history = h
       /\ y.amount = x.amount /\ y.skip = x.skip /\ y.requester = x.requester
  BY <1>7 DEF States, Statuses
<1> HIDE DEF y
<1>12. Moves(e, st, a, st.desk, "amend")
  BY <1>2, <1>3, <1>4, <1>6, <1>7, <1>8, <1>10, <1>11 DEF Moves
<1> QED BY <1>1, <1>5, <1>10, <1>11, <1>12

\* A cancellation ends a request that is open.
LEMMA CancelMoves ==
  ASSUME Typed, NEW e \in Processes, NEW a \in People, Cancel(e, a)
  PROVE  /\ st.status \in {"draft", "in_flight", "returned"} /\ st'.status = "cancelled"
         /\ Moves(e, st, a, st.desk, "cancel")
         /\ route' = route \cup {engine[e]}
<1> DEFINE c == engine[e]
           s == Rebased(c, st)
           o == ~sameActor(a, s.requester)
           h == Recorded(s, s.desk, "cancel", a, o)
           r == [s EXCEPT !.status = "cancelled", !.history = h]
<1>1. /\ Rebases(c, st) /\ Open(s.status)
      /\ applyDeskTransition(e, st, r) /\ route' = route \cup {c}
  BY DEF Cancel
<1>2. c \in Definitions /\ total \in Nat /\ st \in States BY DeskAssumption DEF Typed
<1>3. st.status # "none" /\ st' = r /\ UNCHANGED <<total, matrix, engine, recut>>
  BY <1>1 DEF applyDeskTransition
<1>4. /\ s \in States /\ s.status = st.status /\ s.desk = st.desk /\ s.amount = total
      /\ s.skip = st.skip /\ s.requester = st.requester /\ s.history = st.history
  BY <1>1, <1>2, RebasedFields
<1>5. st.status \in {"draft", "in_flight", "returned"} BY <1>1, <1>4 DEF Open
<1>6. o \in BOOLEAN /\ s.desk \in Cursors BY <1>4, StateFields DEF Cursors
<1> HIDE DEF s, o
<1>7. h \in Histories /\ h = Append(st.history, Step(st.desk, "cancel", a, o))
  BY <1>4, <1>6, RecordedHistory DEF Actions
<1> HIDE DEF h
<1>8. PICK x \in States : x = s BY <1>4
<1> DEFINE y == [x EXCEPT !.status = "cancelled", !.history = h]
<1>9. st' = y BY <1>3, <1>8
<1>10. /\ y \in States /\ y.status = "cancelled" /\ y.history = h
       /\ y.amount = x.amount /\ y.skip = x.skip /\ y.requester = x.requester
  BY <1>7 DEF States, Statuses
<1> HIDE DEF y
<1>11. Moves(e, st, a, st.desk, "cancel")
  BY <1>2, <1>3, <1>4, <1>6, <1>7, <1>8, <1>9, <1>10 DEF Moves
<1> QED BY <1>1, <1>5, <1>9, <1>10, <1>11

\* Reopening goes back to the index the rejection left.
LEMMA ReopenMoves ==
  ASSUME Typed, NEW e \in Processes, NEW a \in People, Reopen(e, a)
  PROVE  /\ st.status = "rejected" /\ st'.status = "in_flight"
         /\ Moves(e, st, a, st'.desk, "submit")
         /\ st'.stage = st.stage
         /\ st.stage \in 0 .. Len(Engaged(engine[e], total, st.skip)) - 1
         /\ st'.desk = Engaged(engine[e], total, st.skip)[st.stage + 1].key
         /\ route' = route \cup {engine[e]}
<1> DEFINE c == engine[e]
           s == Rebased(c, st)
           q == Engaged(c, s.amount, s.skip)
           d == q[s.stage + 1].key
           h == Recorded(s, d, "submit", a, TRUE)
           r == [s EXCEPT !.status = "in_flight", !.desk = d, !.history = h]
<1>1. /\ Rebases(c, st) /\ s.status = "rejected" /\ s.stage \in 0 .. Len(q) - 1
      /\ applyDeskTransition(e, st, r) /\ route' = route \cup {c}
  BY DEF Reopen, ReopenDesk
<1>2. c \in Definitions /\ total \in Nat /\ st \in States BY DeskAssumption DEF Typed
<1>3. st.status # "none" /\ st' = r /\ UNCHANGED <<total, matrix, engine, recut>>
  BY <1>1 DEF applyDeskTransition
<1>4. /\ s \in States /\ s.status = st.status /\ s.amount = total /\ s.skip = st.skip
      /\ s.requester = st.requester /\ s.history = st.history
      /\ st.status # "in_flight" => s.stage = st.stage
  BY <1>1, <1>2, RebasedFields
<1>5. st.status = "rejected" /\ s.stage = st.stage BY <1>1, <1>4
<1>6. q \in Seq(Desks) /\ \A x \in 1 .. Len(q) : q[x].key \in DeskKeys
  BY <1>2, EngagedDesks
<1>7. s.stage + 1 \in 1 .. Len(q) BY <1>1, <1>6
<1>8. d \in Cursors BY <1>6, <1>7 DEF Cursors
<1>9. q = Engaged(c, total, st.skip) BY <1>4
<1>10. d = Engaged(c, total, st.skip)[st.stage + 1].key BY <1>4, <1>5
<1> HIDE DEF s, q, d
<1>11. h \in Histories /\ h = Append(st.history, Step(d, "submit", a, TRUE))
  BY <1>4, <1>8, RecordedHistory DEF Actions
<1> HIDE DEF h
<1>12. PICK x \in States : x = s BY <1>4
<1> DEFINE y == [x EXCEPT !.status = "in_flight", !.desk = d, !.history = h]
<1>13. st' = y BY <1>3, <1>12
<1>14. /\ y \in States /\ y.status = "in_flight" /\ y.history = h /\ y.desk = d
       /\ y.stage = x.stage /\ y.amount = x.amount /\ y.skip = x.skip
       /\ y.requester = x.requester
  BY <1>8, <1>11 DEF States, Statuses
<1> HIDE DEF y
<1>15. Moves(e, st, a, st'.desk, "submit")
  BY <1>2, <1>3, <1>4, <1>11, <1>12, <1>13, <1>14 DEF Moves
<1> QED BY <1>1, <1>5, <1>9, <1>10, <1>12, <1>13, <1>14, <1>15

\* Opening a chain.
LEMMA OpenMoves ==
  ASSUME Typed, NEW e \in Processes, NEW a \in People, NEW skip \in Skips,
         OpenDeskChain(e, a, skip)
  PROVE  /\ st.status = "none" /\ st' \in States /\ st'.status = "draft"
         /\ st'.requester \in People \ {Blank} /\ st'.history = <<>>
         /\ UNCHANGED <<total, matrix, engine, recut, route>>
<1>1. total \in Nat /\ skip \in SUBSET DeskKeys BY DeskAssumption DEF Typed
<1>2. st' = Opened(a, skip) BY DEF OpenDeskChain
<1> QED BY <1>1, <1>2, OpenedFields DEF OpenDeskChain

\* A step moves the request, or leaves it and its route alone.
Quiet ==
    /\ UNCHANGED <<st, route>>
    /\ total' \in Amounts /\ matrix' \in Definitions /\ recut' \in Definitions \cup {Nil}
    /\ engine' \in [Processes -> Definitions]

\* The steps around a request are quiet.
LEMMA QuietSteps ==
  ASSUME Typed
  PROVE  /\ (\E t \in Amounts : UpdateTotal(t)) => Quiet
         /\ putDeskChain \/ deleteDeskChain \/ reloadDeskChains => Quiet
         /\ (\E e \in Processes : WriteDeskChain(e)) => Quiet
         /\ UNCHANGED vars => Quiet
<1> USE DEF Typed, Quiet
<1>1. ASSUME NEW t \in Amounts, UpdateTotal(t) PROVE Quiet BY <1>1 DEF UpdateTotal
<1>2. ASSUME NEW c \in Matrices, ReplaceDeskChainCount(c) PROVE Quiet
  BY <1>2 DEF ReplaceDeskChainCount, Definitions
<1>3. ASSUME DeleteDeskChainCount PROVE Quiet
  BY <1>3 DEF DeleteDeskChainCount, Definitions
<1>4. ASSUME NEW e \in Processes, ReloadDeskChains(e) PROVE Quiet
  BY <1>4 DEF ReloadDeskChains
<1>5. ASSUME NEW e \in Processes, WriteDeskChain(e) PROVE Quiet
  BY <1>5 DEF WriteDeskChain
<1>6. ASSUME UNCHANGED vars PROVE Quiet BY <1>6 DEF vars
<1> QED BY <1>1, <1>2, <1>3, <1>4, <1>5, <1>6
       DEF putDeskChain, deleteDeskChain, reloadDeskChains

\* The steps of the specification, one disjunct per kind of step.
LEMMA StepKinds ==
  ASSUME Typed, [Next]_vars
  PROVE  \/ Quiet
         \/ \E e \in Processes, a \in People, skip \in Skips : OpenDeskChain(e, a, skip)
         \/ \E e \in Processes, a \in People :
              \/ Submit(e, a) \/ Advance(e, a) \/ Reject(e, a) \/ Amend(e, a)
              \/ Cancel(e, a) \/ Reopen(e, a)
<1>1. CASE Next
  BY <1>1, QuietSteps
  DEF Next, openRequisitionDeskChain, submitRequisitionToDesk, advanceRequisitionDesk,
      rejectRequisitionDesk, amendRequisitionDesk, cancelRequisitionDesk,
      reopenRequisitionDesk
<1>2. CASE UNCHANGED vars BY <1>2, QuietSteps
<1> QED BY <1>1, <1>2

\* The types hold at first.
LEMMA TypedInit == Init => Typed
<1> SUFFICES ASSUME Init PROVE Typed OBVIOUS
<1>1. matrix \in Definitions BY DEF Init, Definitions
<1>2. engine \in [Processes -> Definitions] BY <1>1 DEF Init
<1>3. st = NoState /\ st \in States /\ st.status = "none" BY NoStateFields DEF Init
<1> QED BY <1>1, <1>2, <1>3 DEF Init, Typed

\* A transition keeps the types.
LEMMA MovesTyped ==
  ASSUME Typed, NEW e, NEW before, NEW a, NEW desk, NEW action,
         Moves(e, before, a, desk, action),
         before.requester \in People \ {Blank}, st'.status # "none",
         route' \subseteq route \cup {engine[e]}
  PROVE  Typed'
  BY DEF Typed, Moves

\* The types hold after every step.
LEMMA TypedStep == Typed /\ [Next]_vars => Typed'
<1> SUFFICES ASSUME Typed, [Next]_vars PROVE Typed' OBVIOUS
<1>1. CASE Quiet BY <1>1 DEF Quiet, Typed
<1>2. ASSUME NEW e \in Processes, NEW a \in People, NEW skip \in Skips,
             OpenDeskChain(e, a, skip)
      PROVE  Typed'
  BY <1>2, OpenMoves DEF Typed
<1>3. ASSUME NEW e \in Processes, NEW a \in People, Submit(e, a) PROVE Typed'
  <2>1. Draft(a).requester \in People \ {Blank} BY <1>3, DraftFields DEF Submit
  <2>2. /\ Moves(e, Draft(a), a, st'.desk, "submit")
        /\ st'.status = "in_flight" /\ route' = {engine[e]}
    BY <1>3, SubmitMoves
  <2> QED BY <2>1, <2>2, MovesTyped
<1>4. ASSUME NEW e \in Processes, NEW a \in People, Advance(e, a) PROVE Typed'
  <2>1. /\ Moves(e, st, a, st.desk, "advance") /\ route' = route \cup {engine[e]}
        /\ st'.status # "none" /\ st.status = "in_flight"
    BY <1>4, AdvanceMoves
  <2>2. st.requester \in People \ {Blank} BY <2>1 DEF Typed
  <2> QED BY <2>1, <2>2, MovesTyped
<1>5. ASSUME NEW e \in Processes, NEW a \in People, Reject(e, a) PROVE Typed'
  <2>1. /\ Moves(e, st, a, st.desk, "reject") /\ route' = route \cup {engine[e]}
        /\ st'.status # "none" /\ st.status = "in_flight"
    BY <1>5, RejectMoves
  <2>2. st.requester \in People \ {Blank} BY <2>1 DEF Typed
  <2> QED BY <2>1, <2>2, MovesTyped
<1>6. ASSUME NEW e \in Processes, NEW a \in People, Amend(e, a) PROVE Typed'
  <2>1. /\ Moves(e, st, a, st.desk, "amend") /\ route' = route \cup {engine[e]}
        /\ st'.status # "none" /\ st.status = "in_flight"
    BY <1>6, AmendMoves
  <2>2. st.requester \in People \ {Blank} BY <2>1 DEF Typed
  <2> QED BY <2>1, <2>2, MovesTyped
<1>7. ASSUME NEW e \in Processes, NEW a \in People, Cancel(e, a) PROVE Typed'
  <2>1. /\ Moves(e, st, a, st.desk, "cancel") /\ route' = route \cup {engine[e]}
        /\ st'.status # "none" /\ st.status # "none"
    BY <1>7, CancelMoves
  <2>2. st.requester \in People \ {Blank} BY <2>1 DEF Typed
  <2> QED BY <2>1, <2>2, MovesTyped
<1>8. ASSUME NEW e \in Processes, NEW a \in People, Reopen(e, a) PROVE Typed'
  <2>1. /\ Moves(e, st, a, st'.desk, "submit") /\ route' = route \cup {engine[e]}
        /\ st'.status # "none" /\ st.status = "rejected"
    BY <1>8, ReopenMoves
  <2>2. st.requester \in People \ {Blank} BY <2>1 DEF Typed
  <2> QED BY <2>1, <2>2, MovesTyped
<1> QED BY <1>1, <1>2, <1>3, <1>4, <1>5, <1>6, <1>7, <1>8, StepKinds

\* The types are an invariant.
THEOREM TypedInvariant == Spec => []Typed
  BY TypedInit, TypedStep, PTL DEF Spec

\* Every desk a request is put on or a step names is a desk of some definition,
\* whatever total, skip list and re-cut definition led there, and a request
\* whose chain was opened has a requester.
THEOREM ChainTypes == Spec => []TypeOK
<1>1. Typed => TypeOK
  <2> SUFFICES ASSUME Typed PROVE TypeOK OBVIOUS
  <2>1. /\ st.status \in Statuses /\ st.desk \in DeskKeys \cup {Nil}
        /\ st.stage \in Int /\ st.amount \in Nat /\ st.skip \subseteq DeskKeys
        /\ st.history \in Seq(Steps)
    BY StateFields DEF Typed
  <2>2. st.requester \in IF st.status = "none" THEN {Nil} ELSE People \ {Blank}
    BY NoStateFields DEF Typed
  <2> QED BY <2>1, <2>2 DEF Typed, TypeOK, Definitions
<1> QED BY <1>1, TypedInvariant, PTL

-----------------------------------------------------------------------------
(* Signatures *)

\* What one more step does to the signatures of the attempt.
LEMMA SignaturesAppended ==
  ASSUME NEW h \in Seq(Steps), NEW x \in Steps
  PROVE  LET n == Len(h) + 1
             next == Append(h, x)
         IN  /\ next[n] = x
             /\ \A i \in Signatures(h) : i \in 1 .. Len(h) /\ next[i] = h[i]
             /\ x.action = "amend" => Signatures(next) = {}
             /\ x.action = "advance" => Signatures(next) = Signatures(h) \cup {n}
             /\ x.action \notin {"amend", "advance"} => Signatures(next) = Signatures(h)
<1> DEFINE n == Len(h) + 1
           next == Append(h, x)
<1>1. /\ next \in Seq(Steps) /\ Len(next) = n /\ Len(h) \in Nat /\ next[n] = x
      /\ \A i \in 1 .. Len(h) : next[i] = h[i]
  BY Appended
<1> HIDE DEF next
<1>2. /\ DOMAIN h = 1 .. Len(h) /\ DOMAIN next = 1 .. n BY <1>1
<1>3. \A i \in Signatures(h) : i \in 1 .. Len(h) /\ next[i] = h[i]
  BY <1>1, <1>2 DEF Signatures, Attempt
<1>4. \A i \in 1 .. n : i \in 1 .. Len(h) \/ i = n BY <1>1
<1>5. x.action = "amend" => Attempt(next) = {}
  <2> SUFFICES ASSUME x.action = "amend", NEW i \in Attempt(next) PROVE FALSE OBVIOUS
  <2>1. i \in 1 .. n /\ \A j \in i .. n : next[j].action # "amend"
    BY <1>1, <1>2 DEF Attempt
  <2>2. n \in i .. n BY <2>1, <1>1
  <2> QED BY <2>1, <2>2, <1>1
<1>6. x.action # "amend" => Attempt(next) = Attempt(h) \cup {n}
  <2> SUFFICES ASSUME x.action # "amend" PROVE Attempt(next) = Attempt(h) \cup {n} OBVIOUS
  <2>1. n \in Attempt(next)
    <3>1. n \in 1 .. n /\ \A j \in n .. n : j = n BY <1>1
    <3> QED BY <3>1, <1>1, <1>2 DEF Attempt
  <2>2. ASSUME NEW i \in Attempt(h) PROVE i \in Attempt(next)
    <3>1. i \in 1 .. Len(h) /\ \A j \in i .. Len(h) : h[j].action # "amend"
      BY <1>2 DEF Attempt
    <3>2. ASSUME NEW j \in i .. n PROVE next[j].action # "amend"
      <4>1. CASE j = n BY <4>1, <1>1
      <4>2. CASE j # n
        <5>1. j \in i .. Len(h) /\ j \in 1 .. Len(h) BY <4>2, <3>1, <1>1
        <5> QED BY <5>1, <3>1, <1>1
      <4> QED BY <4>1, <4>2
    <3>3. i \in 1 .. n BY <3>1, <1>1
    <3> QED BY <3>2, <3>3, <1>1, <1>2 DEF Attempt
  <2>3. ASSUME NEW i \in Attempt(next), i # n PROVE i \in Attempt(h)
    <3>1. i \in 1 .. n /\ \A j \in i .. n : next[j].action # "amend"
      BY <1>1, <1>2 DEF Attempt
    <3>2. i \in 1 .. Len(h) BY <3>1, <2>3, <1>1
    <3>3. ASSUME NEW j \in i .. Len(h) PROVE h[j].action # "amend"
      <4>1. j \in i .. n /\ j \in 1 .. Len(h) BY <3>2, <1>1
      <4> QED BY <4>1, <3>1, <1>1
    <3> QED BY <3>2, <3>3, <1>2 DEF Attempt
  <2> QED BY <2>1, <2>2, <2>3
<1>7. \A i \in Attempt(h) : next[i] = h[i] BY <1>1, <1>2 DEF Attempt
<1>8. x.action = "amend" => Signatures(next) = {} BY <1>5 DEF Signatures
<1>9. x.action = "advance" => Signatures(next) = Signatures(h) \cup {n}
  BY <1>1, <1>6, <1>7 DEF Signatures
<1>10. x.action \notin {"amend", "advance"} => Signatures(next) = Signatures(h)
  BY <1>1, <1>6, <1>7 DEF Signatures
<1> QED BY <1>1, <1>3, <1>8, <1>9, <1>10 DEF next

\* What a transition does to the signatures of the attempt.
LEMMA SignaturesMoved ==
  ASSUME Typed, NEW e, NEW before, before.history = st.history, NEW a \in People,
         NEW desk \in Cursors, NEW action \in Actions,
         Moves(e, before, a, desk, action)
  PROVE  /\ \A i \in Signatures(st.history) :
              i \in 1 .. Len(st.history) /\ st'.history[i] = st.history[i]
         /\ action = "amend" => Signatures(st'.history) = {}
         /\ action = "advance" =>
              /\ Signatures(st'.history) = Signatures(st.history) \cup {Len(st.history) + 1}
              /\ st'.history[Len(st.history) + 1].actor = a
              /\ st'.history[Len(st.history) + 1].desk = desk
         /\ action \notin {"amend", "advance"} =>
              Signatures(st'.history) = Signatures(st.history)
<1>1. PICK o \in BOOLEAN : st'.history = Append(st.history, Step(desk, action, a, o))
  BY DEF Moves
<1> DEFINE x == Step(desk, action, a, o)
<1>2. x \in Steps /\ x.desk = desk /\ x.action = action /\ x.actor = a
  BY StepFields DEF Cursors
<1>3. st.history \in Seq(Steps) BY StateFields DEF Typed
<1> HIDE DEF x
<1>4. /\ Append(st.history, x)[Len(st.history) + 1] = x
      /\ \A i \in Signatures(st.history) :
           i \in 1 .. Len(st.history) /\ Append(st.history, x)[i] = st.history[i]
      /\ x.action = "amend" => Signatures(Append(st.history, x)) = {}
      /\ x.action = "advance" =>
           Signatures(Append(st.history, x)) = Signatures(st.history) \cup {Len(st.history) + 1}
      /\ x.action \notin {"amend", "advance"} =>
           Signatures(Append(st.history, x)) = Signatures(st.history)
  BY <1>2, <1>3, SignaturesAppended
<1>5. st'.history = Append(st.history, x) BY <1>1 DEF x
<1> QED BY <1>2, <1>4, <1>5

\* An attempt that is still to be submitted has no signature.
Unsigned ==
    st.status \in {"none", "draft", "returned"} => Signatures(st.history) = {}

\* Everyone but admins and system actors signs an attempt once, and nobody but
\* an admin a request of their own.
Separate(history, requester) ==
    \A i \in Signatures(history) :
      history[i].actor \notin Admins =>
        /\ history[i].actor # requester
        /\ \/ isSystemActor(history[i].actor)
           \/ \A j \in Signatures(history) : history[j].actor = history[i].actor => j = i

Duties == (\A c \in route : c.noRepeat) => Separate(st.history, st.requester)

\* The property is Duties.
LEMMA DutiesIsSeparation == Duties <=> SeparationOfDuties
  BY DEF Duties, Separate, SeparationOfDuties

\* A transition that signs nothing keeps the attempt's signatures separate.
LEMMA SeparateKept ==
  ASSUME Typed, Duties, NEW e, NEW a \in People, NEW desk \in Cursors,
         NEW action \in Actions \ {"advance"}, Moves(e, st, a, desk, action),
         route \subseteq route'
  PROVE  Duties'
<1> SUFFICES ASSUME \A c \in route' : c.noRepeat
             PROVE  Separate(st'.history, st'.requester)
  BY DEF Duties
<1>1. Separate(st.history, st.requester) BY DEF Duties
<1>2. st'.requester = st.requester BY DEF Moves
<1>3. CASE action = "amend"
  <2>1. Signatures(st'.history) = {} BY <1>3, SignaturesMoved
  <2> QED BY <2>1 DEF Separate
<1>4. CASE action # "amend"
  <2>1. /\ Signatures(st'.history) = Signatures(st.history)
        /\ \A i \in Signatures(st.history) : st'.history[i] = st.history[i]
    BY <1>4, SignaturesMoved
  <2> QED BY <1>1, <1>2, <2>1 DEF Separate
<1> QED BY <1>3, <1>4

\* The desk of a state is a desk or none.
LEMMA DeskOfState ==
  ASSUME Typed
  PROVE  st.desk \in Cursors /\ (st' \in States => st'.desk \in Cursors)
  BY StateFields DEF Typed, Cursors

\* Duties at first.
LEMMA DutiesInit == Init => Duties /\ Unsigned
<1> SUFFICES ASSUME Init PROVE Signatures(st.history) = {} BY DEF Duties, Unsigned, Separate
<1>1. st.history = <<>> BY NoStateFields DEF Init
<1>2. DOMAIN <<>> = {} OBVIOUS
<1> QED BY <1>1, <1>2 DEF Signatures, Attempt

\* Every step keeps the signatures of the attempt separate: a submit starts an
\* attempt without signatures, an advance adds one that the engine has checked
\* against the requester and the whole attempt, and no other transition signs.
LEMMA DutiesStep == Typed /\ Duties /\ Unsigned /\ [Next]_vars => Duties' /\ Unsigned'
<1> SUFFICES ASSUME Typed, Duties, Unsigned, [Next]_vars PROVE Duties' /\ Unsigned'
  OBVIOUS
<1>1. CASE Quiet BY <1>1 DEF Quiet, Duties, Unsigned, Separate
<1>2. ASSUME NEW e \in Processes, NEW a \in People, NEW skip \in Skips,
             OpenDeskChain(e, a, skip)
      PROVE  Duties' /\ Unsigned'
  <2>1. st'.history = <<>> BY <1>2, OpenMoves
  <2>2. DOMAIN <<>> = {} OBVIOUS
  <2>3. Signatures(st'.history) = {} BY <2>1, <2>2 DEF Signatures, Attempt
  <2> QED BY <2>3 DEF Duties, Unsigned, Separate
<1>3. ASSUME NEW e \in Processes, NEW a \in People, Submit(e, a)
      PROVE  Duties' /\ Unsigned'
  <2>1. /\ Draft(a).status \in {"draft", "returned"}
        /\ Moves(e, Draft(a), a, st'.desk, "submit") /\ st'.status = "in_flight"
    BY <1>3, SubmitMoves
  <2>2. st.status \in {"none", "draft", "returned"} /\ Draft(a).history = st.history
    BY <2>1, DraftFields
  <2>3. st'.desk \in Cursors BY <2>1, DeskOfState DEF Moves
  <2>4. Signatures(st'.history) = Signatures(st.history)
    BY <2>1, <2>2, <2>3, SignaturesMoved DEF Actions
  <2>5. Signatures(st'.history) = {} BY <2>2, <2>4 DEF Unsigned
  <2> QED BY <2>5 DEF Duties, Unsigned, Separate
<1>4. ASSUME NEW e \in Processes, NEW a \in People, Advance(e, a)
      PROVE  Duties' /\ Unsigned'
  <2>1. /\ Moves(e, st, a, st.desk, "advance") /\ route' = route \cup {engine[e]}
        /\ st.status = "in_flight" /\ st'.status \in {"in_flight", "approved"}
        /\ sameActor(a, st.requester) => a \in Admins
        /\ engine[e].noRepeat /\ hasAlreadyAdvanced(st.history, a) => a \in Admins
    BY <1>4, AdvanceMoves
  <2>2. Unsigned' BY <2>1 DEF Unsigned
  <2>3. Duties'
    <3> SUFFICES ASSUME \A c \in route' : c.noRepeat
                 PROVE  Separate(st'.history, st'.requester)
      BY DEF Duties
    <3> DEFINE h == st.history
               g == st'.history
               n == Len(st.history) + 1
    <3>1. /\ \A c \in route : c.noRepeat
          /\ engine[e].noRepeat
      BY <2>1
    <3>2. Separate(h, st.requester) BY <3>1 DEF Duties
    <3>3. /\ st'.requester = st.requester BY <2>1 DEF Moves
    <3>4. /\ Signatures(g) = Signatures(h) \cup {n} /\ g[n].actor = a
          /\ \A i \in Signatures(h) : i \in 1 .. Len(h) /\ g[i] = h[i]
      BY <2>1, DeskOfState, SignaturesMoved DEF Actions
    <3>5. a \in Admins \/ isSystemActor(a) \/ \A i \in Signatures(h) : h[i].actor # a
      BY <2>1, <3>1 DEF hasAlreadyAdvanced, isSystemActor, sameActor
    <3>6. n \notin Signatures(h)
      <4>1. h \in Seq(Steps) BY StateFields DEF Typed
      <4>2. n \notin 1 .. Len(h) BY <4>1
      <4> QED BY <3>4, <4>2
    <3>7. a = st.requester => a \in Admins
      BY <2>1 DEF sameActor, Typed
    <3> HIDE DEF h, g, n
    <3>8. Separate(g, st.requester) BY <3>2, <3>4, <3>5, <3>6, <3>7 DEF Separate
    <3> QED BY <3>3, <3>8 DEF g
  <2> QED BY <2>2, <2>3
<1>5. ASSUME NEW e \in Processes, NEW a \in People, Reject(e, a)
      PROVE  Duties' /\ Unsigned'
  <2>1. /\ Moves(e, st, a, st.desk, "reject") /\ route' = route \cup {engine[e]}
        /\ st'.status = "rejected"
    BY <1>5, RejectMoves
  <2> QED BY <2>1, DeskOfState, SeparateKept DEF Unsigned, Actions
<1>6. ASSUME NEW e \in Processes, NEW a \in People, Amend(e, a)
      PROVE  Duties' /\ Unsigned'
  <2>1. /\ Moves(e, st, a, st.desk, "amend") /\ route' = route \cup {engine[e]}
    BY <1>6, AmendMoves
  <2>2. Duties' BY <2>1, DeskOfState, SeparateKept DEF Actions
  <2>3. Signatures(st'.history) = {} BY <2>1, DeskOfState, SignaturesMoved DEF Actions
  <2> QED BY <2>2, <2>3 DEF Unsigned
<1>7. ASSUME NEW e \in Processes, NEW a \in People, Cancel(e, a)
      PROVE  Duties' /\ Unsigned'
  <2>1. /\ Moves(e, st, a, st.desk, "cancel") /\ route' = route \cup {engine[e]}
        /\ st'.status = "cancelled"
    BY <1>7, CancelMoves
  <2> QED BY <2>1, DeskOfState, SeparateKept DEF Unsigned, Actions
<1>8. ASSUME NEW e \in Processes, NEW a \in People, Reopen(e, a)
      PROVE  Duties' /\ Unsigned'
  <2>1. /\ Moves(e, st, a, st'.desk, "submit") /\ route' = route \cup {engine[e]}
        /\ st'.status = "in_flight"
    BY <1>8, ReopenMoves
  <2>2. st'.desk \in Cursors BY <2>1, DeskOfState DEF Moves
  <2> QED BY <2>1, <2>2, SeparateKept DEF Unsigned, Actions
<1> QED BY <1>1, <1>2, <1>3, <1>4, <1>5, <1>6, <1>7, <1>8, StepKinds

\* Separation of duties and its strengthening are an invariant.
THEOREM DutiesInvariant == Spec => [](Duties /\ Unsigned)
  BY DutiesInit, DutiesStep, TypedInvariant, PTL DEF Spec

\* In an attempt all of whose definitions set noRepeat, nobody but an admin or a
\* system actor signs twice, and nobody but an admin a request of their own
\* (Advance), through rejections, reopenings, re-cuts of the matrix and edits of
\* the total.  Nobody's identity is assumed: tokens without an e-mail sign too.
THEOREM DutiesAreSeparate == Spec => []SeparationOfDuties
  BY DutiesIsSeparation, DutiesInvariant, PTL

-----------------------------------------------------------------------------
(* Where a request sits, whatever the bands.                                 *)

\* A request in flight sits where its cursor says at the stored amount, in an
\* attempt routed by one definition.
InPlace ==
    \A c \in route : route = {c} /\ st.status = "in_flight" =>
      /\ st.stage \in 0 .. Len(Engaged(c, st.amount, st.skip)) - 1
      /\ st.desk = Engaged(c, st.amount, st.skip)[st.stage + 1].key

\* Every step that moves a request computes the desk from the index, or the
\* other way round, on the list it stores the amount of.
LEMMA InPlaceStep == Typed /\ InPlace /\ [Next]_vars => InPlace'
<1> SUFFICES ASSUME Typed, InPlace, [Next]_vars PROVE InPlace' OBVIOUS
<1>1. CASE Quiet BY <1>1 DEF Quiet, InPlace
<1>2. CASE st'.status # "in_flight" BY <1>2 DEF InPlace
<1>3. ASSUME NEW e \in Processes, NEW a \in People, Submit(e, a) PROVE InPlace'
  <2> DEFINE q == Engaged(engine[e], st'.amount, st'.skip)
  <2>1. /\ st'.stage = 0 /\ 1 \in 1 .. Len(q) /\ st'.desk = q[1].key /\ route' = {engine[e]}
        /\ engine[e] \in Definitions
    BY <1>3, SubmitMoves DEF Moves
  <2>2. q \in Seq(Desks) BY <2>1, EngagedDesks
  <2>3. st'.stage \in 0 .. Len(q) - 1 /\ st'.desk = q[st'.stage + 1].key BY <2>1, <2>2
  <2> QED BY <2>1, <2>3 DEF InPlace
<1>4. ASSUME NEW e \in Processes, NEW a \in People, Advance(e, a), st'.status = "in_flight"
      PROVE  InPlace'
  <2> DEFINE q == Engaged(engine[e], total, st.skip)
  <2>1. /\ Moves(e, st, a, st.desk, "advance") /\ route' = route \cup {engine[e]}
        /\ \E k \in Nat : /\ k + 2 \in 1 .. Len(q) /\ st'.stage = k + 1
                          /\ st'.desk = q[k + 2].key
    BY <1>4, AdvanceMoves
  <2>2. /\ engine[e] \in Definitions /\ st'.amount = total /\ st'.skip = st.skip
    BY <2>1 DEF Moves
  <2>3. q \in Seq(Desks) BY <2>2, EngagedDesks
  <2>4. st'.stage \in 0 .. Len(q) - 1 /\ st'.desk = q[st'.stage + 1].key BY <2>1, <2>3
  <2> QED BY <2>1, <2>2, <2>4 DEF InPlace
<1>5. ASSUME NEW e \in Processes, NEW a \in People, Reopen(e, a) PROVE InPlace'
  <2> DEFINE q == Engaged(engine[e], total, st.skip)
  <2>1. /\ Moves(e, st, a, st'.desk, "submit") /\ st'.stage = st.stage
        /\ st.stage \in 0 .. Len(q) - 1 /\ st'.desk = q[st.stage + 1].key
        /\ route' = route \cup {engine[e]}
    BY <1>5, ReopenMoves
  <2>2. st'.amount = total /\ st'.skip = st.skip BY <2>1 DEF Moves
  <2> QED BY <2>1, <2>2 DEF InPlace
<1>6. ASSUME NEW e \in Processes, NEW a \in People, NEW skip \in Skips,
             OpenDeskChain(e, a, skip)
      PROVE  st'.status # "in_flight"
  BY <1>6, OpenMoves
<1>7. ASSUME NEW e \in Processes, NEW a \in People,
             Reject(e, a) \/ Amend(e, a) \/ Cancel(e, a)
      PROVE  st'.status # "in_flight"
  BY <1>7, RejectMoves, AmendMoves, CancelMoves
<1> QED BY <1>1, <1>2, <1>3, <1>4, <1>5, <1>6, <1>7, StepKinds

\* Whoever a process would let advance a request finds it in the queue the
\* process serves, although the queue looks at the stored amount and the advance
\* at the live total (Actionable, Rebase).
THEOREM WorkIsShown == Spec => []QueueShowsWork
<1>1. Typed /\ InPlace => QueueShowsWork
  <2> SUFFICES ASSUME Typed, InPlace, NEW e \in Processes, NEW a \in People,
                      route = {engine[e]}, Rebases(engine[e], st),
                      MayAdvance(engine[e], Rebased(engine[e], st), a)
               PROVE  DeskQueue(e, a)
    BY DEF QueueShowsWork
  <2> DEFINE c == engine[e]
             s == Rebased(c, st)
             q == Engaged(c, st.amount, st.skip)
  <2>1. /\ OnDesk(s, Engaged(c, s.amount, s.skip)) /\ HoldsFor(a, s.desk)
        /\ sameActor(a, s.requester) => a \in Admins
    BY DEF MayAdvance
  <2>2. c \in Definitions /\ total \in Nat /\ st \in States BY DeskAssumption DEF Typed
  <2>3. s.desk = st.desk /\ s.requester = st.requester BY <2>2, RebasedFields
  <2>4. st.status = "in_flight" BY <2>1, RebasedSits
  <2> HIDE DEF s
  <2>5. st.stage \in 0 .. Len(q) - 1 /\ st.desk = q[st.stage + 1].key
    BY <2>4 DEF InPlace
  <2>6. q \in Seq(Desks) BY <2>2, EngagedDesks
  <2>7. st.stage + 1 \in 1 .. Len(q) BY <2>5, <2>6
  <2>8. PICK j \in DOMAIN c.desks : q[st.stage + 1] = c.desks[j]
    BY <2>2, <2>7, EngagedDesks
  <2>9. OnDesk(st, q) BY <2>4, <2>5 DEF OnDesk
  <2>10. Actionable(e, a) BY <2>1, <2>3, <2>9 DEF Actionable
  <2>11. c.desks[j].key = st.desk BY <2>5, <2>8
  <2> HIDE DEF q
  <2> QED BY <2>1, <2>3, <2>10, <2>11 DEF DeskQueue
<1>2. Init => InPlace BY DEF Init, InPlace
<1> QED BY <1>1, <1>2, InPlaceStep, TypedInvariant, PTL DEF Spec

-----------------------------------------------------------------------------
(* The walk over the desks, when the definitions ascend.                     *)

\* Every definition ascends.
Banded == \A c \in Matrices : Ascends(c.desks)

\* Of the desks that engage at two amounts, one list starts with the other.
LEMMA EngagedStarts ==
  ASSUME Banded, NEW c \in Definitions, NEW a \in Nat, NEW b \in Nat, NEW skip
  PROVE  \/ Starts(Engaged(c, a, skip), Engaged(c, b, skip))
         \/ Starts(Engaged(c, b, skip), Engaged(c, a, skip))
<1>1. c.desks \in Seq(Desks) /\ Distinct(c.desks) BY DefinitionDesks
<1>2. Ascends(c.desks)
  <2>1. CASE c \in Matrices BY <2>1 DEF Banded
  <2>2. CASE c = NoMatrix
    <3>1. c.desks = <<>> /\ Len(<<>>) = 0 BY <2>2 DEF NoMatrix
    <3> QED BY <3>1 DEF Ascends
  <2> QED BY <2>1, <2>2 DEF Definitions
<1>3. a <= b \/ b <= a OBVIOUS
<1> QED BY <1>1, <1>2, <1>3, LoopStarts, EngagedIsLoop

\* So a desk that follows k others at one amount follows k at another, if it
\* engages there.
LEMMA SamePlace ==
  ASSUME Banded, NEW c \in Definitions, NEW a \in Nat, NEW b \in Nat, NEW skip,
         NEW k \in 0 .. Len(Engaged(c, a, skip)) - 1,
         NEW m \in 0 .. Len(Engaged(c, b, skip)) - 1
  PROVE  Engaged(c, a, skip)[k + 1].key = Engaged(c, b, skip)[m + 1].key => k = m
<1> DEFINE q == Engaged(c, a, skip)
           r == Engaged(c, b, skip)
<1>1. /\ q \in Seq(Desks) /\ r \in Seq(Desks)
      /\ \A x, y \in 1 .. Len(q) : q[x].key = q[y].key => x = y
      /\ \A x, y \in 1 .. Len(r) : r[x].key = r[y].key => x = y
  BY EngagedDesks
<1>2. Starts(q, r) \/ Starts(r, q) BY EngagedStarts
<1>3. k \in 0 .. Len(q) - 1 /\ m \in 0 .. Len(r) - 1 OBVIOUS
<1> HIDE DEF q, r
<1>4. Len(q) \in Nat /\ Len(r) \in Nat BY <1>1
<1>5. k + 1 \in 1 .. Len(q) /\ m + 1 \in 1 .. Len(r) /\ k \in Nat /\ m \in Nat BY <1>3, <1>4
<1>6. ASSUME q[k + 1].key = r[m + 1].key PROVE k = m
  <2>1. CASE Starts(q, r)
    <3>1. q[k + 1] = r[k + 1] /\ k + 1 \in 1 .. Len(r) BY <2>1, <1>4, <1>5 DEF Starts
    <3>2. k + 1 = m + 1 BY <3>1, <1>1, <1>5, <1>6
    <3> QED BY <3>2, <1>5
  <2>2. CASE Starts(r, q)
    <3>1. r[m + 1] = q[m + 1] /\ m + 1 \in 1 .. Len(q) BY <2>2, <1>4, <1>5 DEF Starts
    <3>2. k + 1 = m + 1 BY <3>1, <1>1, <1>5, <1>6
    <3> QED BY <3>2, <1>5
  <2> QED BY <2>1, <2>2, <1>2
<1> QED BY <1>6 DEF q, r

\* As far as both lists go, they agree.
LEMMA SameDesks ==
  ASSUME Banded, NEW c \in Definitions, NEW a \in Nat, NEW b \in Nat, NEW skip, NEW m,
         m \in 0 .. Len(Engaged(c, a, skip)) - 1, m \in 0 .. Len(Engaged(c, b, skip)) - 1
  PROVE  \A i \in 1 .. m + 1 : Engaged(c, a, skip)[i] = Engaged(c, b, skip)[i]
<1> DEFINE q == Engaged(c, a, skip)
           r == Engaged(c, b, skip)
<1>1. q \in Seq(Desks) /\ r \in Seq(Desks) BY EngagedDesks
<1>2. Starts(q, r) \/ Starts(r, q) BY EngagedStarts
<1> HIDE DEF q, r
<1>3. Len(q) \in Nat /\ Len(r) \in Nat BY <1>1
<1>4. ASSUME NEW i \in 1 .. m + 1 PROVE q[i] = r[i]
  <2>1. m \in 0 .. Len(q) - 1 /\ m \in 0 .. Len(r) - 1 BY DEF q, r
  <2>2. i \in 1 .. Len(q) /\ i \in 1 .. Len(r) BY <2>1, <1>3
  <2> QED BY <1>2, <2>2 DEF Starts
<1> QED BY <1>4 DEF q, r

\* A request sits where its cursor says, and the desks before it have signed.
Walked(s, signed, c) ==
    LET q == Engaged(c, s.amount, s.skip)
    IN  /\ s.status \in {"in_flight", "rejected"} =>
             /\ s.stage \in 0 .. Len(q) - 1
             /\ s.desk = q[s.stage + 1].key
             /\ \A i \in 1 .. s.stage : q[i].key \in signed
        /\ s.status = "approved" => KeysOf(q) \subseteq signed

\* The inductive invariant of the walk, for attempts routed by one definition.
Walk ==
    /\ IsFiniteSet(route)
    /\ st.status \in {"in_flight", "rejected"} => route # {}
    /\ \A c \in route : route = {c} => Walked(st, SignedDesks, c)

\* What a transition does to the desks that have signed.
LEMMA SignedMoved ==
  ASSUME Typed, NEW e, NEW a \in People, NEW desk \in Cursors, NEW action \in Actions,
         Moves(e, st, a, desk, action)
  PROVE  /\ action # "amend" => SignedDesks \subseteq SignedDesks'
         /\ action = "advance" => desk \in SignedDesks'
<1>1. /\ \A i \in Signatures(st.history) : st'.history[i] = st.history[i]
      /\ action # "amend" => Signatures(st.history) \subseteq Signatures(st'.history)
      /\ action = "advance" => /\ Len(st.history) + 1 \in Signatures(st'.history)
                               /\ st'.history[Len(st.history) + 1].desk = desk
  BY SignaturesMoved
<1> QED BY <1>1 DEF SignedDesks

\* A route that stays one definition, and was not empty, was that definition.
LEMMA RouteStays ==
  ASSUME NEW c, NEW d, route # {}, route \cup {d} = {c}
  PROVE  route = {c} /\ d = c
  OBVIOUS

\* Where a request in flight sits after the rebase: where it sat before, behind
\* the same desks.
LEMMA SitsStill ==
  ASSUME Banded, Typed, NEW e \in Processes, NEW k, Sits(e, k), engine[e] \in Definitions,
         st.status \in {"in_flight", "rejected"}, NEW signed, Walked(st, signed, engine[e])
  PROVE  /\ k = st.stage
         /\ \A i \in 1 .. k : Engaged(engine[e], total, st.skip)[i].key \in signed
<1> DEFINE q == Engaged(engine[e], st.amount, st.skip)
           r == Engaged(engine[e], total, st.skip)
<1>1. /\ st.stage \in 0 .. Len(q) - 1 /\ st.desk = q[st.stage + 1].key
      /\ \A i \in 1 .. st.stage : q[i].key \in signed
  BY DEF Walked
<1>2. k \in 0 .. Len(r) - 1 /\ st.desk = r[k + 1].key BY DEF Sits
<1>3. st.amount \in Nat /\ total \in Nat BY StateFields, DeskAssumption DEF Typed
<1>4. q[st.stage + 1].key = r[k + 1].key BY <1>1, <1>2
<1>5. k = st.stage BY <1>1, <1>2, <1>3, <1>4, SamePlace
<1>6. \A i \in 1 .. st.stage + 1 : q[i] = r[i]
  <2>1. st.stage \in 0 .. Len(r) - 1 BY <1>2, <1>5
  <2> QED BY <1>1, <1>3, <2>1, SameDesks
<1> HIDE DEF q, r
<1>7. ASSUME NEW i \in 1 .. k PROVE r[i].key \in signed
  <2>1. i \in 1 .. st.stage /\ i \in 1 .. st.stage + 1 BY <1>2, <1>5
  <2> QED BY <2>1, <1>1, <1>6
<1> QED BY <1>5, <1>7 DEF r

\* The walk at first.
LEMMA WalkInit == Init => Walk
<1> SUFFICES ASSUME Init PROVE Walk OBVIOUS
<1>1. route = {} /\ st.status = "none" BY NoStateFields DEF Init
<1>2. IsFiniteSet({}) BY FS_EmptySet
<1> QED BY <1>1, <1>2 DEF Walk

\* A submit starts the walk.
LEMMA SubmitWalk ==
  ASSUME Typed, Walk, NEW e \in Processes, NEW a \in People, Submit(e, a)
  PROVE  Walk'
<1> DEFINE c == engine[e]
           q == Engaged(c, st'.amount, st'.skip)
<1>1. /\ st'.status = "in_flight" /\ st'.stage = 0 /\ 1 \in 1 .. Len(q)
      /\ st'.desk = q[1].key /\ route' = {c} /\ c \in Definitions
  BY SubmitMoves DEF Moves
<1>2. q \in Seq(Desks) BY <1>1, EngagedDesks
<1>3. IsFiniteSet({c}) BY FS_Singleton
<1> HIDE DEF q, c
<1>4. 0 \in 0 .. Len(q) - 1 /\ 0 + 1 = 1 /\ 1 .. 0 = {} BY <1>1, <1>2
<1>5. Walked(st', SignedDesks', c) BY <1>1, <1>4 DEF Walked, q
<1>6. (IsFiniteSet(route))' BY <1>1, <1>3
<1>7. \A d \in route' : d = c BY <1>1
<1> QED BY <1>1, <1>5, <1>6, <1>7 DEF Walk

\* An advance signs the desk and walks on to the next one, or was at the last.
LEMMA AdvanceWalk ==
  ASSUME Banded, Typed, Walk, NEW e \in Processes, NEW a \in People, Advance(e, a)
  PROVE  Walk'
<1> DEFINE q == Engaged(engine[e], total, st.skip)
<1>1. /\ st.status = "in_flight" /\ Moves(e, st, a, st.desk, "advance")
      /\ route' = route \cup {engine[e]}
  BY AdvanceMoves
<1>2. PICK k \in Nat :
        /\ Sits(e, k)
        /\ \/ k + 1 = Len(q) /\ st'.status = "approved"
           \/ /\ k + 2 \in 1 .. Len(q) /\ st'.status = "in_flight" /\ st'.stage = k + 1
              /\ st'.desk = q[k + 2].key
  BY AdvanceMoves
<1>3. engine[e] \in Definitions /\ st'.amount = total /\ st'.skip = st.skip
  BY <1>1 DEF Moves
<1>4. q \in Seq(Desks) BY <1>3, EngagedDesks
<1>5. IsFiniteSet(route \cup {engine[e]}) BY FS_AddElement DEF Walk
<1>6. route # {} BY <1>1 DEF Walk
<1>7. SignedDesks \subseteq SignedDesks' /\ st.desk \in SignedDesks'
  BY <1>1, DeskOfState, SignedMoved DEF Actions
<1>8. ASSUME NEW c \in route', route' = {c} PROVE Walked(st', SignedDesks', c)
  <2>1. route = {c} /\ engine[e] = c BY <1>1, <1>6, <1>8, RouteStays
  <2>2. Walked(st, SignedDesks, engine[e]) BY <2>1 DEF Walk
  <2>3. \A i \in 1 .. k : q[i].key \in SignedDesks BY <1>1, <1>2, <1>3, <2>2, SitsStill
  <2>4. q[k + 1].key \in SignedDesks' BY <1>2, <1>7 DEF Sits
  <2>5. \A i \in 1 .. k + 1 : q[i].key \in SignedDesks'
    <3> TAKE i \in 1 .. k + 1
    <3>1. i \in 1 .. k \/ i = k + 1 OBVIOUS
    <3> QED BY <3>1, <2>3, <2>4, <1>7
  <2>6. q = Engaged(c, st'.amount, st'.skip) BY <1>3, <2>1
  <2> HIDE DEF q
  <2>7. CASE k + 1 = Len(q) /\ st'.status = "approved"
    <3>1. KeysOf(q) \subseteq SignedDesks' BY <1>4, <2>5, <2>7, KeysOfDesks
    <3> QED BY <2>6, <2>7, <3>1 DEF Walked
  <2>8. CASE /\ k + 2 \in 1 .. Len(q) /\ st'.status = "in_flight" /\ st'.stage = k + 1
             /\ st'.desk = q[k + 2].key
    <3>1. k + 1 \in 0 .. Len(q) - 1 /\ k + 1 + 1 = k + 2 BY <1>4, <2>8
    <3> QED BY <2>5, <2>6, <2>8, <3>1 DEF Walked
  <2> QED BY <1>2, <2>7, <2>8 DEF q
<1>9. (IsFiniteSet(route))' /\ route' # {} BY <1>1, <1>5
<1> QED BY <1>8, <1>9 DEF Walk

\* A rejection keeps the cursor and what was signed.
LEMMA RejectWalk ==
  ASSUME Banded, Typed, Walk, NEW e \in Processes, NEW a \in People, Reject(e, a)
  PROVE  Walk'
<1> DEFINE q == Engaged(engine[e], total, st.skip)
<1>1. /\ st.status = "in_flight" /\ st'.status = "rejected"
      /\ Moves(e, st, a, st.desk, "reject")
      /\ st'.desk = st.desk /\ Sits(e, st'.stage) /\ route' = route \cup {engine[e]}
  BY RejectMoves
<1>2. engine[e] \in Definitions /\ st'.amount = total /\ st'.skip = st.skip
  BY <1>1 DEF Moves
<1>3. IsFiniteSet(route \cup {engine[e]}) BY FS_AddElement DEF Walk
<1>4. route # {} BY <1>1 DEF Walk
<1>5. SignedDesks \subseteq SignedDesks'
  BY <1>1, DeskOfState, SignedMoved DEF Actions
<1>6. ASSUME NEW c \in route', route' = {c} PROVE Walked(st', SignedDesks', c)
  <2>1. route = {c} /\ engine[e] = c BY <1>1, <1>4, <1>6, RouteStays
  <2>2. Walked(st, SignedDesks, engine[e]) BY <2>1 DEF Walk
  <2>3. \A i \in 1 .. st'.stage : q[i].key \in SignedDesks
    BY <1>1, <1>2, <2>2, SitsStill
  <2>4. q = Engaged(c, st'.amount, st'.skip) BY <1>2, <2>1
  <2>5. st'.stage \in 0 .. Len(q) - 1 /\ st'.desk = q[st'.stage + 1].key
    BY <1>1 DEF Sits
  <2> HIDE DEF q
  <2> QED BY <1>1, <1>5, <2>3, <2>4, <2>5 DEF Walked
<1>7. (IsFiniteSet(route))' /\ route' # {} BY <1>1, <1>3
<1> QED BY <1>6, <1>7 DEF Walk

\* A reopened request is on the desk that refused it.
LEMMA ReopenWalk ==
  ASSUME Banded, Typed, Walk, NEW e \in Processes, NEW a \in People, Reopen(e, a)
  PROVE  /\ Walk'
         /\ \A c \in route' : route' = {c} => st'.desk = st.desk
<1> DEFINE q == Engaged(engine[e], st.amount, st.skip)
           r == Engaged(engine[e], total, st.skip)
<1>1. /\ st.status = "rejected" /\ st'.status = "in_flight"
      /\ Moves(e, st, a, st'.desk, "submit") /\ st'.stage = st.stage
      /\ st.stage \in 0 .. Len(r) - 1 /\ st'.desk = r[st.stage + 1].key
      /\ route' = route \cup {engine[e]}
  BY ReopenMoves
<1>2. /\ engine[e] \in Definitions /\ st'.amount = total /\ st'.skip = st.skip
      /\ st' \in States
  BY <1>1 DEF Moves
<1>3. IsFiniteSet(route \cup {engine[e]}) BY FS_AddElement DEF Walk
<1>4. route # {} BY <1>1 DEF Walk
<1>5. SignedDesks \subseteq SignedDesks'
  <2>1. st'.desk \in Cursors BY <1>2, DeskOfState
  <2> QED BY <1>1, <2>1, SignedMoved DEF Actions
<1>6. st.amount \in Nat /\ total \in Nat BY StateFields, DeskAssumption DEF Typed
<1>7. ASSUME NEW c \in route', route' = {c}
      PROVE  Walked(st', SignedDesks', c) /\ st'.desk = st.desk
  <2>1. route = {c} /\ engine[e] = c BY <1>1, <1>4, <1>7, RouteStays
  <2>2. Walked(st, SignedDesks, engine[e]) BY <2>1 DEF Walk
  <2>3. /\ st.stage \in 0 .. Len(q) - 1 /\ st.desk = q[st.stage + 1].key
        /\ \A i \in 1 .. st.stage : q[i].key \in SignedDesks
    BY <1>1, <2>2 DEF Walked
  <2>4. \A i \in 1 .. st.stage + 1 : q[i] = r[i]
    BY <1>1, <1>2, <1>6, <2>3, SameDesks
  <2>5. r = Engaged(c, st'.amount, st'.skip) BY <1>2, <2>1
  <2> HIDE DEF q, r
  <2>6. ASSUME NEW i \in 1 .. st.stage PROVE r[i].key \in SignedDesks'
    <3>1. i \in 1 .. st.stage + 1 BY <1>1
    <3> QED BY <3>1, <2>3, <2>4, <1>5
  <2>7. st.stage + 1 \in 1 .. st.stage + 1 BY <1>1
  <2>8. st'.desk = st.desk BY <1>1, <2>3, <2>4, <2>7
  <2>9. Walked(st', SignedDesks', c) BY <1>1, <2>5, <2>6 DEF Walked
  <2> QED BY <2>8, <2>9
<1>8. (IsFiniteSet(route))' /\ route' # {} BY <1>1, <1>3
<1> QED BY <1>7, <1>8 DEF Walk

\* A request that leaves the walk.
LEMMA LeavesWalk ==
  ASSUME Walk, NEW e, route' = route \cup {engine[e]},
         st'.status \in {"returned", "cancelled"}
  PROVE  Walk'
<1>1. IsFiniteSet(route \cup {engine[e]}) BY FS_AddElement DEF Walk
<1>2. (IsFiniteSet(route))' BY <1>1
<1> QED BY <1>2 DEF Walk, Walked

\* Every step keeps the walk.
LEMMA WalkStep == ASSUME Banded PROVE Typed /\ Walk /\ [Next]_vars => Walk'
<1> SUFFICES ASSUME Typed, Walk, [Next]_vars PROVE Walk' OBVIOUS
<1>1. CASE Quiet
  <2>1. st' = st /\ route' = route /\ SignedDesks' = SignedDesks
    BY <1>1 DEF Quiet, SignedDesks
  <2> QED BY <2>1 DEF Walk
<1>2. ASSUME NEW e \in Processes, NEW a \in People, NEW skip \in Skips,
             OpenDeskChain(e, a, skip)
      PROVE  Walk'
  <2>1. st'.status = "draft" /\ route' = route BY <1>2, OpenMoves
  <2> QED BY <2>1 DEF Walk, Walked
<1>3. ASSUME NEW e \in Processes, NEW a \in People, Submit(e, a) PROVE Walk'
  BY <1>3, SubmitWalk
<1>4. ASSUME NEW e \in Processes, NEW a \in People, Advance(e, a) PROVE Walk'
  BY <1>4, AdvanceWalk
<1>5. ASSUME NEW e \in Processes, NEW a \in People, Reject(e, a) PROVE Walk'
  BY <1>5, RejectWalk
<1>6. ASSUME NEW e \in Processes, NEW a \in People, Amend(e, a) PROVE Walk'
  <2>1. st'.status = "returned" /\ route' = route \cup {engine[e]} BY <1>6, AmendMoves
  <2> QED BY <2>1, LeavesWalk
<1>7. ASSUME NEW e \in Processes, NEW a \in People, Cancel(e, a) PROVE Walk'
  <2>1. st'.status = "cancelled" /\ route' = route \cup {engine[e]} BY <1>7, CancelMoves
  <2> QED BY <2>1, LeavesWalk
<1>8. ASSUME NEW e \in Processes, NEW a \in People, Reopen(e, a) PROVE Walk'
  BY <1>8, ReopenWalk
<1> QED BY <1>1, <1>2, <1>3, <1>4, <1>5, <1>6, <1>7, <1>8, StepKinds

\* The walk is an invariant where the definitions ascend.
THEOREM WalkInvariant == ASSUME Banded PROVE Spec => [](Typed /\ Walk)
  BY WalkInit, WalkStep, TypedInvariant, PTL DEF Spec

\* Where the definitions ascend, an approved request whose attempt was routed by
\* one definition has the signature of every desk that engages at the amount it
\* was approved for, however often the total was edited and the request rejected
\* and reopened on the way (Rebase).
THEOREM EveryDeskSigned == ASSUME Banded PROVE Spec => []SignedByEveryDesk
<1>1. Walk => SignedByEveryDesk BY DEF Walk, Walked, SignedByEveryDesk
<1> QED BY <1>1, WalkInvariant, PTL

\* Where the definitions ascend, Reopen puts a rejected request back on the desk
\* that refused it, although it goes by index and the total may have changed.
THEOREM ReopenedWhereRefused == ASSUME Banded PROVE Spec => ReopensWhereRefused
<1>1. Typed /\ Walk /\ [Next]_vars =>
        [st.status = "rejected" /\ st'.status = "in_flight" /\ Cardinality(route') = 1
           => st'.desk = st.desk]_vars
  <2> SUFFICES ASSUME Typed, Walk, [Next]_vars, st.status = "rejected",
                      st'.status = "in_flight", Cardinality(route') = 1
               PROVE  st'.desk = st.desk
    OBVIOUS
  <2>1. PICK e \in Processes, a \in People : Reopen(e, a)
    <3>1. ~Quiet BY DEF Quiet
    <3>2. ~\E e \in Processes, a \in People, skip \in Skips : OpenDeskChain(e, a, skip)
      BY DEF OpenDeskChain
    <3>3. ASSUME NEW e \in Processes, NEW a \in People
          PROVE  /\ ~Submit(e, a) /\ ~Advance(e, a) /\ ~Reject(e, a)
                 /\ ~Amend(e, a) /\ ~Cancel(e, a)
      <4>1. ~Submit(e, a) BY SubmitMoves, DraftFields
      <4>2. ~Advance(e, a) BY AdvanceMoves
      <4>3. ~Reject(e, a) BY RejectMoves
      <4>4. ~Amend(e, a) BY AmendMoves
      <4>5. ~Cancel(e, a) BY CancelMoves
      <4> QED BY <4>1, <4>2, <4>3, <4>4, <4>5
    <3> QED BY <3>1, <3>2, <3>3, StepKinds
  <2>2. Walk' /\ \A c \in route' : route' = {c} => st'.desk = st.desk
    BY <2>1, ReopenWalk
  <2>3. (IsFiniteSet(route))' BY <2>2 DEF Walk
  <2>4. \E c : route' = {c}
    <3>1. PICK X : X = route' OBVIOUS
    <3>2. IsFiniteSet(X) /\ Cardinality(X) = 1 BY <2>3, <3>1
    <3>3. \E c : X = {c} BY <3>2, FS_Singleton
    <3> QED BY <3>1, <3>3
  <2> QED BY <2>2, <2>4
<1> QED BY <1>1, WalkInvariant, PTL DEF Spec, ReopensWhereRefused
==============================================================================
