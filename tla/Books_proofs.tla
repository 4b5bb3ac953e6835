---------------------------- MODULE Books_proofs ----------------------------
(***************************************************************************)
(* Proofs about Books for any number of requests, ledgers and invoices.    *)
(***************************************************************************)
EXTENDS Books, FiniteSetTheorems, TLAPS

\* What a step does to the rows: only a commit writes them.
LEMMA StepRows ==
    ASSUME [Next]_vars
    PROVE  \/ UNCHANGED <<ledgers, vouchers>>
           \/ \E w \in Workers : Commit(w)
BY DEF Next, vars, Work, BeginChart, BeginPost, BeginLedger, BeginVoucher,
       FlushChart, CheckPosted, Lookup, InsertLedger, CountVouchers,
       InsertVoucher, Rollback, Fail, Continue

\* A committed voucher joins those of its type and of its invoice.
LEMMA AddVoucher ==
    ASSUME NEW v, vouchers' = vouchers \cup {v}
    PROVE  /\ \A type : VouchersOf(type)' =
                  IF type = v.type THEN VouchersOf(type) \cup {v}
                                   ELSE VouchersOf(type)
           /\ \A i : PostsOf(i)' =
                  IF i = v.source THEN PostsOf(i) \cup {v} ELSE PostsOf(i)
BY DEF VouchersOf, PostsOf

LEMMA FiniteRows ==
    ASSUME TypeOK
    PROVE  /\ \A type : /\ IsFiniteSet(VouchersOf(type))
                        /\ Cardinality(VouchersOf(type)) \in Nat
                        /\ NextNumber(type) \in Nat
           /\ \A i : /\ IsFiniteSet(PostsOf(i))
                     /\ Cardinality(PostsOf(i)) \in Nat
<1>1. \A S : S \subseteq vouchers => IsFiniteSet(S) /\ Cardinality(S) \in Nat
      BY FS_Subset, FS_CardinalityType DEF TypeOK
<1>2. \A x : VouchersOf(x) \subseteq vouchers /\ PostsOf(x) \subseteq vouchers
      BY DEF VouchersOf, PostsOf
<1> QED  BY <1>1, <1>2 DEF NextNumber

-----------------------------------------------------------------------------
(* Type correctness. *)

\* A request knows what its next step needs.
Asks(t) == /\ t.source # None => t.name \in Names /\ t.type \in Types
           /\ t.op \in {"lookup", "ledger"} => t.name \in Names
           /\ t.op \in {"count", "voucher"} => t.type \in Types
           /\ t.op = "check" => t.source # None
           /\ t.op \in {"chart", "lookup", "ledger"} /\ t.source = None
                => t.type = None

TypeInv == TypeOK /\ \A w \in Workers : Asks(tx[w])

LEMMA InitType == Init => TypeInv
BY BooksAssumption, FS_EmptySet
DEF Init, TypeInv, TypeOK, Tx, Idle, Ops, Voucher, Asks

LEMMA NextType ==
    ASSUME TypeInv, [Next]_vars
    PROVE  TypeInv'
<1> USE BooksAssumption
<1>1. CASE UNCHANGED vars
      BY <1>1 DEF vars, TypeInv, TypeOK, Asks
<1>2. Idle \in Tx /\ Asks(Idle)
      BY DEF Idle, Tx, Ops, Asks
<1>3. ASSUME NEW w \in Workers, NEW t \in Tx, Asks(t), tx' = [tx EXCEPT ![w] = t]
      PROVE  tx' \in [Workers -> Tx] /\ \A v \in Workers : Asks(tx'[v])
      BY <1>3 DEF TypeInv, TypeOK
<1>4. ASSUME NEW w \in Workers, NEW t \in Tx, Asks(t), Continue(w, t)
      PROVE  TypeInv'
  <2>1. tx' = [tx EXCEPT ![w] = t] /\ UNCHANGED <<ledgers, vouchers, raced>>
        BY <1>4 DEF Continue
  <2>2. tx' \in [Workers -> Tx] /\ \A v \in Workers : Asks(tx'[v])
        BY <1>3, <1>4, <2>1
  <2> QED  BY <2>1, <2>2 DEF TypeInv, TypeOK, Asks
<1>5. ASSUME NEW w \in Workers, NEW t \in Tx, Asks(t), Begin(w, t),
             UNCHANGED <<ledgers, vouchers>>, raced' \subseteq Invoices
      PROVE  TypeInv'
  <2>1. tx' \in [Workers -> Tx] /\ \A v \in Workers : Asks(tx'[v])
        BY <1>3, <1>5 DEF Begin
  <2> QED  BY <1>5, <2>1 DEF TypeInv, TypeOK, Asks
<1>6. ASSUME NEW w \in Workers, Fail(w)
      PROVE  TypeInv'
      BY <1>2, <1>4, <1>6 DEF Fail
<1>7. ASSUME NEW w \in Workers
      PROVE  tx[w] \in Tx /\ Asks(tx[w])
      BY DEF TypeInv, TypeOK
<1>8. ASSUME NEW w \in Workers, BeginChart(w)
      PROVE  TypeInv'
  <2> DEFINE t == [Idle EXCEPT !.op = "chart", !.new = SystemLedgers \ ledgers]
  <2>1. t \in Tx /\ Asks(t)
        BY DEF Idle, Tx, Ops, Asks
  <2> HIDE DEF t
  <2>2. Begin(w, t) /\ UNCHANGED <<ledgers, vouchers, raced>>
        BY <1>8 DEF BeginChart, t
  <2> QED  BY <1>5, <2>1, <2>2 DEF TypeInv, TypeOK
<1>9. ASSUME NEW w \in Workers, BeginPost(w)
      PROVE  TypeInv'
  <2>1. PICK i \in Invoices :
            Begin(w, [Idle EXCEPT !.op = "chart", !.source = i,
                                  !.name = Strip[Party[i]], !.type = TypeOf[i],
                                  !.new = SystemLedgers \ ledgers])
        BY <1>9 DEF BeginPost
  <2> DEFINE t == [Idle EXCEPT !.op = "chart", !.source = i,
                               !.name = Strip[Party[i]], !.type = TypeOf[i],
                               !.new = SystemLedgers \ ledgers]
  <2>2. t \in Tx /\ Asks(t)
        BY DEF Idle, Tx, Ops, Asks
  <2>3. Begin(w, t)
        BY <2>1
  <2> HIDE DEF t
  <2>4. UNCHANGED <<ledgers, vouchers>> /\ raced' \subseteq Invoices
        BY <1>9 DEF BeginPost, TypeInv, TypeOK
  <2> QED  BY <1>5, <2>2, <2>3, <2>4
<1>10. ASSUME NEW w \in Workers, BeginLedger(w)
       PROVE  TypeInv'
  <2>1. PICK name \in Names :
            Begin(w, [Idle EXCEPT !.op = "lookup", !.name = name])
        BY <1>10 DEF BeginLedger
  <2> DEFINE t == [Idle EXCEPT !.op = "lookup", !.name = name]
  <2>2. t \in Tx /\ Asks(t)
        BY DEF Idle, Tx, Ops, Asks
  <2>3. Begin(w, t) /\ UNCHANGED <<ledgers, vouchers, raced>>
        BY <1>10, <2>1 DEF BeginLedger
  <2> HIDE DEF t
  <2> QED  BY <1>5, <2>2, <2>3 DEF TypeInv, TypeOK
<1>11. ASSUME NEW w \in Workers, BeginVoucher(w)
       PROVE  TypeInv'
  <2>1. PICK type \in Types :
            Begin(w, [Idle EXCEPT !.op = "count", !.type = type])
        BY <1>11 DEF BeginVoucher
  <2> DEFINE t == [Idle EXCEPT !.op = "count", !.type = type]
  <2>2. t \in Tx /\ Asks(t)
        BY DEF Idle, Tx, Ops, Asks
  <2>3. Begin(w, t) /\ UNCHANGED <<ledgers, vouchers, raced>>
        BY <1>11, <2>1 DEF BeginVoucher
  <2> HIDE DEF t
  <2> QED  BY <1>5, <2>2, <2>3 DEF TypeInv, TypeOK
<1>12. ASSUME NEW w \in Workers,
              \/ FlushChart(w) \/ CheckPosted(w) \/ Lookup(w) \/ InsertVoucher(w)
       PROVE  TypeInv'
  <2> DEFINE Moved(op) == [tx[w] EXCEPT !.op = op]
  <2>1. \A op \in Ops : /\ Moved(op) \in Tx
                        /\ Moved(op).op = op
                        /\ Moved(op).source = tx[w].source
                        /\ Moved(op).name = tx[w].name
                        /\ Moved(op).type = tx[w].type
        BY <1>7 DEF Tx
  <2>2. /\ Asks(Moved("commit"))
        /\ tx[w].source # None => Asks(Moved("check")) /\ Asks(Moved("count"))
        /\ tx[w].op = "check" => Asks(Moved("lookup"))
        /\ tx[w].op = "lookup" => Asks(Moved("ledger"))
        BY <1>7, <2>1 DEF Asks, Ops
  <2>3. \/ Fail(w)
        \/ \E t : t \in Tx /\ Asks(t) /\ Continue(w, t)
    <3>1. CASE FlushChart(w)
          BY <2>1, <2>2, <3>1 DEF FlushChart, Ops
    <3>2. CASE CheckPosted(w)
          BY <2>1, <2>2, <3>2 DEF CheckPosted, Ops
    <3>3. CASE Lookup(w)
          BY <2>1, <2>2, <3>3 DEF Lookup, Ops
    <3>4. CASE InsertVoucher(w)
          BY <2>1, <2>2, <3>4 DEF InsertVoucher, Ops
    <3> QED  BY <1>12, <3>1, <3>2, <3>3, <3>4
  <2> QED  BY <1>4, <1>6, <2>3
<1>13. ASSUME NEW w \in Workers, InsertLedger(w)
       PROVE  TypeInv'
  <2> DEFINE op == IF tx[w].source = None THEN "commit" ELSE "count"
             new == tx[w].new \cup {NewName(tx[w])}
             t == [tx[w] EXCEPT !.op = op, !.new = new]
  <2>1. op \in Ops /\ new \subseteq Names
        BY <1>7, <1>13 DEF InsertLedger, NewName, Asks, Tx, Ops
  <2>2. op = "commit" \/ (op = "count" /\ tx[w].source # None)
        OBVIOUS
  <2>3. \/ Fail(w)
        \/ Continue(w, t)
        BY <1>13 DEF InsertLedger
  <2> HIDE DEF op, new
  <2>4. t \in Tx /\ Asks(t)
        BY <1>7, <2>1, <2>2 DEF Tx, Asks
  <2> QED  BY <1>4, <1>6, <2>3, <2>4
<1>14. ASSUME NEW w \in Workers, CountVouchers(w)
       PROVE  TypeInv'
  <2> DEFINE n == NextNumber(tx[w].type)
             t == [tx[w] EXCEPT !.op = "voucher", !.number = n]
  <2>1. n \in Nat
        BY FiniteRows DEF TypeInv
  <2>2. Continue(w, t) /\ tx[w].op = "count"
        BY <1>14 DEF CountVouchers
  <2> HIDE DEF n
  <2>3. t \in Tx /\ Asks(t)
        BY <1>7, <2>1, <2>2 DEF Tx, Asks, Ops
  <2> QED  BY <1>4, <2>2, <2>3
<1>15. ASSUME NEW w \in Workers, Commit(w)
       PROVE  TypeInv'
  <2>1. ledgers' \subseteq Names
        BY <1>7, <1>15 DEF Commit, TypeInv, TypeOK, Tx
  <2>2. vouchers' \subseteq Voucher
        BY <1>7, <1>15 DEF Commit, TypeInv, TypeOK, Tx, Voucher
  <2>3. IsFiniteSet(vouchers')
        BY <1>15, FS_AddElement DEF Commit, TypeInv, TypeOK
  <2>4. tx' \in [Workers -> Tx] /\ \A v \in Workers : Asks(tx'[v])
        BY <1>2, <1>3, <1>15 DEF Commit
  <2> QED  BY <1>15, <2>1, <2>2, <2>3, <2>4 DEF Commit, TypeInv, TypeOK, Asks
<1> QED
  BY <1>1, <1>6, <1>8, <1>9, <1>10, <1>11, <1>12, <1>13, <1>14, <1>15
  DEF Next, Work, Rollback

-----------------------------------------------------------------------------
(* Voucher numbers. *)

\* GaplessNumbers alone is not inductive: the number a request writes is a
\* count it read earlier.  Such a count is never ahead of the books, and once
\* the INSERT holds the number, no other request can commit a voucher of the
\* type: it would need the same number.
Holding(t) == t.op = "commit" /\ t.type # None

Numbered(t) ==
    /\ t.op = "voucher" => t.number \in 1..NextNumber(t.type)
    /\ Holding(t) => t.number = NextNumber(t.type)

NumbersInv ==
    /\ GaplessNumbers
    /\ \A w \in Workers : Numbered(tx[w])
    /\ \A w, v \in Workers : w # v /\ Holding(tx[w]) /\ Holding(tx[v])
                                => tx[w].type # tx[v].type

\* A step that neither counts nor inserts nor commits leaves its worker short
\* of a voucher.
LEMMA OtherSteps ==
    ASSUME TypeInv, NEW w \in Workers,
           \/ BeginChart(w) \/ BeginPost(w) \/ BeginLedger(w) \/ BeginVoucher(w)
           \/ FlushChart(w) \/ CheckPosted(w) \/ Lookup(w) \/ InsertLedger(w)
           \/ Rollback(w)
    PROVE  /\ UNCHANGED vouchers
           /\ tx' = [tx EXCEPT ![w] = tx'[w]]
           /\ tx'[w].op # "voucher"
           /\ ~ Holding(tx'[w])
<1> USE DEF Holding, Continue, Fail, Idle, Begin
<1>1. tx \in [Workers -> Tx] /\ tx[w] \in Tx /\ Asks(tx[w])
      BY DEF TypeInv, TypeOK
<1>2. CASE BeginChart(w)
      BY <1>1, <1>2 DEF BeginChart
<1>3. CASE BeginPost(w)
      BY <1>1, <1>3 DEF BeginPost
<1>4. CASE BeginLedger(w)
      BY <1>1, <1>4 DEF BeginLedger
<1>5. CASE BeginVoucher(w)
      BY <1>1, <1>5 DEF BeginVoucher
<1>6. CASE FlushChart(w)
      BY <1>1, <1>6 DEF FlushChart, Asks, Tx
<1>7. CASE CheckPosted(w)
      BY <1>1, <1>7 DEF CheckPosted, Tx
<1>8. CASE Lookup(w)
      BY <1>1, <1>8 DEF Lookup, Tx
<1>9. CASE InsertLedger(w)
  <2>1. CASE Fail(w)
        BY <1>1, <2>1
  <2>2. CASE ~ Fail(w)
    <3> DEFINE new == tx[w].new \cup {NewName(tx[w])}
    <3>1. Continue(w, [tx[w] EXCEPT
                !.op = IF tx[w].source = None THEN "commit" ELSE "count",
                !.new = new])
          BY <1>9, <2>2 DEF InsertLedger
    <3>2. tx[w].source = None => tx[w].type = None
          BY <1>1, <1>9 DEF InsertLedger, Asks
    <3> HIDE DEF new
    <3> QED  BY <1>1, <3>1, <3>2 DEF Tx
  <2> QED  BY <2>1, <2>2
<1>10. CASE Rollback(w)
      BY <1>1, <1>10 DEF Rollback
<1> QED
  BY <1>2, <1>3, <1>4, <1>5, <1>6, <1>7, <1>8, <1>9, <1>10

LEMMA NextNumbers ==
    ASSUME TypeInv, NumbersInv, [Next]_vars
    PROVE  NumbersInv'
<1>1. CASE UNCHANGED vars
      BY <1>1 DEF vars, NumbersInv, GaplessNumbers, Numbered, Holding,
                  NextNumber, VouchersOf
<1>2. tx \in [Workers -> Tx]
      BY DEF TypeInv, TypeOK
<1>3. ASSUME UNCHANGED vouchers
      PROVE  /\ GaplessNumbers'
             /\ \A type : NextNumber(type)' = NextNumber(type)
      BY <1>3 DEF NumbersInv, GaplessNumbers, NextNumber, VouchersOf
<1>4. ASSUME NEW w \in Workers, UNCHANGED vouchers,
             tx' = [tx EXCEPT ![w] = tx'[w]],
             tx'[w].op = "voucher"
                => tx'[w].number \in 1..NextNumber(tx'[w].type),
             Holding(tx'[w]) =>
                /\ tx'[w].number = NextNumber(tx'[w].type)
                /\ \A v \in Workers \ {w} :
                      Holding(tx[v]) => tx[v].type # tx'[w].type
      PROVE  NumbersInv'
      BY <1>2, <1>3, <1>4 DEF NumbersInv, Numbered, Holding
<1>5. ASSUME NEW w \in Workers,
             \/ BeginChart(w) \/ BeginPost(w) \/ BeginLedger(w)
             \/ BeginVoucher(w) \/ FlushChart(w) \/ CheckPosted(w)
             \/ Lookup(w) \/ InsertLedger(w) \/ Rollback(w)
      PROVE  NumbersInv'
      BY <1>4, <1>5, OtherSteps
<1>6. ASSUME NEW w \in Workers, CountVouchers(w)
      PROVE  NumbersInv'
  <2>1. /\ UNCHANGED vouchers
        /\ tx' = [tx EXCEPT ![w] = tx'[w]]
        /\ tx'[w].op = "voucher"
        /\ tx'[w].type = tx[w].type
        /\ tx'[w].number = NextNumber(tx[w].type)
        BY <1>2, <1>6 DEF CountVouchers, Continue, Tx
  <2>2. NextNumber(tx[w].type) \in 1..NextNumber(tx[w].type)
        BY FiniteRows DEF TypeInv, NextNumber
  <2> QED  BY <1>4, <2>1, <2>2 DEF Holding
<1>7. ASSUME NEW w \in Workers, InsertVoucher(w)
      PROVE  NumbersInv'
  <2> DEFINE t == tx[w]
  <2>1. CASE Fail(w)
    <3>1. Rollback(w)
          BY <1>7, <2>1 DEF InsertVoucher, Rollback, Idle
    <3> QED  BY <1>5, <3>1
  <2>2. CASE ~ Fail(w)
    <3>1. /\ t.op = "voucher"
          /\ NumberFree(w, t)
          /\ ~ \E v \in VouchersOf(t.type) : v.number = t.number
          /\ Continue(w, [t EXCEPT !.op = "commit"])
          BY <1>7, <2>2 DEF InsertVoucher
    <3>2. /\ UNCHANGED vouchers
          /\ tx' = [tx EXCEPT ![w] = tx'[w]]
          /\ tx'[w].op = "commit"
          /\ tx'[w].type = t.type
          /\ tx'[w].number = t.number
          BY <1>2, <3>1 DEF Continue, Tx
    <3>3. t.type \in Types /\ t.number \in 1..NextNumber(t.type)
          BY <3>1 DEF TypeInv, Asks, NumbersInv, Numbered
    <3>4. t.number \notin 1..Cardinality(VouchersOf(t.type))
          BY <3>1, <3>3 DEF NumbersInv, GaplessNumbers
    <3>5. t.number = NextNumber(t.type)
          BY <3>3, <3>4, FiniteRows DEF NextNumber, TypeInv
    <3>6. ASSUME NEW v \in Workers \ {w}, Holding(tx[v]), tx[v].type = t.type
          PROVE  FALSE
          BY <3>1, <3>5, <3>6 DEF NumberFree, HoldsNumber, Holding, NumbersInv, Numbered
    <3> QED  BY <1>4, <3>2, <3>5, <3>6
  <2> QED  BY <2>1, <2>2
<1>8. ASSUME NEW w \in Workers, Commit(w)
      PROVE  NumbersInv'
  <2>1. tx' = [tx EXCEPT ![w] = Idle] /\ ~ Holding(Idle) /\ Idle.op # "voucher"
        BY <1>8 DEF Commit, Holding, Idle
  <2>2. tx'[w] = Idle
        BY <1>2, <2>1
  <2>3. CASE tx[w].type = None
    <3>1. UNCHANGED vouchers
          BY <1>8, <2>3 DEF Commit
    <3> QED  BY <1>4, <2>1, <2>2, <3>1
  <2>4. CASE tx[w].type # None
    <3>1. PICK ty \in Types, n \in Nat, src \in Invoices \cup {None} :
                  ty = tx[w].type /\ n = tx[w].number /\ src = tx[w].source
          BY <1>2, <2>4 DEF Tx
    <3> DEFINE v == [type |-> ty, number |-> n, source |-> src]
    <3>2. vouchers' = vouchers \cup {v}
          BY <1>8, <2>4, <3>1 DEF Commit
    <3>3. Holding(tx[w]) /\ n = NextNumber(ty)
          BY <1>8, <2>4, <3>1 DEF Commit, Holding, NumbersInv, Numbered
    <3>4. v.type = ty /\ v.number = n
          OBVIOUS
    <3> HIDE DEF v
    <3>5. \A type : VouchersOf(type)' =
                IF type = ty THEN VouchersOf(type) \cup {v} ELSE VouchersOf(type)
          BY <3>2, <3>4, AddVoucher
    <3>6. /\ Cardinality(VouchersOf(ty)) \in Nat
          /\ IsFiniteSet(VouchersOf(ty))
          BY FiniteRows DEF TypeInv
    <3>7. {u.number : u \in VouchersOf(ty)} = 1..Cardinality(VouchersOf(ty))
          BY DEF NumbersInv, GaplessNumbers
    <3>8. v \notin VouchersOf(ty)
          BY <3>3, <3>4, <3>6, <3>7 DEF NextNumber
    <3>9. Cardinality(VouchersOf(ty) \cup {v}) = Cardinality(VouchersOf(ty)) + 1
          BY <3>6, <3>8, FS_AddElement
    <3>10. {u.number : u \in VouchersOf(ty) \cup {v}}
              = 1..(Cardinality(VouchersOf(ty)) + 1)
      <4>1. {u.number : u \in VouchersOf(ty) \cup {v}}
               = {u.number : u \in VouchersOf(ty)} \cup {n}
            BY <3>4
      <4> QED  BY <3>3, <3>6, <3>7, <4>1 DEF NextNumber
    <3>11. GaplessNumbers'
      <4> SUFFICES ASSUME NEW type \in Types
                   PROVE  {u.number : u \in VouchersOf(type)'}
                             = 1..Cardinality(VouchersOf(type)')
          BY DEF GaplessNumbers
      <4>1. CASE type = ty
            BY <3>5, <3>9, <3>10, <4>1
      <4>2. CASE type # ty
            BY <3>5, <4>2 DEF NumbersInv, GaplessNumbers
      <4> QED  BY <4>1, <4>2
    <3>12. \A type : /\ NextNumber(type) \in Nat
                     /\ NextNumber(type)' \in Nat
                     /\ NextNumber(type) <= NextNumber(type)'
                     /\ type # ty => NextNumber(type)' = NextNumber(type)
      <4>1. \A type : NextNumber(type)' =
                IF type = ty THEN NextNumber(type) + 1 ELSE NextNumber(type)
            BY <3>5, <3>9 DEF NextNumber
      <4> QED  BY <4>1, FiniteRows DEF TypeInv
    <3>13. \A u \in Workers \ {w} : Holding(tx[u]) => tx[u].type # ty
          BY <3>1, <3>3 DEF NumbersInv
    <3>14. ASSUME NEW u \in Workers
           PROVE  Numbered(tx[u])'
      <4>1. CASE u = w
            BY <2>1, <2>2, <4>1 DEF Numbered
      <4>2. CASE u # w
        <5>1. tx'[u] = tx[u] /\ Numbered(tx[u]) /\ tx[u].number \in Nat
              BY <1>2, <2>1, <4>2 DEF NumbersInv, Tx
        <5>2. PICK type : type = tx[u].type
              OBVIOUS
        <5>3. /\ NextNumber(type) \in Nat
              /\ NextNumber(type)' \in Nat
              /\ NextNumber(type) <= NextNumber(type)'
              /\ Holding(tx[u]) => NextNumber(type)' = NextNumber(type)
              BY <3>12, <3>13, <4>2, <5>2
        <5>4. NextNumber(tx[u].type)' = NextNumber(type)'
              BY <5>1, <5>2 DEF NextNumber, VouchersOf
        <5>5. Holding(tx[u])' = Holding(tx[u])
              BY <5>1 DEF Holding
        <5>6. /\ tx[u].op = "voucher" => tx[u].number \in 1..NextNumber(type)
              /\ Holding(tx[u]) => tx[u].number = NextNumber(type)
              BY <5>1, <5>2 DEF Numbered
        <5>7. /\ tx'[u].op = "voucher" => tx'[u].number \in 1..NextNumber(type)'
              /\ Holding(tx[u])' => tx'[u].number = NextNumber(type)'
              BY <5>1, <5>3, <5>5, <5>6
        <5> QED  BY <5>4, <5>7 DEF Numbered
      <4> QED  BY <4>1, <4>2
    <3>15. \A u, x \in Workers : u # x /\ Holding(tx'[u]) /\ Holding(tx'[x])
                                   => tx'[u].type # tx'[x].type
          BY <1>2, <2>1 DEF NumbersInv
    <3> QED  BY <3>11, <3>14, <3>15 DEF NumbersInv, Holding
  <2> QED  BY <2>3, <2>4
<1> QED
  BY <1>1, <1>5, <1>6, <1>7, <1>8 DEF Next, Work

-----------------------------------------------------------------------------
(* An invoice is posted once, and its party has a ledger. *)

\* Past its check, a posting that nobody overlapped is the only one.
Checked(t) == t.source # None /\ t.op \notin {"chart", "check"}

PostingInv ==
    /\ PostedOnceUnlessRaced
    /\ \A w, v \in Workers : tx[w].source \in Invoices \ raced
                             /\ tx[v].source = tx[w].source => w = v
    /\ \A w \in Workers : tx[w].source \in Invoices \ raced /\ Checked(tx[w])
                             => PostsOf(tx[w].source) = {}

\* What a request other than a commit does to the invoice it posts.
LEMMA PostingSteps ==
    ASSUME TypeInv, NEW w \in Workers,
           \/ BeginChart(w) \/ BeginLedger(w) \/ BeginVoucher(w)
           \/ FlushChart(w) \/ CheckPosted(w) \/ Lookup(w) \/ InsertLedger(w)
           \/ CountVouchers(w) \/ InsertVoucher(w) \/ Rollback(w)
    PROVE  /\ UNCHANGED <<vouchers, raced>>
           /\ tx' = [tx EXCEPT ![w] = tx'[w]]
           /\ tx'[w].source \in {tx[w].source, None}
           /\ Checked(tx'[w]) => Checked(tx[w]) \/ PostsOf(tx[w].source) = {}
<1> USE DEF Checked, Continue, Fail, Idle, Begin
<1>1. tx \in [Workers -> Tx] /\ tx[w] \in Tx
      BY DEF TypeInv, TypeOK
<1>2. CASE BeginChart(w)
      BY <1>1, <1>2 DEF BeginChart
<1>3. CASE BeginLedger(w)
      BY <1>1, <1>3 DEF BeginLedger
<1>4. CASE Rollback(w)
      BY <1>1, <1>4 DEF Rollback
<1>5. CASE BeginVoucher(w)
  <2>1. PICK type \in Types : Begin(w, [Idle EXCEPT !.op = "count", !.type = type])
        BY <1>5 DEF BeginVoucher
  <2>2. tx'[w].source = None /\ tx' = [tx EXCEPT ![w] = tx'[w]]
        BY <1>1, <2>1
  <2> QED  BY <1>5, <2>2 DEF BeginVoucher
<1>6. CASE FlushChart(w)
      BY <1>1, <1>6 DEF FlushChart, Tx
<1>7. CASE CheckPosted(w)
      BY <1>1, <1>7 DEF CheckPosted, Tx
<1>8. CASE Lookup(w)
      BY <1>1, <1>8 DEF Lookup, Tx
<1>9. CASE InsertLedger(w)
  <2>1. CASE Fail(w)
        BY <1>1, <2>1
  <2>2. CASE ~ Fail(w)
    <3> DEFINE new == tx[w].new \cup {NewName(tx[w])}
    <3>1. Continue(w, [tx[w] EXCEPT
                !.op = IF tx[w].source = None THEN "commit" ELSE "count",
                !.new = new])
          BY <1>9, <2>2 DEF InsertLedger
    <3>2. tx[w].op = "ledger"
          BY <1>9 DEF InsertLedger
    <3> HIDE DEF new
    <3> QED  BY <1>1, <3>1, <3>2 DEF Tx
  <2> QED  BY <2>1, <2>2
<1>10. CASE CountVouchers(w)
      BY <1>1, <1>10 DEF CountVouchers, Tx
<1>11. CASE InsertVoucher(w)
      BY <1>1, <1>11 DEF InsertVoucher, Tx
<1> QED
  BY <1>2, <1>3, <1>4, <1>5, <1>6, <1>7, <1>8, <1>9, <1>10, <1>11

LEMMA NextPosting ==
    ASSUME TypeInv, PostingInv, [Next]_vars
    PROVE  PostingInv'
<1> USE BooksAssumption
<1>1. CASE UNCHANGED vars
      BY <1>1 DEF vars, PostingInv, PostedOnceUnlessRaced, PostsOf, Checked
<1>2. tx \in [Workers -> Tx]
      BY DEF TypeInv, TypeOK
<1>3. ASSUME NEW w \in Workers,
             \/ BeginChart(w) \/ BeginLedger(w) \/ BeginVoucher(w)
             \/ FlushChart(w) \/ CheckPosted(w) \/ Lookup(w) \/ InsertLedger(w)
             \/ CountVouchers(w) \/ InsertVoucher(w) \/ Rollback(w)
      PROVE  PostingInv'
  <2>1. /\ UNCHANGED <<vouchers, raced>>
        /\ tx' = [tx EXCEPT ![w] = tx'[w]]
        /\ tx'[w].source \in {tx[w].source, None}
        /\ Checked(tx'[w]) => Checked(tx[w]) \/ PostsOf(tx[w].source) = {}
        BY <1>3, PostingSteps
  <2>2. \A v \in Workers : v # w => tx'[v] = tx[v]
        BY <1>2, <2>1
  <2>3. PostedOnceUnlessRaced'
        BY <2>1 DEF PostingInv, PostedOnceUnlessRaced, PostsOf
  <2>4. \A u, v \in Workers : tx'[u].source \in Invoices \ raced
                              /\ tx'[v].source = tx'[u].source => u = v
        BY <2>1, <2>2 DEF PostingInv
  <2>5. ASSUME NEW v \in Workers, tx'[v].source \in Invoices \ raced, Checked(tx'[v])
        PROVE  PostsOf(tx'[v].source) = {}
        BY <2>1, <2>2, <2>5 DEF PostingInv, Checked
  <2> QED  BY <2>1, <2>3, <2>4, <2>5 DEF PostingInv, PostsOf, Checked
<1>4. ASSUME NEW w \in Workers, BeginPost(w)
      PROVE  PostingInv'
  <2>1. PICK i \in Invoices :
          /\ tx[w] = Idle
          /\ tx' = [tx EXCEPT ![w] =
                [Idle EXCEPT !.op = "chart", !.source = i,
                             !.name = Strip[Party[i]], !.type = TypeOf[i],
                             !.new = SystemLedgers \ ledgers]]
          /\ raced' = IF \E v \in Workers : tx[v].source = i
                      THEN raced \cup {i} ELSE raced
          /\ UNCHANGED vouchers
        BY <1>4 DEF BeginPost, Begin
  <2>2. /\ \A v \in Workers : v # w => tx'[v] = tx[v]
        /\ tx'[w].source = i
        /\ tx'[w].op = "chart"
        BY <1>2, <2>1 DEF Idle
  <2>3. raced \subseteq raced'
        BY <2>1
  <2>4. i \notin raced' => \A v \in Workers : tx[v].source # i
        BY <2>1
  <2>5. PostedOnceUnlessRaced'
        BY <2>1, <2>3 DEF PostingInv, PostedOnceUnlessRaced, PostsOf
  <2>6. \A u, v \in Workers : tx'[u].source \in Invoices \ raced'
                              /\ tx'[v].source = tx'[u].source => u = v
        BY <2>2, <2>3, <2>4 DEF PostingInv
  <2>7. ASSUME NEW v \in Workers, tx'[v].source \in Invoices \ raced', Checked(tx'[v])
        PROVE  PostsOf(tx'[v].source) = {}
        BY <2>2, <2>3, <2>7 DEF PostingInv, Checked
  <2> QED  BY <2>1, <2>5, <2>6, <2>7 DEF PostingInv, PostsOf, Checked
<1>5. ASSUME NEW w \in Workers, Commit(w)
      PROVE  PostingInv'
  <2>1. /\ \A v \in Workers : v # w => tx'[v] = tx[v]
        /\ tx'[w].source = None
        /\ UNCHANGED raced
        BY <1>2, <1>5 DEF Commit, Idle
  <2>2. \A u, v \in Workers : tx'[u].source \in Invoices \ raced
                              /\ tx'[v].source = tx'[u].source => u = v
        BY <2>1 DEF PostingInv
  <2>3. PICK s : s = tx[w].source
        OBVIOUS
  <2>4. \A i \in Invoices : i # s => PostsOf(i)' = PostsOf(i)
    <3>1. CASE tx[w].type = None
          BY <1>5, <3>1 DEF Commit, PostsOf
    <3>2. CASE tx[w].type # None
      <4> PICK v : v = [type |-> tx[w].type, number |-> tx[w].number, source |-> s]
          OBVIOUS
      <4>1. vouchers' = vouchers \cup {v} /\ v.source = s
            BY <1>5, <2>3, <3>2 DEF Commit
      <4> QED  BY <4>1, AddVoucher
    <3> QED  BY <3>1, <3>2
  <2>5. s \in Invoices \ raced => Cardinality(PostsOf(s)') <= 1
    <3> SUFFICES ASSUME s \in Invoices \ raced
                 PROVE  Cardinality(PostsOf(s)') <= 1
        OBVIOUS
    <3>1. PostsOf(s) = {}
          BY <1>5, <2>3 DEF Commit, PostingInv, Checked
    <3>2. PICK v : v = [type |-> tx[w].type, number |-> tx[w].number, source |-> s]
          OBVIOUS
    <3>3. v.source = s /\ vouchers' \in {vouchers, vouchers \cup {v}}
          BY <1>5, <2>3, <3>2 DEF Commit
    <3>4. PostsOf(s)' \in {{}, {v}}
          BY <3>1, <3>3 DEF PostsOf
    <3>5. Cardinality({}) = 0 /\ Cardinality({v}) = 1
          BY FS_EmptySet, FS_Singleton
    <3> QED  BY <3>4, <3>5
  <2>6. PostedOnceUnlessRaced'
    <3> SUFFICES ASSUME NEW i \in Invoices \ raced
                 PROVE  Cardinality(PostsOf(i)') <= 1
        BY <2>1 DEF PostedOnceUnlessRaced
    <3>1. CASE i = s
      <4>1. PostsOf(i)' = PostsOf(s)'
            BY <3>1 DEF PostsOf
      <4> QED  BY <2>5, <3>1, <4>1
    <3>2. CASE i # s
          BY <2>4, <3>2 DEF PostingInv, PostedOnceUnlessRaced
    <3> QED  BY <3>1, <3>2
  <2>7. ASSUME NEW v \in Workers, tx'[v].source \in Invoices \ raced, Checked(tx'[v])
        PROVE  {x \in vouchers' : x.source = tx'[v].source} = {}
    <3>1. v # w /\ tx'[v] = tx[v] /\ tx[v].source # s
          BY <2>1, <2>3, <2>7 DEF PostingInv
    <3>2. PICK i \in Invoices : i = tx[v].source
          BY <2>7, <3>1
    <3>3. PostsOf(i)' = {}
          BY <2>4, <2>7, <3>1, <3>2 DEF PostingInv, Checked
    <3> QED  BY <3>1, <3>2, <3>3 DEF PostsOf
  <2> QED  BY <2>1, <2>2, <2>6, <2>7 DEF PostingInv, Checked, PostsOf
<1> QED
  BY <1>1, <1>3, <1>4, <1>5 DEF Next, Work

-----------------------------------------------------------------------------
(* The chart of accounts. *)

\* Any request under way finds the whole chart among the committed ledgers
\* and its own, and a posting past its lookup finds its party's ledger too.
Prepared(t) ==
    /\ t.op # "idle" => SystemLedgers \subseteq ledgers \cup t.new
    /\ t.source # None => t.name = Strip[Party[t.source]]
    /\ t.source # None /\ t.op \in {"count", "voucher", "commit"} =>
          \E l \in ledgers \cup t.new : Lower[l] = Lower[t.name]

ChartInv == ChartWhole /\ \A w \in Workers : Prepared(tx[w])

\* A step other than a commit leaves its own request prepared.
LEMMA PreparedSteps ==
    ASSUME TypeInv, ChartInv, NEW w \in Workers,
           \/ BeginChart(w) \/ BeginPost(w) \/ BeginLedger(w) \/ BeginVoucher(w)
           \/ FlushChart(w) \/ CheckPosted(w) \/ Lookup(w) \/ InsertLedger(w)
           \/ CountVouchers(w) \/ InsertVoucher(w) \/ Rollback(w)
    PROVE  /\ UNCHANGED <<ledgers, vouchers>>
           /\ tx' = [tx EXCEPT ![w] = tx'[w]]
           /\ Prepared(tx'[w])
<1> USE BooksAssumption
<1>1. /\ tx \in [Workers -> Tx] /\ tx[w] \in Tx /\ Asks(tx[w])
      /\ ChartWhole /\ Prepared(tx[w])
      BY DEF TypeInv, TypeOK, ChartInv
<1>2. Prepared(Idle)
      BY DEF Prepared, Idle
<1>3. ledgers # {} => SystemLedgers \subseteq ledgers
      BY <1>1 DEF ChartWhole
<1>4. ASSUME NEW t, Prepared(t), Begin(w, t) \/ Continue(w, t),
             UNCHANGED <<ledgers, vouchers>>
      PROVE  /\ tx' = [tx EXCEPT ![w] = tx'[w]]
             /\ Prepared(tx'[w])
      BY <1>1, <1>4 DEF Begin, Continue
<1>5. ASSUME Fail(w)
      PROVE  /\ UNCHANGED <<ledgers, vouchers>>
             /\ tx' = [tx EXCEPT ![w] = tx'[w]]
             /\ Prepared(tx'[w])
      BY <1>2, <1>4, <1>5 DEF Fail, Continue
<1>6. CASE BeginChart(w)
  <2> DEFINE t == [Idle EXCEPT !.op = "chart", !.new = SystemLedgers \ ledgers]
  <2>1. Prepared(t)
        BY DEF Prepared, Idle
  <2> HIDE DEF t
  <2>2. Begin(w, t) /\ UNCHANGED <<ledgers, vouchers>>
        BY <1>6 DEF BeginChart, t
  <2> QED  BY <1>4, <2>1, <2>2
<1>7. CASE BeginPost(w)
  <2>1. PICK i \in Invoices :
            Begin(w, [Idle EXCEPT !.op = "chart", !.source = i,
                                  !.name = Strip[Party[i]], !.type = TypeOf[i],
                                  !.new = SystemLedgers \ ledgers])
        BY <1>7 DEF BeginPost
  <2> DEFINE t == [Idle EXCEPT !.op = "chart", !.source = i,
                               !.name = Strip[Party[i]], !.type = TypeOf[i],
                               !.new = SystemLedgers \ ledgers]
  <2>2. Prepared(t)
        BY DEF Prepared, Idle
  <2>3. Begin(w, t) /\ UNCHANGED <<ledgers, vouchers>>
        BY <1>7, <2>1 DEF BeginPost
  <2> HIDE DEF t
  <2> QED  BY <1>4, <2>2, <2>3
<1>8. CASE BeginLedger(w)
  <2>1. PICK name \in Names :
            Begin(w, [Idle EXCEPT !.op = "lookup", !.name = name])
        BY <1>8 DEF BeginLedger
  <2> DEFINE t == [Idle EXCEPT !.op = "lookup", !.name = name]
  <2>2. Prepared(t)
        BY <1>3, <1>8 DEF BeginLedger, Prepared, Idle
  <2>3. Begin(w, t) /\ UNCHANGED <<ledgers, vouchers>>
        BY <1>8, <2>1 DEF BeginLedger
  <2> HIDE DEF t
  <2> QED  BY <1>4, <2>2, <2>3
<1>9. CASE BeginVoucher(w)
  <2>1. PICK type \in Types :
            Begin(w, [Idle EXCEPT !.op = "count", !.type = type])
        BY <1>9 DEF BeginVoucher
  <2> DEFINE t == [Idle EXCEPT !.op = "count", !.type = type]
  <2>2. Prepared(t)
        BY <1>3, <1>9 DEF BeginVoucher, Prepared, Idle
  <2>3. Begin(w, t) /\ UNCHANGED <<ledgers, vouchers>>
        BY <1>9, <2>1 DEF BeginVoucher
  <2> HIDE DEF t
  <2> QED  BY <1>4, <2>2, <2>3
<1>10. ASSUME tx[w].op # "idle", NEW op \in Ops,
              op \in {"count", "voucher", "commit"} =>
                \/ tx[w].source = None
                \/ tx[w].op \in {"count", "voucher"}
                \/ \E l \in Matches(w, tx[w].name) : TRUE,
              Continue(w, [tx[w] EXCEPT !.op = op])
       PROVE  /\ UNCHANGED <<ledgers, vouchers>>
              /\ tx' = [tx EXCEPT ![w] = tx'[w]]
              /\ Prepared(tx'[w])
  <2> DEFINE t == [tx[w] EXCEPT !.op = op]
  <2>1. /\ t.op = op /\ t.source = tx[w].source
        /\ t.name = tx[w].name /\ t.new = tx[w].new
        BY <1>1 DEF Tx
  <2>2. Continue(w, t)
        BY <1>10
  <2> HIDE DEF t
  <2>3. Prepared(t)
        BY <1>1, <1>10, <2>1 DEF Prepared, Matches
  <2> QED  BY <1>4, <2>2, <2>3 DEF Continue
<1>11. CASE FlushChart(w)
       BY <1>5, <1>10, <1>11 DEF FlushChart, Fail, Continue, Ops
<1>12. CASE CheckPosted(w)
       BY <1>5, <1>10, <1>12 DEF CheckPosted, Fail, Continue, Ops
<1>13. CASE Lookup(w)
  <2>1. CASE Fail(w)
        BY <1>5, <2>1 DEF Fail, Continue
  <2>2. CASE Matches(w, tx[w].name) = {}
             /\ Continue(w, [tx[w] EXCEPT !.op = "ledger"])
        BY <1>10, <1>13, <2>2 DEF Lookup, Ops
  <2>3. CASE Matches(w, tx[w].name) # {}
             /\ Continue(w, [tx[w] EXCEPT !.op = "count"])
        BY <1>10, <1>13, <2>3 DEF Lookup, Ops
  <2>4. Cardinality({}) = 0
        BY FS_EmptySet
  <2>5. \/ Fail(w)
        \/ Matches(w, tx[w].name) = {}
              /\ Continue(w, [tx[w] EXCEPT !.op = "ledger"])
        \/ Matches(w, tx[w].name) # {}
              /\ Continue(w, [tx[w] EXCEPT !.op = "count"])
    <3>1. CASE Matches(w, tx[w].name) = {}
          BY <1>13, <2>4, <3>1 DEF Lookup
    <3>2. CASE Matches(w, tx[w].name) # {}
          BY <1>13, <3>2 DEF Lookup
    <3> QED  BY <3>1, <3>2
  <2> QED  BY <2>1, <2>2, <2>3, <2>5
<1>14. CASE CountVouchers(w)
  <2> DEFINE n == NextNumber(tx[w].type)
             t == [tx[w] EXCEPT !.op = "voucher", !.number = n]
  <2>1. Continue(w, t) /\ tx[w].op = "count"
        BY <1>14 DEF CountVouchers
  <2> HIDE DEF n
  <2>2. Prepared(t)
        BY <1>1, <2>1 DEF Prepared, Tx
  <2> HIDE DEF t
  <2> QED  BY <1>4, <2>1, <2>2 DEF Continue
<1>15. CASE InsertVoucher(w)
       BY <1>5, <1>10, <1>15 DEF InsertVoucher, Fail, Continue, Ops
<1>16. CASE InsertLedger(w)
  <2> DEFINE new == tx[w].new \cup {NewName(tx[w])}
             op == IF tx[w].source = None THEN "commit" ELSE "count"
             t == [tx[w] EXCEPT !.op = op, !.new = new]
  <2>1. Fail(w) \/ Continue(w, t)
        BY <1>16 DEF InsertLedger
  <2>2. tx[w].op = "ledger" /\ (tx[w].source # None => NewName(tx[w]) = tx[w].name)
        BY <1>16 DEF InsertLedger, NewName
  <2>3. tx[w].new \subseteq new /\ NewName(tx[w]) \in new
        OBVIOUS
  <2> HIDE DEF new, op
  <2>4. t.name = tx[w].name /\ t.source = tx[w].source /\ t.new = new
        BY <1>1 DEF Tx
  <2> HIDE DEF t
  <2>5. Prepared(t)
        BY <1>1, <2>2, <2>3, <2>4 DEF Prepared
  <2>6. CASE Fail(w)
        BY <1>5, <2>6
  <2>7. CASE Continue(w, t)
    <3>1. UNCHANGED <<ledgers, vouchers>>
          BY <2>7 DEF Continue
    <3> QED  BY <1>4, <2>5, <2>7, <3>1
  <2> QED  BY <2>1, <2>6, <2>7
<1>17. CASE Rollback(w)
       BY <1>5, <1>17 DEF Rollback, Fail, Continue
<1> QED
  BY <1>6, <1>7, <1>8, <1>9, <1>11, <1>12, <1>13, <1>14, <1>15, <1>16, <1>17

LEMMA NextChart ==
    ASSUME TypeInv, ChartInv, [Next]_vars
    PROVE  ChartInv'
<1> USE BooksAssumption
<1>1. CASE UNCHANGED vars
      BY <1>1 DEF vars, ChartInv, ChartWhole, Prepared
<1>2. tx \in [Workers -> Tx]
      BY DEF TypeInv, TypeOK
<1>3. ASSUME NEW w \in Workers, UNCHANGED <<ledgers, vouchers>>,
             tx' = [tx EXCEPT ![w] = tx'[w]], Prepared(tx'[w])
      PROVE  ChartInv'
      BY <1>2, <1>3 DEF ChartInv, ChartWhole, Prepared
<1>4. ASSUME NEW w \in Workers, Commit(w)
      PROVE  ChartInv'
  <2>1. ledgers' = ledgers \cup tx[w].new /\ tx' = [tx EXCEPT ![w] = Idle]
        BY <1>4 DEF Commit
  <2>2. Prepared(tx[w]) /\ ChartWhole /\ tx[w].op = "commit"
        BY <1>4 DEF ChartInv, Commit
  <2>3. SystemLedgers \subseteq ledgers'
        BY <2>1, <2>2 DEF Prepared
  <2>4. ASSUME NEW v \in vouchers', v.source # None
        PROVE  \E l \in ledgers' : Lower[l] = Lower[Strip[Party[v.source]]]
    <3>1. CASE v \in vouchers
          BY <2>1, <2>2, <2>4, <3>1 DEF ChartWhole
    <3>2. CASE v \notin vouchers
      <4>1. v.source = tx[w].source
            BY <1>4, <3>2 DEF Commit
      <4> QED  BY <2>1, <2>2, <2>4, <4>1 DEF Prepared
    <3> QED  BY <3>1, <3>2
  <2>5. ASSUME NEW v \in Workers
        PROVE  Prepared(tx[v])'
    <3>1. CASE v = w
          BY <1>2, <2>1, <3>1 DEF Prepared, Idle
    <3>2. CASE v # w
      <4>1. tx'[v] = tx[v] /\ ledgers \subseteq ledgers'
            BY <1>2, <2>1, <3>2
      <4> QED  BY <4>1 DEF ChartInv, Prepared
    <3> QED  BY <3>1, <3>2
  <2> QED  BY <2>3, <2>4, <2>5 DEF ChartInv, ChartWhole
<1> QED
  BY <1>1, <1>3, <1>4, PreparedSteps DEF Next, Work

-----------------------------------------------------------------------------
(* Waits. *)

\* Before a request has its ledgers it holds the chart that it creates or
\* nothing, and no name is held twice.
Early == {"chart", "check", "lookup", "ledger"}

HoldersInv ==
    /\ \A w \in Workers : tx[w].op \in Early => tx[w].new \in {{}, SystemLedgers}
    /\ \A w, v \in Workers : w # v /\ tx[w].op # "chart" /\ tx[v].op # "chart"
                                => tx[w].new \cap tx[v].new = {}

\* A step of w that leaves it with names that nobody else holds.
LEMMA HoldersStep ==
    ASSUME TypeInv, HoldersInv, NEW w \in Workers,
           tx' = [tx EXCEPT ![w] = tx'[w]],
           tx'[w].op \in Early => tx'[w].new \in {{}, SystemLedgers},
           tx'[w].op # "chart" =>
               \A v \in Workers \ {w} : tx[v].op # "chart"
                                           => tx'[w].new \cap tx[v].new = {}
    PROVE  HoldersInv'
<1>1. tx \in [Workers -> Tx]
      BY DEF TypeInv, TypeOK
<1>2. \A v \in Workers \ {w} : tx'[v] = tx[v]
      BY <1>1
<1> QED  BY <1>2 DEF HoldersInv

\* A step that takes no names.
LEMMA HoldersMove ==
    ASSUME TypeInv, HoldersInv, NEW w \in Workers,
           tx' = [tx EXCEPT ![w] = tx'[w]],
           \/ tx'[w].new = {}
           \/ /\ tx'[w].new = tx[w].new
              /\ tx[w].op # "chart"
              /\ tx'[w].op \in Early => tx[w].op \in Early
    PROVE  HoldersInv'
<1>1. tx'[w].op \in Early => tx'[w].new \in {{}, SystemLedgers}
      BY DEF HoldersInv
<1>2. \A v \in Workers \ {w} : tx[v].op # "chart" => tx'[w].new \cap tx[v].new = {}
      BY DEF HoldersInv
<1> QED  BY <1>1, <1>2, HoldersStep

LEMMA NextHolders ==
    ASSUME TypeInv, ChartInv, HoldersInv, [Next]_vars
    PROVE  HoldersInv'
<1> USE DEF Continue, Fail, Idle, Begin
<1>1. CASE UNCHANGED vars
      BY <1>1 DEF vars, HoldersInv
<1>2. tx \in [Workers -> Tx] /\ \A w \in Workers : tx[w] \in Tx
      BY DEF TypeInv, TypeOK
<1>3. SystemLedgers \ ledgers \in {{}, SystemLedgers}
      BY DEF ChartInv, ChartWhole
<1>4. ASSUME NEW w \in Workers, BeginChart(w) \/ BeginPost(w)
      PROVE  HoldersInv'
  <2>1. /\ tx' = [tx EXCEPT ![w] = tx'[w]]
        /\ tx'[w].op = "chart"
        /\ tx'[w].new = SystemLedgers \ ledgers
        BY <1>2, <1>4 DEF BeginChart, BeginPost
  <2> QED  BY <1>3, <2>1, HoldersStep
<1>5. ASSUME NEW w \in Workers,
             \/ BeginLedger(w) \/ BeginVoucher(w) \/ Rollback(w) \/ Commit(w)
      PROVE  HoldersInv'
  <2>1. tx' = [tx EXCEPT ![w] = tx'[w]] /\ tx'[w].new = {}
    <3>1. CASE BeginLedger(w)
          BY <1>2, <3>1 DEF BeginLedger
    <3>2. CASE BeginVoucher(w)
          BY <1>2, <3>2 DEF BeginVoucher
    <3>3. CASE Rollback(w)
          BY <1>2, <3>3 DEF Rollback
    <3>4. CASE Commit(w)
          BY <1>2, <3>4 DEF Commit
    <3> QED  BY <1>5, <3>1, <3>2, <3>3, <3>4
  <2> QED  BY <2>1, HoldersMove
<1>6. ASSUME NEW w \in Workers, FlushChart(w)
      PROVE  HoldersInv'
  <2>1. tx[w].op = "chart" /\ NamesFree(w, tx[w].new)
        BY <1>6 DEF FlushChart
  <2>2. CASE Fail(w)
        BY <1>2, <2>2, HoldersMove
  <2>3. CASE ~ Fail(w)
    <3>1. /\ tx' = [tx EXCEPT ![w] = tx'[w]]
          /\ tx'[w].new = tx[w].new
          BY <1>2, <1>6, <2>3 DEF FlushChart, Tx
    <3>2. tx[w].new \in {{}, SystemLedgers}
          BY <2>1 DEF HoldersInv, Early
    <3>3. \A v \in Workers \ {w} : tx[v].op # "chart" => tx[w].new \cap tx[v].new = {}
          BY <2>1 DEF NamesFree, HoldsNames
    <3> QED  BY <3>1, <3>2, <3>3, HoldersStep
  <2> QED  BY <2>2, <2>3
<1>7. ASSUME NEW w \in Workers, InsertLedger(w)
      PROVE  HoldersInv'
  <2> DEFINE n == NewName(tx[w])
  <2>1. tx[w].op = "ledger" /\ NamesFree(w, {n})
        BY <1>7 DEF InsertLedger
  <2>2. CASE Fail(w)
        BY <1>2, <2>2, HoldersMove
  <2>3. CASE ~ Fail(w)
    <3>1. Continue(w, [tx[w] EXCEPT
                !.op = IF tx[w].source = None THEN "commit" ELSE "count",
                !.new = @ \cup {n}])
          BY <1>7, <2>3 DEF InsertLedger
    <3> HIDE DEF n
    <3>2. /\ tx' = [tx EXCEPT ![w] = tx'[w]]
          /\ tx'[w].new = tx[w].new \cup {n}
          /\ tx'[w].op \in {"commit", "count"}
          BY <1>2, <3>1 DEF Tx
    <3>3. \A v \in Workers \ {w} : tx[v].op # "chart" =>
              tx[w].new \cap tx[v].new = {} /\ n \notin tx[v].new
          BY <2>1 DEF NamesFree, HoldsNames, HoldersInv
    <3> QED  BY <3>2, <3>3, HoldersStep DEF Early
  <2> QED  BY <2>2, <2>3
<1>8. ASSUME NEW w \in Workers,
             \/ CheckPosted(w) \/ Lookup(w) \/ CountVouchers(w) \/ InsertVoucher(w)
      PROVE  HoldersInv'
  <2>1. CASE Fail(w)
        BY <1>2, <2>1, HoldersMove
  <2>2. CASE ~ Fail(w)
    <3>1. /\ tx' = [tx EXCEPT ![w] = tx'[w]]
          /\ tx'[w].new = tx[w].new
          /\ tx[w].op # "chart"
          /\ tx'[w].op \in Early => tx[w].op \in Early
      <4>1. CASE CheckPosted(w)
            BY <1>2, <2>2, <4>1 DEF CheckPosted, Tx, Early
      <4>2. CASE Lookup(w)
            BY <1>2, <2>2, <4>2 DEF Lookup, Tx, Early
      <4>3. CASE CountVouchers(w)
            BY <1>2, <2>2, <4>3 DEF CountVouchers, Tx, Early
      <4>4. CASE InsertVoucher(w)
            BY <1>2, <2>2, <4>4 DEF InsertVoucher, Tx, Early
      <4> QED  BY <1>8, <4>1, <4>2, <4>3, <4>4
    <3> QED  BY <3>1, HoldersMove
  <2> QED  BY <2>1, <2>2
<1> QED
  BY <1>1, <1>4, <1>5, <1>6, <1>7, <1>8 DEF Next, Work

\* How far a request is from having all that it needs.
Level(w) == CASE tx[w].op = "chart"   -> 4
              [] tx[w].op = "ledger"  -> IF tx[w].new = {} THEN 3 ELSE 2
              [] tx[w].op = "voucher" -> 1
              [] OTHER -> 0

\* Every wait is for one that is nearer to its end.
LEMMA WaitsDescend ==
    ASSUME HoldersInv, NEW w \in Workers, NEW v \in Workers, Waits(w, v)
    PROVE  Level(v) < Level(w)
<1>1. v # w
      BY DEF Waits
<1>2. CASE tx[w].op = "chart"
  <2>1. tx[v].op # "chart"
        BY <1>2 DEF Waits, HoldsNames
  <2>2. Level(v) \in 0..3 /\ Level(w) = 4
        BY <1>2, <2>1 DEF Level
  <2> QED  BY <2>2
<1>3. CASE tx[w].op = "ledger"
  <2>1. tx[v].op # "chart" /\ tx[v].new # {}
        BY <1>3 DEF Waits, HoldsNames
  <2>2. CASE tx[w].new = {}
    <3>1. Level(v) \in 0..2 /\ Level(w) = 3
          BY <1>3, <2>1, <2>2 DEF Level
    <3> QED  BY <3>1
  <2>3. CASE tx[w].new # {}
    <3>1. tx[w].new = SystemLedgers /\ tx[v].new \cap SystemLedgers = {}
          BY <1>1, <1>3, <2>1, <2>3 DEF HoldersInv, Early
    <3>2. tx[v].op # "ledger"
          BY <2>1, <3>1 DEF HoldersInv, Early
    <3>3. Level(v) \in 0..1 /\ Level(w) = 2
          BY <1>3, <2>1, <2>3, <3>2 DEF Level
    <3> QED  BY <3>3
  <2> QED  BY <2>2, <2>3
<1>4. CASE tx[w].op = "voucher"
  <2>1. tx[v].op = "commit"
        BY <1>4 DEF Waits, HoldsNumber
  <2>2. Level(v) = 0 /\ Level(w) = 1
        BY <1>4, <2>1 DEF Level
  <2> QED  BY <2>2
<1> QED  BY <1>2, <1>3, <1>4 DEF Waits

-----------------------------------------------------------------------------
(* The theorems. *)

BooksInv == TypeInv /\ NumbersInv /\ PostingInv /\ ChartInv /\ HoldersInv

LEMMA InitBooks == Init => BooksInv
<1> SUFFICES ASSUME Init
             PROVE  BooksInv
    OBVIOUS
<1>1. TypeInv
      BY InitType
<1>2. /\ \A type : VouchersOf(type) = {}
      /\ \A i : PostsOf(i) = {}
      /\ \A w \in Workers : tx[w] = Idle
      BY DEF Init, VouchersOf, PostsOf
<1>3. NumbersInv
  <2>1. Cardinality({}) = 0 /\ 1..0 = {}
        BY FS_EmptySet
  <2>2. GaplessNumbers
        BY <1>2, <2>1 DEF GaplessNumbers
  <2> QED  BY <1>2, <2>2 DEF NumbersInv, Numbered, Holding, Idle
<1>4. PostingInv
  <2>1. Cardinality({}) = 0
        BY FS_EmptySet
  <2>2. PostedOnceUnlessRaced
        BY <1>2, <2>1 DEF PostedOnceUnlessRaced
  <2> QED  BY <1>2, <2>2, BooksAssumption DEF PostingInv, Checked, Idle
<1>5. ChartInv
      BY <1>2 DEF Init, ChartInv, ChartWhole, Prepared, Idle
<1>6. HoldersInv
      BY <1>2 DEF HoldersInv, Idle, Early
<1> QED  BY <1>1, <1>3, <1>4, <1>5, <1>6 DEF BooksInv

LEMMA Inductive == Spec => []BooksInv
<1>1. Init => BooksInv
      BY InitBooks
<1>2. BooksInv /\ [Next]_vars => BooksInv'
      BY NextType, NextNumbers, NextPosting, NextChart, NextHolders DEF BooksInv
<1> QED  BY <1>1, <1>2, PTL DEF Spec

\* Ledgers, vouchers and transactions keep their types, and the books stay
\* finite.
THEOREM TypeCorrect == Spec => []TypeOK
<1>1. BooksInv => TypeOK
      BY DEF BooksInv, TypeInv
<1> QED  BY <1>1, Inductive, PTL

\* However requests overlap, wait, fail or roll back, the committed vouchers
\* of each type are numbered 1, 2, 3, ... : _next_voucher_number reads a count
\* that may be stale, and the unique index refuses every stale number.
THEOREM VouchersGapless == Spec => []GaplessNumbers
<1>1. BooksInv => GaplessNumbers
      BY DEF BooksInv, NumbersInv
<1> QED  BY <1>1, Inductive, PTL

\* post_invoice books an invoice at most once unless two requests were posting
\* it at the same time.
THEOREM PostingIsOnce == Spec => []PostedOnceUnlessRaced
<1>1. BooksInv => PostedOnceUnlessRaced
      BY DEF BooksInv, PostingInv
<1> QED  BY <1>1, Inductive, PTL

\* The system ledgers are committed all together before anything else is, and
\* the party of a posted invoice has a ledger.
THEOREM ChartStaysWhole == Spec => []ChartWhole
<1>1. BooksInv => ChartWhole
      BY DEF BooksInv, ChartInv
<1> QED  BY <1>1, Inductive, PTL

\* Postings, new ledgers and new charts never deadlock: all take the names of
\* the chart, the name of a party and a voucher number in this order.
THEOREM WaitsEnd == Spec => []NeverDeadlocks
<1>1. ASSUME HoldersInv
      PROVE  NeverDeadlocks
  <2> SUFFICES ASSUME NEW w \in Workers, w \in Behind(w)
               PROVE  FALSE
      BY DEF NeverDeadlocks
  <2> DEFINE U == {v \in Workers : Level(v) < Level(w)}
  <2>1. \A v \in Workers : Level(v) \in 0..4
        BY DEF Level
  <2>2. ASSUME NEW x \in Workers \X Workers, Waits(x[1], x[2]), x[1] \in U \cup {w}
        PROVE  x[2] \in U
    <3>1. Level(x[2]) < Level(x[1])
          BY <1>1, <2>2, WaitsDescend
    <3> QED  BY <2>1, <2>2, <3>1
  <2>3. w \notin U
        BY <2>1
  <2>4. U \in SUBSET Workers
        OBVIOUS
  <2> HIDE DEF U
  <2> QED  BY <2>2, <2>3, <2>4 DEF Behind, WaitedFor
<1>2. BooksInv => NeverDeadlocks
      BY <1>1 DEF BooksInv
<1> QED  BY <1>2, Inductive, PTL
=============================================================================
