------------------------- MODULE NasLagFollowProofs -------------------------
(***************************************************************************)
(* Proofs that the LAG tables end as the kernel, the publications and the  *)
(* links are, for any ports, LAGs and requests, when no call fails.        *)
(*                                                                         *)
(* While events are pending the tables may differ from the kernel in any   *)
(* way that the events make good.  KernelInv says what the kernel's queue  *)
(* looks like: the events of a port alternate, and the last one about a    *)
(* bond is its deletion.  Every operation on the kernel appends to the     *)
(* queue in the way Grows names, which is all the proofs need of it.       *)
(* Follow, Blocks and Public say which event, link report or step of the   *)
(* request will mend each difference.  A handler that takes an event from  *)
(* the queue mends what the event stood for (the On* lemmas).              *)
(***************************************************************************)
EXTENDS NasLagProofs

Has(q, e) == \E i \in 1..Len(q) : q[i] = e
About(q, p) == \E i \in 1..Len(q) : q[i].port = p
Leaves(q, p) == \E i \in 1..Len(q) : q[i].port = p /\ q[i].op = "delete"

Alternates(q, x, p) ==
  \A i \in 1..Len(q) : q[i].port = p =>
    IF q[i].op = "create"
    THEN q[i].lag = x \/ \E j \in (i + 1)..Len(q) : q[j] = Delete(q[i].lag, p)
    ELSE x = None \/ \E j \in (i + 1)..Len(q) : q[j] = Create(x, p)

KernelInv(B, m, q, al) ==
  /\ B \subseteq al /\ \A p \in Ports : m[p] \in B \cup {None}
  /\ \A i \in 1..Len(q) : q[i].lag \in al
  /\ \A i \in 1..Len(q) : q[i].lag \in B \/ Has(q, Delete(q[i].lag, None))
  /\ \A i \in 1..Len(q) : q[i] = Delete(q[i].lag, None) =>
       q[i].lag \notin B /\ \A k \in (i + 1)..Len(q) : q[k].lag # q[i].lag
  /\ \A p \in Ports : Alternates(q, m[p], p)

Follow(s, B, m, q) ==
  /\ \A l \in B : l \in s.masters \/ Has(q, Create(l, None))
  /\ \A l \in s.masters : l \in B \/ Has(q, Delete(l, None))
  /\ \A p \in Ports :
       /\ About(q, p) \/ s.slave[p] = m[p]
       /\ s.slave[p] \in {None, m[p]} \/ Leaves(q, p)
       /\ \A j \in 1..Len(q) : q[j] = Delete(s.slave[p], None) =>
            \E i \in 1..(j - 1) : q[i].port = p /\ q[i].op = "delete"

Blocks(s, q, lk, lq) ==
  \A p \in Ports :
    /\ p \notin s.manual /\ s.slave[p] # None /\ s.egress[p] # ~lk[p] =>
         About(lq, p) \/ Has(q, Create(s.slave[p], p))
    /\ \A i \in 1..Len(lq) : lq[i].port = p =>
         lq[i].up = lk[p] \/ \E k \in (i + 1)..Len(lq) : lq[k].port = p

Public(s, q, c) ==
  /\ \A l \in s.masters : \A p \in s.ports[l] \ s.published[l] : Has(q, Create(l, p))
  /\ \A l \in s.masters \ s.stripped :
       s.published[l] \subseteq s.ports[l] \/ (c.pc = "ports" /\ c.lag = l /\ ~c.adding)
  /\ \A l \in Lags \ s.masters : s.published[l] = {}

Intact(s) == s.npuLags = s.masters /\ s.registered = s.masters /\ s.announced = s.masters

Mends(s, B, m, q, lk, lq, c) ==
  /\ Intact(s) /\ Follow(s, B, m, q)
  /\ Blocks(s, q, lk, lq) /\ Public(s, q, c)

FInv ==
  /\ KernelInv(bonds, kmaster, queue, allocated)
  /\ spent.faults = 0 => Mends(nas, bonds, kmaster, queue, link, linkQueue, cps)

-----------------------------------------------------------------------------
(* Sequences of events, appended and taken. *)

(* t is q with a behind it. *)
Join(t, q, a) ==
  /\ t \in Seq(Event) /\ Len(q) \in Nat /\ Len(a) \in Nat
  /\ Len(t) = Len(q) + Len(a)
  /\ \A i \in 1..Len(q) : i \in 1..Len(t) /\ t[i] = q[i]
  /\ \A i \in 1..Len(a) : Len(q) + i \in 1..Len(t) /\ t[Len(q) + i] = a[i]
  /\ \A i \in 1..Len(t) : \/ i \in 1..Len(q)
                          \/ \E j \in 1..Len(a) : i = Len(q) + j

LEMMA Joined ==
  ASSUME NEW q \in Seq(Event), NEW a \in Seq(Event), NEW t, t = q \o a
  PROVE  Join(t, q, a)
<1>1. Len(q) \in Nat /\ Len(a) \in Nat
  BY LenProperties
<1>2. /\ t \in Seq(Event) /\ Len(t) = Len(q) + Len(a)
      /\ \A i \in 1..Len(q) + Len(a) : t[i] = IF i <= Len(q) THEN q[i] ELSE a[i - Len(q)]
  BY ConcatProperties
<1>3. ASSUME NEW i \in 1..Len(a)
      PROVE  Len(q) + i \in 1..Len(t) /\ t[Len(q) + i] = a[i]
  <2>1. Len(q) + i \in 1..Len(q) + Len(a) /\ ~(Len(q) + i <= Len(q)) /\ (Len(q) + i) - Len(q) = i
    BY <1>1
  <2> QED BY <1>2, <2>1
<1>4. ASSUME NEW i \in 1..Len(t), i \notin 1..Len(q)
      PROVE  \E j \in 1..Len(a) : i = Len(q) + j
  <2>1. i - Len(q) \in 1..Len(a) /\ i = Len(q) + (i - Len(q))
    BY <1>1, <1>2, <1>4
  <2> QED BY <2>1
<1>5. \A i \in 1..Len(q) : i \in 1..Len(t) /\ t[i] = q[i]
  BY <1>1, <1>2
<1> QED BY <1>1, <1>2, <1>3, <1>4, <1>5 DEF Join

(* t is q without its first event. *)
Drop(t, q) ==
  /\ t \in Seq(Event) /\ Len(t) \in Nat /\ Len(q) = Len(t) + 1
  /\ Head(q) = q[1] /\ q[1] \in Event /\ 1 \in 1..Len(q)
  /\ \A i \in 1..Len(t) : i + 1 \in 1..Len(q) /\ t[i] = q[i + 1]
  /\ \A i \in 1..Len(q) : i = 1 \/ (i - 1 \in 1..Len(t) /\ t[i - 1] = q[i])

LEMMA Dropped ==
  ASSUME NEW q \in Seq(Event), q # <<>>, NEW t, t = Tail(q)
  PROVE  Drop(t, q)
<1>1. /\ t \in Seq(Event) /\ Len(t) = Len(q) - 1 /\ Len(q) \in Nat \ {0}
      /\ Head(q) = q[1] /\ q[1] \in Event /\ \A i \in 1..Len(t) : t[i] = q[i + 1]
  BY HeadTailProperties, LenProperties
<1>2. \A i \in 1..Len(q) : i = 1 \/ (i - 1 \in 1..Len(t) /\ t[i - 1] = q[i])
  BY <1>1
<1>3. \A i \in 1..Len(t) : i + 1 \in 1..Len(q)
  BY <1>1
<1> QED BY <1>1, <1>2, <1>3 DEF Drop

(* What is in a queue stays in it when it grows. *)
LEMMA StaysIn ==
  ASSUME NEW q \in Seq(Event), NEW a \in Seq(Event), NEW t, t = q \o a
  PROVE  /\ \A e : Has(t, e) <=> Has(q, e) \/ Has(a, e)
         /\ \A p : About(t, p) <=> About(q, p) \/ About(a, p)
         /\ \A p : Leaves(t, p) <=> Leaves(q, p) \/ Leaves(a, p)
<1>1. Join(t, q, a)
  BY Joined
<1>2. \A i \in 1..Len(t) : (\E j \in 1..Len(q) : t[i] = q[j]) \/ \E j \in 1..Len(a) : t[i] = a[j]
  BY <1>1 DEF Join
<1>3. \A j \in 1..Len(q) : \E i \in 1..Len(t) : t[i] = q[j]
  BY <1>1 DEF Join
<1>4. \A j \in 1..Len(a) : \E i \in 1..Len(t) : t[i] = a[j]
  <2> SUFFICES ASSUME NEW j \in 1..Len(a) PROVE \E i \in 1..Len(t) : t[i] = a[j]
    OBVIOUS
  <2>1. Len(q) + j \in 1..Len(t) /\ t[Len(q) + j] = a[j]
    BY <1>1 DEF Join
  <2> QED BY <2>1
<1>5. ASSUME NEW e PROVE Has(t, e) <=> Has(q, e) \/ Has(a, e)
  <2>1. ASSUME NEW i \in 1..Len(t), t[i] = e PROVE Has(q, e) \/ Has(a, e)
    BY <1>2, <2>1 DEF Has
  <2>2. ASSUME NEW i \in 1..Len(q), q[i] = e PROVE Has(t, e)
    BY <1>3, <2>2 DEF Has
  <2>3. ASSUME NEW i \in 1..Len(a), a[i] = e PROVE Has(t, e)
    BY <1>4, <2>3 DEF Has
  <2> QED BY <2>1, <2>2, <2>3 DEF Has
<1>6. ASSUME NEW p PROVE About(t, p) <=> About(q, p) \/ About(a, p)
  <2>1. ASSUME NEW i \in 1..Len(t), t[i].port = p PROVE About(q, p) \/ About(a, p)
    BY <1>2, <2>1 DEF About
  <2>2. ASSUME NEW i \in 1..Len(q), q[i].port = p PROVE About(t, p)
    BY <1>3, <2>2 DEF About
  <2>3. ASSUME NEW i \in 1..Len(a), a[i].port = p PROVE About(t, p)
    BY <1>4, <2>3 DEF About
  <2> QED BY <2>1, <2>2, <2>3 DEF About
<1>7. ASSUME NEW p PROVE Leaves(t, p) <=> Leaves(q, p) \/ Leaves(a, p)
  <2>1. ASSUME NEW i \in 1..Len(t), t[i].port = p, t[i].op = "delete" PROVE Leaves(q, p) \/ Leaves(a, p)
    BY <1>2, <2>1 DEF Leaves
  <2>2. ASSUME NEW i \in 1..Len(q), q[i].port = p, q[i].op = "delete" PROVE Leaves(t, p)
    BY <1>3, <2>2 DEF Leaves
  <2>3. ASSUME NEW i \in 1..Len(a), a[i].port = p, a[i].op = "delete" PROVE Leaves(t, p)
    BY <1>4, <2>3 DEF Leaves
  <2> QED BY <2>1, <2>2, <2>3 DEF Leaves
<1> QED BY <1>5, <1>6, <1>7

(* Only what is about the head leaves it. *)
LEMMA LeavesIt ==
  ASSUME NEW q \in Seq(Event), q # <<>>, NEW t, t = Tail(q), NEW h, h = Head(q)
  PROVE  /\ \A e : Has(q, e) <=> e = h \/ Has(t, e)
         /\ \A p : About(q, p) <=> h.port = p \/ About(t, p)
         /\ \A p : Leaves(q, p) <=> (h.port = p /\ h.op = "delete") \/ Leaves(t, p)
<1>1. Drop(t, q) /\ h = q[1]
  BY Dropped DEF Drop
<1>2. ASSUME NEW e PROVE Has(q, e) <=> e = h \/ Has(t, e)
  BY <1>1 DEF Drop, Has
<1>3. ASSUME NEW p PROVE About(q, p) <=> h.port = p \/ About(t, p)
  BY <1>1 DEF Drop, About
<1>4. ASSUME NEW p PROVE Leaves(q, p) <=> (h.port = p /\ h.op = "delete") \/ Leaves(t, p)
  BY <1>1 DEF Drop, Leaves
<1> QED BY <1>2, <1>3, <1>4

-----------------------------------------------------------------------------
(* The kernel's queue. *)

(* The events a about p take it from the bond x to y. *)
Moves(a, x, y, p) ==
  \/ y = x /\ ~About(a, p)
  \/ /\ x # None /\ y = None /\ Has(a, Delete(x, p))
     /\ \A i \in 1..Len(a) : a[i].port = p => a[i].op = "delete"
  \/ /\ x = None /\ y # None /\ Has(a, Create(y, p))
     /\ \A i \in 1..Len(a) : a[i].port = p => a[i] = Create(y, p)
  \/ x # None /\ y # None /\ a = <<Delete(x, p), Create(y, p)>>

(* What an operation of the kernel does, with the events a it reports. *)
Grows(a) ==
  /\ a \in Seq(Event) /\ queue' = queue \o a
  /\ bonds' \subseteq Lags /\ allocated' = allocated \cup bonds'
  /\ \A l \in bonds' \ bonds : l \notin allocated /\ Has(a, Create(l, None))
  /\ \A l \in bonds \ bonds' : Has(a, Delete(l, None))
  /\ \A i \in 1..Len(a) : a[i].lag \in bonds \cup bonds'
  /\ \A i \in 1..Len(a) : a[i] = Delete(a[i].lag, None) =>
       /\ a[i].lag \in bonds \ bonds' /\ i = Len(a)
       /\ \A p \in Ports : kmaster[p] = a[i].lag =>
            \E j \in 1..(i - 1) : a[j].port = p /\ a[j].op = "delete"
  /\ \A p \in Ports : kmaster'[p] \in bonds' \cup {None} /\ Moves(a, kmaster[p], kmaster'[p], p)

(* The events of a port go on alternating. *)
LEMMA AlternatesOn ==
  ASSUME NEW q \in Seq(Event), NEW a \in Seq(Event), NEW t, t = q \o a,
         NEW x \in MaybeLag, NEW y \in MaybeLag, NEW p \in Ports,
         Alternates(q, x, p), Moves(a, x, y, p)
  PROVE  Alternates(t, y, p)
<1> USE NasLagAssumption DEF MaybeLag
<1>0. Join(t, q, a)
  BY Joined
<1>1. /\ Len(q) \in Nat /\ Len(a) \in Nat /\ Len(t) = Len(q) + Len(a)
      /\ \A i \in 1..Len(q) : i \in 1..Len(t) /\ t[i] = q[i]
      /\ \A i \in 1..Len(a) : Len(q) + i \in 1..Len(t) /\ t[Len(q) + i] = a[i]
      /\ \A i \in 1..Len(t) : \/ i \in 1..Len(q)
                              \/ \E j \in 1..Len(a) : i = Len(q) + j
  BY <1>0 DEF Join
<1>2. ASSUME NEW i \in 1..Len(q), NEW e, Has(a, e)
      PROVE  \E j \in (i + 1)..Len(t) : t[j] = e
  <2>1. PICK k \in 1..Len(a) : a[k] = e
    BY <1>2 DEF Has
  <2>2. Len(q) + k \in (i + 1)..Len(t)
    BY <1>1
  <2> QED BY <1>1, <2>1, <2>2
<1>3. ASSUME NEW i \in 1..Len(q), NEW e, \E j \in (i + 1)..Len(q) : q[j] = e
      PROVE  \E j \in (i + 1)..Len(t) : t[j] = e
  <2>1. PICK j \in (i + 1)..Len(q) : q[j] = e
    BY <1>3
  <2>2. j \in (i + 1)..Len(t) /\ j \in 1..Len(q)
    BY <1>1
  <2> QED BY <1>1, <2>1, <2>2
<1>4. ASSUME NEW i \in 1..Len(q), t[i].port = p
      PROVE  IF t[i].op = "create"
             THEN t[i].lag = y \/ \E j \in (i + 1)..Len(t) : t[j] = Delete(t[i].lag, p)
             ELSE y = None \/ \E j \in (i + 1)..Len(t) : t[j] = Create(y, p)
  <2>0. t[i] = q[i] /\ q[i] \in Event
    BY <1>1, ElementOfSeq
  <2>1. t[i] = q[i] /\ q[i].lag \in Lags
    BY <2>0 DEF Event
  <2>2. CASE q[i].op = "create"
    <3>1. CASE \E j \in (i + 1)..Len(q) : q[j] = Delete(q[i].lag, p)
      BY <1>3, <2>1, <2>2, <3>1
    <3>2. CASE q[i].lag = x
      <4>1. y = x \/ Has(a, Delete(x, p))
        <5>1. CASE a = <<Delete(x, p), Create(y, p)>>
          BY <5>1 DEF Has
        <5> QED BY <2>1, <3>2, <5>1 DEF Moves
      <4> QED BY <1>2, <2>1, <2>2, <3>2, <4>1
    <3> QED BY <1>4, <2>1, <2>2, <3>1, <3>2 DEF Alternates
  <2>3. CASE q[i].op # "create"
    <3>1. y = None \/ y = x \/ Has(a, Create(y, p))
      <4>1. CASE a = <<Delete(x, p), Create(y, p)>>
        BY <4>1 DEF Has
      <4> QED BY <4>1 DEF Moves
    <3>2. CASE Has(a, Create(y, p))
      BY <1>2, <2>1, <2>3, <3>2
    <3>3. CASE y = x
      BY <1>3, <1>4, <2>1, <2>3, <3>3 DEF Alternates
    <3> QED BY <2>1, <2>3, <3>1, <3>2, <3>3
  <2> QED BY <2>2, <2>3
<1>5. ASSUME NEW k \in 1..Len(a), a[k].port = p
      PROVE  IF a[k].op = "create"
             THEN a[k].lag = y
             ELSE y = None \/ \E j \in (Len(q) + k + 1)..Len(t) : t[j] = Create(y, p)
  <2>1. About(a, p)
    BY <1>5 DEF About
  <2>2. CASE a = <<Delete(x, p), Create(y, p)>>
    <3>1. Len(a) = 2 /\ a[1] = Delete(x, p) /\ a[2] = Create(y, p)
      BY <2>2
    <3>2. CASE k = 1
      <4>1. Len(q) + 2 \in (Len(q) + k + 1)..Len(t) /\ t[Len(q) + 2] = Create(y, p)
        BY <1>1, <3>1, <3>2
      <4>2. a[k].op # "create"
        BY <3>1, <3>2 DEF Delete
      <4> QED BY <4>1, <4>2
    <3>3. CASE k = 2
      BY <3>1, <3>3 DEF Create
    <3> QED BY <3>1, <3>2, <3>3
  <2>3. CASE y = None /\ \A i \in 1..Len(a) : a[i].port = p => a[i].op = "delete"
    BY <1>5, <2>3
  <2>4. CASE \A i \in 1..Len(a) : a[i].port = p => a[i] = Create(y, p)
    BY <1>5, <2>4 DEF Create
  <2> QED BY <2>1, <2>2, <2>3, <2>4 DEF Moves
<1>6. ASSUME NEW i \in 1..Len(t), t[i].port = p
      PROVE  IF t[i].op = "create"
             THEN t[i].lag = y \/ \E j \in (i + 1)..Len(t) : t[j] = Delete(t[i].lag, p)
             ELSE y = None \/ \E j \in (i + 1)..Len(t) : t[j] = Create(y, p)
  <2>1. CASE i \in 1..Len(q)
    BY <1>4, <1>6, <2>1
  <2>2. CASE i \notin 1..Len(q)
    <3>1. PICK k \in 1..Len(a) : i = Len(q) + k
      BY <1>1, <2>2
    <3>2. t[i] = a[k]
      BY <1>1, <3>1
    <3> QED BY <1>5, <1>6, <3>1, <3>2
  <2> QED BY <2>1, <2>2
<1> QED BY <1>6 DEF Alternates

(* What an operation reports keeps the queue as KernelInv says. *)
LEMMA GrowsKernel ==
  ASSUME KernelType, KernelInv(bonds, kmaster, queue, allocated),
         kmaster' \in [Ports -> MaybeLag], NEW a, Grows(a)
  PROVE  KernelInv(bonds', kmaster', queue', allocated')
<1> USE NasLagAssumption
<1>0. /\ a \in Seq(Event) /\ queue \in Seq(Event) /\ queue' = queue \o a
      /\ allocated' = allocated \cup bonds' /\ bonds \subseteq allocated
  BY DEF Grows, KernelType, KernelInv
<1>1. PICK q : q = queue
  OBVIOUS
<1>2. PICK t : t = queue'
  OBVIOUS
<1>3. Join(t, q, a)
  BY <1>0, <1>1, <1>2, Joined
<1>4. \A e : Has(t, e) <=> Has(q, e) \/ Has(a, e)
  BY <1>0, <1>1, <1>2, StaysIn
<1>5. \A i \in 1..Len(t) : t[i].lag \in allocated'
  <2>1. \A i \in 1..Len(q) : q[i].lag \in allocated
    BY <1>1 DEF KernelInv
  <2>2. \A i \in 1..Len(a) : a[i].lag \in allocated'
    BY <1>0 DEF Grows
  <2> QED BY <1>0, <1>3, <2>1, <2>2 DEF Join
<1>6. ASSUME NEW i \in 1..Len(t) PROVE t[i].lag \in bonds' \/ Has(t, Delete(t[i].lag, None))
  <2>1. t[i].lag \in bonds \cup bonds' \/ Has(q, Delete(t[i].lag, None))
    <3>1. \A j \in 1..Len(q) : q[j].lag \in bonds \/ Has(q, Delete(q[j].lag, None))
      BY <1>1 DEF KernelInv
    <3>2. \A j \in 1..Len(a) : a[j].lag \in bonds \cup bonds'
      BY DEF Grows
    <3> QED BY <1>3, <3>1, <3>2 DEF Join
  <2>2. t[i].lag \in bonds \ bonds' => Has(a, Delete(t[i].lag, None))
    BY DEF Grows
  <2> QED BY <1>4, <2>1, <2>2
<1>7. ASSUME NEW i \in 1..Len(t), t[i] = Delete(t[i].lag, None)
      PROVE  t[i].lag \notin bonds' /\ \A k \in (i + 1)..Len(t) : t[k].lag # t[i].lag
  <2>1. CASE i \in 1..Len(q)
    <3>1. t[i] = q[i]
      BY <1>3, <2>1 DEF Join
    <3>2. /\ q[i].lag \notin bonds /\ q[i].lag \in allocated
          /\ \A k \in (i + 1)..Len(q) : q[k].lag # q[i].lag
      BY <1>1, <1>7, <2>1, <3>1 DEF KernelInv
    <3>3. q[i].lag \notin bonds'
      BY <3>2 DEF Grows
    <3>4. ASSUME NEW k \in (i + 1)..Len(t) PROVE t[k].lag # t[i].lag
      <4>1. CASE k \in 1..Len(q)
        <5>1. k \in (i + 1)..Len(q) /\ t[k] = q[k]
          BY <1>3, <4>1 DEF Join
        <5> QED BY <3>1, <3>2, <5>1
      <4>2. CASE k \notin 1..Len(q)
        <5>1. k \in 1..Len(t)
          BY <1>3 DEF Join
        <5>2. PICK j \in 1..Len(a) : t[k] = a[j]
          BY <1>3, <4>2, <5>1 DEF Join
        <5>3. a[j].lag \in bonds \cup bonds'
          BY DEF Grows
        <5> QED BY <3>1, <3>2, <3>3, <5>2, <5>3
      <4> QED BY <4>1, <4>2
    <3> QED BY <3>1, <3>3, <3>4
  <2>2. CASE i \notin 1..Len(q)
    <3>1. PICK j \in 1..Len(a) : i = Len(q) + j /\ t[i] = a[j]
      BY <1>3, <2>2 DEF Join
    <3>2. a[j].lag \notin bonds' /\ j = Len(a)
      BY <1>7, <3>1 DEF Grows
    <3>3. ~ \E k \in (i + 1)..Len(t) : TRUE
      BY <1>3, <3>1, <3>2 DEF Join
    <3> QED BY <3>1, <3>2, <3>3
  <2> QED BY <2>1, <2>2
<1>8. ASSUME NEW p \in Ports PROVE kmaster'[p] \in bonds' \cup {None} /\ Alternates(t, kmaster'[p], p)
  <2>1. kmaster[p] \in MaybeLag /\ kmaster'[p] \in MaybeLag
    BY DEF KernelType
  <2>2. Alternates(q, kmaster[p], p) /\ Moves(a, kmaster[p], kmaster'[p], p)
    BY <1>1 DEF KernelInv, Grows
  <2>3. kmaster'[p] \in bonds' \cup {None}
    BY DEF Grows
  <2> QED BY <1>0, <1>1, <1>2, <2>1, <2>2, <2>3, AlternatesOn
<1> QED BY <1>0, <1>2, <1>5, <1>6, <1>7, <1>8 DEF KernelInv

(* Taking the first event keeps it. *)
LEMMA TakesKernel ==
  ASSUME NEW B, NEW m, NEW q \in Seq(Event), q # <<>>, NEW al, KernelInv(B, m, q, al)
  PROVE  KernelInv(B, m, Tail(q), al)
<1>0. PICK t : t = Tail(q)
  OBVIOUS
<1>1. Drop(t, q)
  BY <1>0, Dropped
<1>2. \A e : Has(q, e) <=> e = Head(q) \/ Has(t, e)
  BY <1>0, LeavesIt
<1>3. \A i \in 1..Len(t) : i + 1 \in 1..Len(q) /\ t[i] = q[i + 1]
  BY <1>1 DEF Drop
<1>4. \A i \in 1..Len(t) : t[i].lag \in al
  BY <1>3 DEF KernelInv
<1>5. ASSUME NEW i \in 1..Len(t), \E k \in ((i + 1) + 1)..Len(q) : TRUE, NEW e,
             \E k \in ((i + 1) + 1)..Len(q) : q[k] = e
      PROVE  \E k \in (i + 1)..Len(t) : t[k] = e
  <2>1. PICK k \in ((i + 1) + 1)..Len(q) : q[k] = e
    BY <1>5
  <2>2. k - 1 \in (i + 1)..Len(t) /\ t[k - 1] = q[k]
    BY <1>1, <2>1 DEF Drop
  <2> QED BY <2>1, <2>2
<1>6. ASSUME NEW i \in 1..Len(t) PROVE t[i].lag \in B \/ Has(t, Delete(t[i].lag, None))
  <2>1. t[i] = q[i + 1] /\ i + 1 \in 1..Len(q)
    BY <1>3
  <2>2. CASE Head(q) = Delete(t[i].lag, None)
    <3>0. q[1] = Delete(t[i].lag, None)
      BY <1>1, <2>2 DEF Drop
    <3>1. q[1] = Delete(q[1].lag, None) /\ q[1].lag = t[i].lag
      BY <3>0 DEF Delete
    <3>2. i + 1 \in (1 + 1)..Len(q) /\ 1 \in 1..Len(q)
      BY <1>1 DEF Drop
    <3>3. q[i + 1].lag # q[1].lag
      BY <3>1, <3>2 DEF KernelInv
    <3> QED BY <2>1, <3>1, <3>3
  <2> QED BY <1>2, <2>1, <2>2 DEF KernelInv
<1>7. ASSUME NEW i \in 1..Len(t), t[i] = Delete(t[i].lag, None)
      PROVE  t[i].lag \notin B /\ \A k \in (i + 1)..Len(t) : t[k].lag # t[i].lag
  <2>1. t[i] = q[i + 1] /\ i + 1 \in 1..Len(q)
    BY <1>3
  <2>2. /\ q[i + 1].lag \notin B
        /\ \A k \in ((i + 1) + 1)..Len(q) : q[k].lag # q[i + 1].lag
    BY <1>7, <2>1 DEF KernelInv
  <2>3. ASSUME NEW k \in (i + 1)..Len(t) PROVE t[k].lag # t[i].lag
    <3>1. k + 1 \in ((i + 1) + 1)..Len(q) /\ t[k] = q[k + 1]
      BY <1>1 DEF Drop
    <3> QED BY <2>1, <2>2, <3>1
  <2> QED BY <2>1, <2>2, <2>3
<1>8. ASSUME NEW p \in Ports PROVE Alternates(t, m[p], p)
  <2> SUFFICES ASSUME NEW i \in 1..Len(t), t[i].port = p
               PROVE  IF t[i].op = "create"
                      THEN t[i].lag = m[p] \/ \E j \in (i + 1)..Len(t) : t[j] = Delete(t[i].lag, p)
                      ELSE m[p] = None \/ \E j \in (i + 1)..Len(t) : t[j] = Create(m[p], p)
    BY DEF Alternates
  <2>1. t[i] = q[i + 1] /\ i + 1 \in 1..Len(q)
    BY <1>3
  <2>2. IF t[i].op = "create"
        THEN t[i].lag = m[p] \/ \E j \in ((i + 1) + 1)..Len(q) : q[j] = Delete(t[i].lag, p)
        ELSE m[p] = None \/ \E j \in ((i + 1) + 1)..Len(q) : q[j] = Create(m[p], p)
    BY <2>1 DEF KernelInv, Alternates
  <2> QED BY <1>5, <2>2
<1> QED BY <1>0, <1>4, <1>6, <1>7, <1>8 DEF KernelInv

-----------------------------------------------------------------------------
(* The operations of the kernel grow the queue in that way. *)

LEMMA Single ==
  ASSUME NEW e \in Event
  PROVE  /\ <<e>> \in Seq(Event) /\ Len(<<e>>) = 1
         /\ \A i \in 1..Len(<<e>>) : i = 1 /\ <<e>>[i] = e
         /\ \A f : Has(<<e>>, f) <=> f = e
         /\ \A p : About(<<e>>, p) <=> e.port = p
<1>1. <<e>> \in Seq(Event) /\ Len(<<e>>) = 1 /\ <<e>>[1] = e
  OBVIOUS
<1> QED BY <1>1 DEF Has, About

LEMMA EventFields ==
  ASSUME NEW l \in Lags, NEW p
  PROVE  /\ Create(l, p).op = "create" /\ Create(l, p).lag = l /\ Create(l, p).port = p
         /\ Delete(l, p).op = "delete" /\ Delete(l, p).lag = l /\ Delete(l, p).port = p
         /\ Create(l, p) # Delete(l, None) /\ (p # None => Delete(l, p) # Delete(l, None))
BY DEF Create, Delete

LEMMA CreateGrows ==
  ASSUME KernelType, KernelInv(bonds, kmaster, queue, allocated), NEW l \in Lags, KernelCreate(l)
  PROVE  Grows(<<Create(l, None)>>)
<1> DEFINE e == Create(l, None)
<1>1. e \in Event /\ e.op = "create" /\ e.lag = l /\ e.port = None
  BY EventTypes, EventFields
<1>2. /\ l \notin allocated /\ bonds' = bonds \cup {l} /\ allocated' = allocated \cup {l}
      /\ queue' = Append(queue, e) /\ kmaster' = kmaster
  BY DEF KernelCreate
<1>3. e # Delete(e.lag, None)
  BY <1>1, EventFields
<1>4. bonds \subseteq allocated /\ bonds \subseteq Lags /\ queue \in Seq(Event)
      /\ \A p \in Ports : kmaster[p] \in bonds \cup {None}
  BY DEF KernelInv, KernelType
<1> HIDE DEF e
<1>5. queue' = queue \o <<e>>
  BY <1>1, <1>2, <1>4, AppendIsConcat
<1>6. ASSUME NEW p \in Ports PROVE kmaster'[p] \in bonds' \cup {None} /\ Moves(<<e>>, kmaster[p], kmaster'[p], p)
  BY <1>1, <1>2, <1>4, Single, NasLagAssumption DEF Moves
<1>7. Grows(<<e>>)
  BY <1>1, <1>2, <1>3, <1>4, <1>5, <1>6, Single DEF Grows, e
<1> QED BY <1>7 DEF e

LEMMA ReleaseGrows ==
  ASSUME KernelType, KernelInv(bonds, kmaster, queue, allocated), NEW p \in Ports, KernelRelease(p)
  PROVE  \E a : Grows(a)
<1> USE NasLagAssumption
<1>1. /\ kmaster' = [kmaster EXCEPT ![p] = None] /\ bonds' = bonds /\ allocated' = allocated
      /\ queue' = IF kmaster[p] = None THEN queue ELSE Append(queue, Delete(kmaster[p], p))
  BY DEF KernelRelease
<1>2. /\ bonds \subseteq allocated /\ bonds \subseteq Lags /\ queue \in Seq(Event)
      /\ kmaster \in [Ports -> MaybeLag]
      /\ \A r \in Ports : kmaster[r] \in bonds \cup {None}
  BY DEF KernelInv, KernelType
<1>3. \A r \in Ports : kmaster'[r] = IF r = p THEN None ELSE kmaster[r]
  BY <1>1, <1>2
<1>4. CASE kmaster[p] = None
  <2>1. queue' = queue \o <<>> /\ <<>> \in Seq(Event) /\ \A r : ~About(<<>>, r)
    BY <1>1, <1>2, <1>4, ConcatEmptySeq DEF About
  <2>2. \A r \in Ports : kmaster'[r] = kmaster[r]
    BY <1>3, <1>4
  <2>3. Grows(<<>>)
    BY <1>1, <1>2, <2>1, <2>2 DEF Grows, Moves
  <2> QED BY <2>3
<1>5. CASE kmaster[p] # None
  <2>1. PICK x \in bonds : x = kmaster[p]
    BY <1>2, <1>5
  <2> DEFINE e == Delete(x, p)
  <2>2. e \in Event /\ e.op = "delete" /\ e.lag = x /\ e.port = p /\ e # Delete(e.lag, None)
    BY <1>2, <2>1, EventTypes, EventFields
  <2>3. queue' = Append(queue, e)
    BY <1>1, <1>5, <2>1
  <2>4. e = Delete(kmaster[p], p)
    BY <2>1
  <2> HIDE DEF e
  <2>5. queue' = queue \o <<e>>
    BY <1>2, <2>2, <2>3, AppendIsConcat
  <2>6. ASSUME NEW r \in Ports PROVE kmaster'[r] \in bonds' \cup {None} /\ Moves(<<e>>, kmaster[r], kmaster'[r], r)
    BY <1>1, <1>2, <1>3, <1>5, <2>2, <2>4, Single DEF Moves
  <2>7. Grows(<<e>>)
    BY <1>1, <1>2, <2>1, <2>2, <2>5, <2>6, Single DEF Grows
  <2> QED BY <2>7
<1> QED BY <1>4, <1>5

LEMMA EnslaveGrows ==
  ASSUME KernelType, KernelInv(bonds, kmaster, queue, allocated),
         NEW l \in Lags, NEW p \in Ports, KernelEnslave(l, p)
  PROVE  /\ \E a : Grows(a)
         /\ l \in bonds /\ bonds' = bonds /\ kmaster' = [kmaster EXCEPT ![p] = l]
<1> USE NasLagAssumption
<1>1. /\ l \in bonds /\ kmaster' = [kmaster EXCEPT ![p] = l] /\ bonds' = bonds
      /\ allocated' = allocated
      /\ queue' = CASE kmaster[p] = l    -> queue
                    [] kmaster[p] = None -> Append(queue, Create(l, p))
                    [] OTHER -> queue \o <<Delete(kmaster[p], p), Create(l, p)>>
  BY DEF KernelEnslave
<1>2. /\ bonds \subseteq allocated /\ bonds \subseteq Lags /\ queue \in Seq(Event)
      /\ kmaster \in [Ports -> MaybeLag]
      /\ \A r \in Ports : kmaster[r] \in bonds \cup {None}
  BY DEF KernelInv, KernelType
<1>3. \A r \in Ports : kmaster'[r] = IF r = p THEN l ELSE kmaster[r]
  BY <1>1, <1>2
<1>4. CASE kmaster[p] = l
  <2>1. queue' = queue \o <<>> /\ <<>> \in Seq(Event) /\ \A r : ~About(<<>>, r)
    <3>1. queue' = queue
      BY <1>1, <1>4
    <3> QED BY <1>2, <3>1, ConcatEmptySeq DEF About
  <2>2. \A r \in Ports : kmaster'[r] = kmaster[r]
    BY <1>3, <1>4
  <2>3. Grows(<<>>)
    BY <1>1, <1>2, <2>1, <2>2 DEF Grows, Moves
  <2> QED BY <1>1, <2>3
<1>5. CASE kmaster[p] = None
  <2> DEFINE e == Create(l, p)
  <2>2. e \in Event /\ e.op = "create" /\ e.lag = l /\ e.port = p /\ e # Delete(e.lag, None)
    BY <1>2, EventTypes, EventFields
  <2>3. queue' = Append(queue, e)
    BY <1>1, <1>5
  <2>4. e = Create(l, p)
    OBVIOUS
  <2> HIDE DEF e
  <2>5. queue' = queue \o <<e>>
    BY <1>2, <2>2, <2>3, AppendIsConcat
  <2>6. ASSUME NEW r \in Ports PROVE kmaster'[r] \in bonds' \cup {None} /\ Moves(<<e>>, kmaster[r], kmaster'[r], r)
    BY <1>1, <1>2, <1>3, <1>5, <2>2, <2>4, Single DEF Moves
  <2>7. Grows(<<e>>)
    BY <1>1, <1>2, <2>2, <2>5, <2>6, Single DEF Grows
  <2> QED BY <1>1, <2>7
<1>6. CASE kmaster[p] \notin {l, None}
  <2>1. PICK x \in bonds : x = kmaster[p]
    BY <1>2, <1>6
  <2>2. PICK d : d = Delete(x, p)
    OBVIOUS
  <2>3. PICK c : c = Create(l, p)
    OBVIOUS
  <2>4. /\ d \in Event /\ d.op = "delete" /\ d.lag = x /\ d.port = p /\ d # Delete(d.lag, None)
        /\ c \in Event /\ c.op = "create" /\ c.lag = l /\ c.port = p /\ c # Delete(c.lag, None)
    BY <1>2, <2>1, <2>2, <2>3, EventTypes, EventFields
  <2>5. queue' = queue \o <<d, c>>
    BY <1>1, <1>6, <2>1, <2>2, <2>3
  <2>6. PICK a : a = <<d, c>>
    OBVIOUS
  <2>7. /\ a \in Seq(Event) /\ Len(a) = 2 /\ a[1] = d /\ a[2] = c
        /\ \A i \in 1..Len(a) : a[i] = d \/ a[i] = c
    BY <2>4, <2>6
  <2>8. ASSUME NEW r \in Ports PROVE kmaster'[r] \in bonds' \cup {None} /\ Moves(a, kmaster[r], kmaster'[r], r)
    <3>1. CASE r = p
      BY <1>1, <1>2, <1>3, <1>6, <2>1, <2>2, <2>3, <2>6, <3>1 DEF Moves
    <3>2. CASE r # p
      <4>1. ~About(a, r)
        BY <2>4, <2>7, <3>2 DEF About
      <4> QED BY <1>1, <1>2, <1>3, <3>2, <4>1 DEF Moves
    <3> QED BY <3>1, <3>2
  <2>9. Grows(a)
    BY <1>1, <1>2, <2>1, <2>4, <2>5, <2>6, <2>7, <2>8 DEF Grows
  <2> QED BY <1>1, <2>9
<1> QED BY <1>4, <1>5, <1>6

LEMMA DeleteGrows ==
  ASSUME KernelType, KernelInv(bonds, kmaster, queue, allocated), NEW l \in Lags, KernelDelete(l)
  PROVE  /\ \E a : Grows(a)
         /\ bonds' = bonds \ {l} /\ kmaster' \in [Ports -> MaybeLag]
<1> USE NasLagAssumption
<1> DEFINE slaves == {p \in Ports : kmaster[p] = l}
           n == Cardinality(slaves)
           gone(order) == [i \in DOMAIN order |-> Delete(l, order[i])]
<1>1. /\ l \in bonds /\ bonds' = bonds \ {l} /\ allocated' = allocated
      /\ kmaster' = [p \in Ports |-> IF kmaster[p] = l THEN None ELSE kmaster[p]]
  BY DEF KernelDelete
<1>2. /\ bonds \subseteq allocated /\ bonds \subseteq Lags /\ queue \in Seq(Event)
      /\ kmaster \in [Ports -> MaybeLag]
      /\ \A r \in Ports : kmaster[r] \in bonds \cup {None}
  BY DEF KernelInv, KernelType
<1>3. PICK order \in SetToSeqs(slaves) :
        queue' = queue \o gone(order) \o <<Delete(l, None)>>
  BY DEF KernelDelete
<1>4. IsFiniteSet(slaves) /\ n \in Nat
  <2>1. IsFiniteSet(slaves)
    BY FS_Subset
  <2> QED BY <2>1, FS_CardinalityType
<1>5. order \in [1..n -> slaves] /\ \A i, j \in 1..n : i # j => order[i] # order[j]
  BY <1>3 DEF SetToSeqs
<1>6. \A p \in slaves : \E i \in 1..n : order[i] = p
  <2>1. order \in Injection(1..n, slaves)
    BY <1>5 DEF Injection, IsInjective
  <2>2. Cardinality(1..n) = n
    BY <1>4, FS_Interval
  <2>3. order \in Surjection(1..n, slaves)
    BY <1>4, <2>1, <2>2, FS_Injection
  <2> QED BY <2>3 DEF Surjection
<1>7. PICK g : g = gone(order)
  OBVIOUS
<1>8. PICK d : d = Delete(l, None)
  OBVIOUS
<1>9. d \in Event /\ d.op = "delete" /\ d.lag = l /\ d.port = None
  BY <1>8, EventTypes, EventFields
<1>10. /\ g \in Seq(Event) /\ Len(g) = n /\ \A i \in 1..n : g[i] = Delete(l, order[i])
  <2>1. DOMAIN order = 1..n /\ \A i \in 1..n : order[i] \in Ports
    BY <1>5
  <2>2. \A i \in 1..n : Delete(l, order[i]) \in Event
    BY <2>1, EventTypes
  <2>3. g \in [1..n -> Event] /\ \A i \in 1..n : g[i] = Delete(l, order[i])
    BY <1>7, <2>1, <2>2
  <2> HIDE DEF n
  <2>4. g \in Seq(Event)
    BY <1>4, <2>3, SeqDef
  <2>5. Len(g) = n
    BY <1>4, <2>3, <2>4, LenProperties
  <2> QED BY <2>3, <2>4, <2>5
<1> HIDE DEF gone, n
<1>11. PICK a : a = g \o <<d>>
  OBVIOUS
<1>12. a \in Seq(Event) /\ queue' = queue \o a
  <2>1. <<d>> \in Seq(Event)
    BY <1>9
  <2>2. queue' = (queue \o g) \o <<d>>
    BY <1>3, <1>7, <1>8
  <2> QED BY <1>2, <1>10, <1>11, <2>1, <2>2, ConcatAssociative, ConcatProperties
<1>13. /\ Len(a) = n + 1 /\ a[n + 1] = d /\ \A i \in 1..n : a[i] = Delete(l, order[i])
  <2>1. <<d>> \in Seq(Event) /\ Len(<<d>>) = 1 /\ <<d>>[1] = d
    BY <1>9
  <2>2. Join(a, g, <<d>>)
    BY <1>10, <1>11, <2>1, Joined
  <2>3. 1 \in 1..Len(<<d>>)
    BY <2>1
  <2> QED BY <1>10, <2>1, <2>2, <2>3 DEF Join
<1>14. \A i \in 1..Len(a) : i = n + 1 \/ i \in 1..n
  BY <1>4, <1>13
<1>15. \A i \in 1..n : /\ a[i].op = "delete" /\ a[i].lag = l /\ a[i].port = order[i]
                       /\ order[i] \in slaves /\ i \in 1..Len(a)
  BY <1>4, <1>5, <1>13, EventFields
<1>16. ASSUME NEW p \in Ports PROVE kmaster'[p] \in bonds' \cup {None} /\ Moves(a, kmaster[p], kmaster'[p], p)
  <2>1. CASE p \in slaves
    <3>1. PICK i \in 1..n : order[i] = p
      BY <1>6, <2>1
    <3>2. a[i] = Delete(l, p) /\ i \in 1..Len(a)
      BY <1>13, <1>15, <3>1
    <3>3. Has(a, Delete(l, p))
      BY <3>2 DEF Has
    <3>4. \A j \in 1..Len(a) : a[j].op = "delete"
      BY <1>9, <1>13, <1>14, <1>15
    <3> QED BY <1>1, <1>2, <2>1, <3>3, <3>4 DEF Moves
  <2>2. CASE p \notin slaves
    <3>1. ~About(a, p)
      BY <1>9, <1>13, <1>14, <1>15, <2>2 DEF About
    <3> QED BY <1>1, <1>2, <2>2, <3>1 DEF Moves
  <2> QED BY <2>1, <2>2
<1>17. ASSUME NEW i \in 1..Len(a), a[i] = Delete(a[i].lag, None)
       PROVE  /\ i = Len(a) /\ a[i].lag = l
              /\ \A p \in Ports : kmaster[p] = l =>
                   \E j \in 1..(i - 1) : a[j].port = p /\ a[j].op = "delete"
  <2>1. i = n + 1
    <3>1. CASE i \in 1..n
      <4>1. a[i].port = None
        BY <1>17 DEF Delete
      <4> QED BY <1>15, <3>1, <4>1
    <3> QED BY <1>14, <3>1
  <2>2. (n + 1) - 1 = n
    BY <1>4
  <2>3. ASSUME NEW p \in Ports, kmaster[p] = l
        PROVE  \E j \in 1..n : a[j].port = p /\ a[j].op = "delete"
    BY <1>6, <1>15, <2>3
  <2> QED BY <1>9, <1>13, <2>1, <2>2, <2>3
<1>18. Has(a, d) /\ \A i \in 1..Len(a) : a[i].lag = l
  BY <1>4, <1>9, <1>13, <1>14, <1>15 DEF Has
<1>19. Grows(a)
  BY <1>1, <1>2, <1>8, <1>12, <1>16, <1>17, <1>18 DEF Grows
<1>20. kmaster' \in [Ports -> MaybeLag]
  BY <1>1, <1>2 DEF MaybeLag
<1> QED BY <1>1, <1>19, <1>20

-----------------------------------------------------------------------------
(* While the queue grows the tables stay as far from the kernel as the      *)
(* events that are pending.                                                 *)

LEMMA MovesSay ==
  ASSUME NEW a, NEW x, NEW y, NEW p, Moves(a, x, y, p)
  PROVE  /\ y = x \/ About(a, p)
         /\ y = x \/ x = None \/ Leaves(a, p)
<1>1. ASSUME NEW l, Has(a, Delete(l, p)) PROVE About(a, p) /\ Leaves(a, p)
  BY <1>1 DEF Has, About, Leaves, Delete
<1>2. ASSUME NEW l, Has(a, Create(l, p)) PROVE About(a, p)
  BY <1>2 DEF Has, About, Create
<1>3. CASE a = <<Delete(x, p), Create(y, p)>>
  <2>1. Has(a, Delete(x, p))
    BY <1>3 DEF Has
  <2> QED BY <1>1, <2>1
<1> QED BY <1>1, <1>2, <1>3 DEF Moves

(* An event about the end of a bond names a bond. *)
LEMMA EndNames ==
  ASSUME NEW q \in Seq(Event), NEW j \in 1..Len(q), NEW x, q[j] = Delete(x, None)
  PROVE  x \in Lags /\ q[j].lag = x /\ q[j] = Delete(q[j].lag, None)
<1>1. q[j] \in Event
  BY ElementOfSeq
<1>2. q[j].lag = x
  BY DEF Delete
<1> QED BY <1>1, <1>2 DEF Event

LEMMA GrowsFollow ==
  ASSUME KernelType, KernelInv(bonds, kmaster, queue, allocated), NEW a, Grows(a),
         NEW s, Follow(s, bonds, kmaster, queue)
  PROVE  Follow(s, bonds', kmaster', queue')
<1> USE NasLagAssumption
<1>0. a \in Seq(Event) /\ queue \in Seq(Event) /\ queue' = queue \o a
  BY DEF Grows, KernelType
<1>1. PICK q : q = queue
  OBVIOUS
<1>2. PICK t : t = queue'
  OBVIOUS
<1>3. Join(t, q, a) /\ t \in Seq(Event)
  <2>1. Join(t, q, a)
    BY <1>0, <1>1, <1>2, Joined
  <2> QED BY <2>1 DEF Join
<1>4. /\ \A e : Has(t, e) <=> Has(q, e) \/ Has(a, e)
      /\ \A p : About(t, p) <=> About(q, p) \/ About(a, p)
      /\ \A p : Leaves(t, p) <=> Leaves(q, p) \/ Leaves(a, p)
  BY <1>0, <1>1, <1>2, StaysIn
<1>5. ASSUME NEW l \in bonds' PROVE l \in s.masters \/ Has(t, Create(l, None))
  BY <1>1, <1>4 DEF Follow, Grows
<1>6. ASSUME NEW l \in s.masters PROVE l \in bonds' \/ Has(t, Delete(l, None))
  BY <1>1, <1>4 DEF Follow, Grows
<1>7. ASSUME NEW p \in Ports
      PROVE  /\ About(t, p) \/ s.slave[p] = kmaster'[p]
             /\ s.slave[p] \in {None, kmaster'[p]} \/ Leaves(t, p)
  <2>1. Moves(a, kmaster[p], kmaster'[p], p)
    BY DEF Grows
  <2>2. /\ kmaster'[p] = kmaster[p] \/ About(a, p)
        /\ kmaster'[p] = kmaster[p] \/ kmaster[p] = None \/ Leaves(a, p)
    BY <2>1, MovesSay
  <2> QED BY <1>1, <1>4, <2>2 DEF Follow
<1>8. ASSUME NEW p \in Ports, NEW j \in 1..Len(t), t[j] = Delete(s.slave[p], None)
      PROVE  \E i \in 1..(j - 1) : t[i].port = p /\ t[i].op = "delete"
  <2>1. CASE j \in 1..Len(q)
    <3>1. q[j] = Delete(s.slave[p], None)
      BY <1>3, <1>8, <2>1 DEF Join
    <3>2. PICK i \in 1..(j - 1) : q[i].port = p /\ q[i].op = "delete"
      BY <1>1, <2>1, <3>1 DEF Follow
    <3>3. i \in 1..Len(q)
      BY <1>3, <2>1 DEF Join
    <3> QED BY <1>3, <3>2, <3>3 DEF Join
  <2>2. CASE j \notin 1..Len(q)
    <3>1. PICK k \in 1..Len(a) : j = Len(q) + k /\ t[j] = a[k]
      BY <1>3, <2>2 DEF Join
    <3>2. s.slave[p] \in Lags /\ a[k].lag = s.slave[p] /\ a[k] = Delete(a[k].lag, None)
      BY <1>0, <1>8, <3>1, EndNames
    <3>3. CASE kmaster[p] = s.slave[p]
      <4>1. PICK i \in 1..(k - 1) : a[i].port = p /\ a[i].op = "delete"
        BY <3>2, <3>3 DEF Grows
      <4>2. i \in 1..Len(a) /\ Len(q) + i \in 1..(j - 1)
        BY <1>3, <3>1 DEF Join
      <4> QED BY <1>3, <4>1, <4>2 DEF Join
    <3>4. CASE kmaster[p] # s.slave[p]
      <4>1. PICK i \in 1..Len(q) : q[i].port = p /\ q[i].op = "delete"
        BY <1>1, <3>2, <3>4 DEF Follow, Leaves
      <4>2. i \in 1..(j - 1)
        BY <1>3, <3>1 DEF Join
      <4> QED BY <1>3, <4>1, <4>2 DEF Join
    <3> QED BY <3>3, <3>4
  <2> QED BY <2>1, <2>2
<1> QED BY <1>2, <1>5, <1>6, <1>7, <1>8 DEF Follow

LEMMA GrowsRest ==
  ASSUME KernelType, NEW a, Grows(a), NEW s, NEW lk, NEW lq, NEW c
  PROVE  /\ Blocks(s, queue, lk, lq) => Blocks(s, queue', lk, lq)
         /\ Public(s, queue, c) => Public(s, queue', c)
<1>0. a \in Seq(Event) /\ queue \in Seq(Event) /\ queue' = queue \o a
  BY DEF Grows, KernelType
<1>1. \A e : Has(queue, e) => Has(queue', e)
  BY <1>0, StaysIn
<1> QED BY <1>1 DEF Blocks, Public

-----------------------------------------------------------------------------
(* What the functions on the tables do when no call fails. *)

(* The slave table decides the port lists and the NPU's members. *)
LEMMA SlavesDecide ==
  ASSUME NEW s, TableInv(s), Intact(s)
  PROVE  /\ \A l \in Lags, p \in Ports : p \in s.ports[l] <=> s.slave[p] = l
         /\ \A p \in Ports : /\ s.npuMember[p] = s.slave[p]
                             /\ s.slave[p] \in s.masters \cup {None}
         /\ \A l \in Lags \ s.masters : s.ports[l] = {}
         /\ \A l \in Lags : s.ports[l] \subseteq Ports
         /\ None \notin s.masters
<1> USE NasLagAssumption
<1>1. \A l \in Lags, p \in Ports : /\ p \in s.ports[l] <=> s.slave[p] = l
                                   /\ p \in s.ports[l] <=> s.npuMember[p] = l
  BY DEF TableInv, Agree, Intact
<1>2. /\ \A p \in Ports : s.npuMember[p] \in MaybeLag /\ s.slave[p] \in MaybeLag
      /\ s.masters \subseteq Lags /\ \A l \in Lags : s.ports[l] \subseteq Ports
  BY DEF TableInv, NasState
<1>3. ASSUME NEW p \in Ports
      PROVE  s.npuMember[p] = s.slave[p] /\ s.slave[p] \in s.masters \cup {None}
  <2>1. s.npuMember[p] = s.slave[p]
    BY <1>1, <1>2 DEF MaybeLag
  <2>2. s.npuMember[p] # None => s.npuMember[p] \in s.npuLags
    BY DEF TableInv, OrphanFree
  <2> QED BY <2>1, <2>2 DEF Intact
<1>4. \A l \in Lags \ s.masters : s.ports[l] = {}
  BY <1>1, <1>2, <1>3
<1> QED BY <1>1, <1>2, <1>3, <1>4

AddsMaster(s, t, l) ==
  /\ Intact(t) /\ t.masters = s.masters \cup {l} /\ t.slave = s.slave
  /\ t.egress = s.egress /\ t.manual = s.manual
  /\ t.published = s.published /\ t.stripped = s.stripped

AddsMember(s, t, l, p) ==
  /\ Intact(t) /\ t.masters = s.masters
  /\ t.published = s.published /\ t.stripped = s.stripped
  /\ \A r \in Ports :
       IF r = p /\ s.slave[r] = None
       THEN t.slave[r] = l /\ t.egress[r] = FALSE /\ r \notin t.manual
       ELSE /\ t.slave[r] = s.slave[r] /\ t.egress[r] = s.egress[r]
            /\ r \in t.manual <=> r \in s.manual

DropsMember(s, t, p) ==
  /\ Intact(t) /\ t.masters = s.masters
  /\ t.published = s.published /\ t.stripped = s.stripped
  /\ t.egress = s.egress /\ t.manual = s.manual
  /\ \A r \in Ports : t.slave[r] = IF r = p THEN None ELSE s.slave[r]

ErasesMaster(s, t, l) ==
  /\ Intact(t) /\ t.masters = s.masters \ {l}
  /\ t.egress = s.egress /\ t.manual = s.manual /\ t.stripped = s.stripped \ {l}
  /\ \A r \in Ports : t.slave[r] = IF s.slave[r] = l THEN None ELSE s.slave[r]
  /\ \A k \in Lags : t.published[k] = IF k = l THEN {} ELSE s.published[k]


LEMMA MasterAddEffect ==
  ASSUME NEW s, TableInv(s), Intact(s), NEW l \in Lags, NEW t, t = MasterAdd(s, l, "none")
  PROVE  AddsMaster(s, t, l)
<1>1. CASE l \in s.masters
  BY <1>1 DEF MasterAdd, AddsMaster
<1>2. CASE l \notin s.masters
  <2>1. /\ t.masters = s.masters \cup {l} /\ t.npuLags = s.npuLags \cup {l}
        /\ t.registered = s.registered \cup {l} /\ t.announced = s.announced \cup {l}
        /\ t.slave = s.slave /\ t.egress = s.egress /\ t.manual = s.manual
        /\ t.published = s.published /\ t.stripped = s.stripped
    BY <1>2 DEF MasterAdd, TableInv, NasState
  <2> QED BY <2>1 DEF AddsMaster, Intact
<1> QED BY <1>1, <1>2

LEMMA MemberAddEffect ==
  ASSUME NEW s, TableInv(s), Intact(s), NEW l \in s.masters, NEW p \in Ports,
         NEW t, t = MemberAdd(s, l, p, "none")
  PROVE  /\ AddsMember(s, t, l, p)
         /\ MemberAddOk(s, l, p, "none") <=> s.slave[p] \in {None, l}
<1>1. /\ p \in s.ports[l] <=> s.slave[p] = l
      /\ s.npuMember[p] = s.slave[p] /\ l # None /\ l \in Lags /\ l \in s.npuLags
  BY SlavesDecide DEF TableInv, NasState, Intact
<1>2. MemberAddOk(s, l, p, "none") <=> s.slave[p] \in {None, l}
  BY <1>1 DEF MemberAddOk, NpuAccepts
<1>3. CASE s.slave[p] = None
  <2>1. t = [s EXCEPT !.ports[l] = @ \cup {p}, !.slave[p] = l, !.npuMember[p] = l,
                      !.egress[p] = FALSE, !.manual = @ \ {p}]
    BY <1>1, <1>2, <1>3 DEF MemberAdd
  <2>2. /\ t.masters = s.masters /\ t.npuLags = s.npuLags
        /\ t.registered = s.registered /\ t.announced = s.announced
        /\ t.published = s.published /\ t.stripped = s.stripped
        /\ t.slave = [s.slave EXCEPT ![p] = l] /\ t.egress = [s.egress EXCEPT ![p] = FALSE]
        /\ t.manual = s.manual \ {p}
    BY <2>1 DEF TableInv, NasState
  <2>3. s.slave \in [Ports -> MaybeLag] /\ s.egress \in [Ports -> BOOLEAN]
    BY DEF TableInv, NasState
  <2> HIDE DEF MemberAdd
  <2>4. Intact(t)
    BY <2>2 DEF Intact
  <2>5. \A r \in Ports : /\ t.slave[r] = IF r = p THEN l ELSE s.slave[r]
                         /\ t.egress[r] = IF r = p THEN FALSE ELSE s.egress[r]
    BY <2>2, <2>3
  <2>6. AddsMember(s, t, l, p)
    BY <1>3, <2>2, <2>4, <2>5 DEF AddsMember
  <2> QED BY <1>2, <2>6
<1>4. CASE s.slave[p] # None
  <2>1. t = s
    BY <1>1, <1>2, <1>4 DEF MemberAdd
  <2>2. AddsMember(s, t, l, p)
    BY <1>4, <2>1 DEF AddsMember
  <2> QED BY <1>2, <2>2
<1> QED BY <1>3, <1>4

LEMMA MemberDeleteEffect ==
  ASSUME NEW s, TableInv(s), Intact(s), NEW p \in Ports, NEW t, t = MemberDelete(s, p, "none")
  PROVE  /\ DropsMember(s, t, p)
         /\ MemberDeleteOk(s, p, "none") <=> s.slave[p] # None
<1>1. /\ s.npuMember[p] = s.slave[p] /\ s.slave[p] \in s.masters \cup {None} /\ None \notin s.masters
  BY SlavesDecide
<1>2. MemberDeleteOk(s, p, "none") <=> s.slave[p] # None
  BY <1>1 DEF MemberDeleteOk
<1>3. CASE s.slave[p] # None
  <2>1. t = [s EXCEPT !.ports[s.slave[p]] = @ \ {p}, !.slave[p] = None, !.npuMember[p] = None]
    BY <1>2, <1>3 DEF MemberDelete
  <2>2. /\ t.masters = s.masters /\ t.npuLags = s.npuLags
        /\ t.registered = s.registered /\ t.announced = s.announced
        /\ t.published = s.published /\ t.stripped = s.stripped
        /\ t.slave = [s.slave EXCEPT ![p] = None] /\ t.egress = s.egress
        /\ t.manual = s.manual
    BY <2>1 DEF TableInv, NasState
  <2>3. s.slave \in [Ports -> MaybeLag]
    BY DEF TableInv, NasState
  <2>4. \A r \in Ports : t.slave[r] = IF r = p THEN None ELSE s.slave[r]
    BY <2>2, <2>3
  <2>5. DropsMember(s, t, p)
    BY <2>2, <2>4 DEF DropsMember, Intact
  <2> QED BY <1>2, <2>5
<1>4. CASE s.slave[p] = None
  <2>1. t = s
    BY <1>2, <1>4 DEF MemberDelete
  <2>2. DropsMember(s, t, p)
    BY <1>4, <2>1 DEF DropsMember
  <2> QED BY <1>2, <2>2
<1> QED BY <1>3, <1>4

LEMMA MasterDeleteEffect ==
  ASSUME NEW s, TableInv(s), Intact(s), NEW l \in Lags, NEW refuse \in BOOLEAN,
         NEW t, t = MasterDelete(s, l, "none", refuse)
  PROVE  \/ t = s /\ (l \in s.masters => \E p \in Ports : s.slave[p] = l)
         \/ ErasesMaster(s, t, l)
<1>1. \A p \in Ports : s.npuMember[p] = s.slave[p] /\ (p \in s.ports[l] <=> s.slave[p] = l)
  BY SlavesDecide
<1>2. CASE ~NpuLagDeleteOk(s, l, "none", refuse)
  <2>1. t = s
    BY <1>2 DEF MasterDelete
  <2> QED BY <1>1, <1>2, <2>1 DEF NpuLagDeleteOk, Intact
<1>3. CASE NpuLagDeleteOk(s, l, "none", refuse)
  <2>1. t = MasterErase(NpuLagDelete(s, l), l)
    BY <1>3 DEF MasterDelete
  <2>2. PICK u : u = NpuLagDelete(s, l)
    OBVIOUS
  <2>3. /\ u \in NasState /\ u.npuLags = s.npuLags \ {l} /\ u.masters = s.masters
        /\ u.registered = s.registered /\ u.announced = s.announced /\ u.ports = s.ports
        /\ u.published = s.published /\ u.stripped = s.stripped /\ u.slave = s.slave
        /\ u.egress = s.egress /\ u.manual = s.manual
    <3>1. u \in NasState
      BY <2>2, NpuLagDeleteInv DEF TableInv
    <3> QED BY <2>2, <3>1 DEF NpuLagDelete, TableInv, NasState
  <2>4. /\ t.npuLags = u.npuLags /\ t.masters = u.masters \ {l}
        /\ t.registered = u.registered \ {l} /\ t.announced = u.announced \ {l}
        /\ t.published = [u.published EXCEPT ![l] = {}] /\ t.stripped = u.stripped \ {l}
        /\ t.slave = [p \in Ports |-> IF p \in u.ports[l] THEN None ELSE u.slave[p]]
        /\ t.egress = u.egress /\ t.manual = u.manual
    <3>1. t = MasterErase(u, l)
      BY <2>1, <2>2
    <3>2. t = [u EXCEPT
                 !.registered = @ \ {l}, !.announced = @ \ {l},
                 !.published[l] = {}, !.masters = @ \ {l}, !.ports[l] = {},
                 !.stripped = @ \ {l},
                 !.slave = [p \in Ports |->
                              IF p \in u.ports[l] THEN None ELSE @[p]]]
      BY <3>1 DEF MasterErase
    <3> QED BY <2>3, <3>2 DEF NasState
  <2>5. s.published \in [Lags -> SUBSET Ports]
    BY DEF TableInv, NasState
  <2>6. \A p \in Ports : t.slave[p] = IF s.slave[p] = l THEN None ELSE s.slave[p]
    BY <1>1, <2>3, <2>4
  <2>7. \A k \in Lags : t.published[k] = IF k = l THEN {} ELSE s.published[k]
    <3>1. t.published = [s.published EXCEPT ![l] = {}]
      BY <2>3, <2>4
    <3> QED BY <2>5, <3>1
  <2>8. ErasesMaster(s, t, l)
    <3>1. /\ t.masters = s.masters \ {l} /\ t.npuLags = s.npuLags \ {l}
          /\ t.registered = s.registered \ {l} /\ t.announced = s.announced \ {l}
          /\ t.egress = s.egress /\ t.manual = s.manual /\ t.stripped = s.stripped \ {l}
      BY <2>3, <2>4
    <3>2. Intact(t)
      BY <3>1 DEF Intact
    <3> QED BY <2>6, <2>7, <3>1, <3>2 DEF ErasesMaster
  <2> QED BY <2>8
<1> QED BY <1>2, <1>3

-----------------------------------------------------------------------------
(* A request changes the tables only towards the kernel, where the event    *)
(* that would have made the same change is still pending.                   *)

Nearer(s, t, B, m) ==
  /\ \A l \in t.masters \ s.masters : l \in B
  /\ \A l \in s.masters \ t.masters : l \notin B
  /\ \A p \in Ports : \/ t.slave[p] = s.slave[p]
                      \/ t.slave[p] = m[p]
                      \/ t.slave[p] = None /\ s.slave[p] # m[p]

LEMMA NearerFollow ==
  ASSUME NEW B, NEW m, NEW q \in Seq(Event), NEW al, KernelInv(B, m, q, al),
         NEW s, Follow(s, B, m, q), NEW t, Nearer(s, t, B, m)
  PROVE  Follow(t, B, m, q)
<1> USE NasLagAssumption
<1>1. ASSUME NEW l \in B PROVE l \in t.masters \/ Has(q, Create(l, None))
  BY DEF Follow, Nearer
<1>2. ASSUME NEW l \in t.masters PROVE l \in B \/ Has(q, Delete(l, None))
  BY DEF Follow, Nearer
<1>3. ASSUME NEW p \in Ports
      PROVE  /\ About(q, p) \/ t.slave[p] = m[p]
             /\ t.slave[p] \in {None, m[p]} \/ Leaves(q, p)
  BY DEF Follow, Nearer
<1>4. ASSUME NEW p \in Ports, NEW j \in 1..Len(q), q[j] = Delete(t.slave[p], None)
      PROVE  \E i \in 1..(j - 1) : q[i].port = p /\ q[i].op = "delete"
  <2>1. t.slave[p] \in Lags /\ q[j].lag = t.slave[p] /\ q[j] = Delete(q[j].lag, None)
    BY <1>4, EndNames
  <2>2. t.slave[p] \notin B /\ t.slave[p] # None
    BY <2>1 DEF KernelInv
  <2>3. m[p] \in B \cup {None}
    BY DEF KernelInv
  <2>4. t.slave[p] = s.slave[p]
    BY <2>2, <2>3 DEF Nearer
  <2> QED BY <1>4, <2>4 DEF Follow
<1> QED BY <1>1, <1>2, <1>3, <1>4 DEF Follow

(* What an event the daemon handles does to the tables. *)
Handled(s, t, h) ==
  /\ t.masters = IF h.op = "create" THEN s.masters \cup {h.lag}
                 ELSE IF h.port = None THEN s.masters \ {h.lag} ELSE s.masters
  /\ \A p \in Ports :
       t.slave[p] = IF p # h.port THEN s.slave[p]
                    ELSE IF h.op = "delete" THEN None
                    ELSE IF s.slave[p] = None THEN h.lag ELSE s.slave[p]

(* The next event about a bond that goes is a member leaving it. *)
LEMMA EndIsLast ==
  ASSUME NEW B, NEW m, NEW q \in Seq(Event), q # <<>>, NEW al, KernelInv(B, m, q, al),
         Head(q) = Delete(Head(q).lag, None)
  PROVE  Head(q).lag \notin B
<1>1. Head(q) = q[1] /\ 1 \in 1..Len(q)
  BY Dropped DEF Drop
<1> QED BY <1>1 DEF KernelInv

LEMMA HandledFollow ==
  ASSUME NEW B, NEW m, NEW q \in Seq(Event), q # <<>>, NEW al, KernelInv(B, m, q, al),
         NEW s, Follow(s, B, m, q), NEW h, h = Head(q), NEW t, Handled(s, t, h)
  PROVE  Follow(t, B, m, Tail(q))
<1> USE NasLagAssumption
<1>0. PICK r : r = Tail(q)
  OBVIOUS
<1>1. Drop(r, q)
  BY <1>0, Dropped
<1>2. /\ h = q[1] /\ h \in Event /\ 1 \in 1..Len(q)
      /\ \A j \in 1..Len(r) : j + 1 \in 1..Len(q) /\ r[j] = q[j + 1]
      /\ \A j \in 1..Len(q) : j = 1 \/ (j - 1 \in 1..Len(r) /\ r[j - 1] = q[j])
  BY <1>1 DEF Drop
<1>3. /\ h.op \in {"create", "delete"} /\ h.lag \in Lags /\ h.port \in Ports \cup {None}
      /\ h.op = "create" => h = Create(h.lag, h.port)
      /\ h.op = "delete" => h = Delete(h.lag, h.port)
  BY <1>2 DEF Event, Create, Delete
<1>4. /\ \A e : Has(q, e) <=> e = h \/ Has(r, e)
      /\ \A p : About(q, p) <=> h.port = p \/ About(r, p)
      /\ \A p : Leaves(q, p) <=> (h.port = p /\ h.op = "delete") \/ Leaves(r, p)
  BY <1>0, LeavesIt
<1>5. ASSUME NEW l \in B PROVE l \in t.masters \/ Has(r, Create(l, None))
  <2>1. l \in s.masters \/ Has(q, Create(l, None))
    BY DEF Follow
  <2>2. CASE h.op = "create"
    <3>1. Create(l, None) = h => l = h.lag
      BY DEF Create
    <3> QED BY <1>4, <2>1, <2>2, <3>1 DEF Handled
  <2>3. CASE h.op = "delete"
    <3>1. Create(l, None) # h
      BY <2>3 DEF Create
    <3>2. h.port = None => h.lag \notin B
      BY <1>3, <2>3, EndIsLast
    <3> QED BY <1>4, <2>1, <2>3, <3>1, <3>2 DEF Handled
  <2> QED BY <1>3, <2>2, <2>3
<1>6. ASSUME NEW l \in t.masters PROVE l \in B \/ Has(r, Delete(l, None))
  <2>1. l \in B \/ Has(q, Delete(l, None))
    <3>1. CASE l \in s.masters
      BY <3>1 DEF Follow
    <3>2. CASE l \notin s.masters
      <4>1. l = q[1].lag
        BY <1>2, <3>2 DEF Handled
      <4> QED BY <1>2, <4>1 DEF KernelInv
    <3> QED BY <3>1, <3>2
  <2>2. Delete(l, None) # h
    <3>1. Delete(l, None).op = "delete" /\ Delete(l, None).lag = l /\ Delete(l, None).port = None
      BY DEF Delete
    <3> QED BY <3>1 DEF Handled
  <2> QED BY <1>4, <2>1, <2>2
<1>7. ASSUME NEW p \in Ports, p # h.port
      PROVE  /\ About(r, p) \/ t.slave[p] = m[p]
             /\ t.slave[p] \in {None, m[p]} \/ Leaves(r, p)
             /\ \A j \in 1..Len(r) : r[j] = Delete(t.slave[p], None) =>
                  \E i \in 1..(j - 1) : r[i].port = p /\ r[i].op = "delete"
  <2>1. t.slave[p] = s.slave[p]
    BY <1>7 DEF Handled
  <2>2. ASSUME NEW j \in 1..Len(r), r[j] = Delete(t.slave[p], None)
        PROVE  \E i \in 1..(j - 1) : r[i].port = p /\ r[i].op = "delete"
    <3>1. j + 1 \in 1..Len(q) /\ q[j + 1] = Delete(s.slave[p], None)
      BY <1>2, <2>1, <2>2
    <3>2. PICK i \in 1..((j + 1) - 1) : q[i].port = p /\ q[i].op = "delete"
      BY <3>1 DEF Follow
    <3>3. i # 1 /\ i \in 1..Len(q)
      BY <1>1, <1>2, <1>7, <3>2 DEF Drop
    <3>4. i - 1 \in 1..(j - 1) /\ r[i - 1] = q[i]
      BY <1>2, <3>2, <3>3
    <3> QED BY <3>2, <3>4
  <2>3. /\ About(q, p) \/ s.slave[p] = m[p]
        /\ s.slave[p] \in {None, m[p]} \/ Leaves(q, p)
    BY DEF Follow
  <2> QED BY <1>4, <1>7, <2>1, <2>2, <2>3
<1>8. ASSUME NEW p \in Ports, p = h.port
      PROVE  /\ About(r, p) \/ t.slave[p] = m[p]
             /\ t.slave[p] \in {None, m[p]} \/ Leaves(r, p)
             /\ \A j \in 1..Len(r) : r[j] = Delete(t.slave[p], None) =>
                  \E i \in 1..(j - 1) : r[i].port = p /\ r[i].op = "delete"
  <2>1. Alternates(q, m[p], p) /\ q[1].port = p
    BY <1>2, <1>8 DEF KernelInv
  <2>2. CASE h.op = "delete"
    <3>1. t.slave[p] = None
      BY <1>8, <2>2 DEF Handled
    <3>2. m[p] = None \/ \E j \in (1 + 1)..Len(q) : q[j] = Create(m[p], p)
      BY <1>2, <2>1, <2>2 DEF Alternates
    <3>3. ASSUME NEW j \in (1 + 1)..Len(q), q[j] = Create(m[p], p)
          PROVE  About(r, p)
      <4>1. j - 1 \in 1..Len(r) /\ r[j - 1] = q[j]
        BY <1>1, <1>2 DEF Drop
      <4> QED BY <3>3, <4>1 DEF About, Create
    <3>4. \A j \in 1..Len(r) : r[j] # Delete(t.slave[p], None)
      <4>1. r \in Seq(Event)
        BY <1>1 DEF Drop
      <4> QED BY <3>1, <4>1, EndNames
    <3> QED BY <3>1, <3>2, <3>3, <3>4
  <2>3. CASE h.op = "create"
    <3>0. /\ About(q, p) \/ s.slave[p] = m[p]
          /\ s.slave[p] \in {None, m[p]} \/ Leaves(q, p)
      BY DEF Follow
    <3>1. h.lag = m[p] \/ \E j \in (1 + 1)..Len(q) : q[j] = Delete(h.lag, p)
      BY <1>2, <2>1, <2>3 DEF Alternates
    <3>2. ASSUME NEW j \in (1 + 1)..Len(q), q[j] = Delete(h.lag, p)
          PROVE  About(r, p) /\ Leaves(r, p)
      <4>1. j - 1 \in 1..Len(r) /\ r[j - 1] = q[j]
        BY <1>1, <1>2 DEF Drop
      <4> QED BY <3>2, <4>1 DEF About, Leaves, Delete
    <3>3. /\ About(r, p) \/ t.slave[p] = m[p]
          /\ t.slave[p] \in {None, m[p]} \/ Leaves(r, p)
      <4>1. CASE s.slave[p] = None
        <5>1. t.slave[p] = h.lag
          BY <1>8, <2>3, <4>1 DEF Handled
        <5> QED BY <3>1, <3>2, <5>1
      <4>2. CASE s.slave[p] # None
        <5>1. t.slave[p] = s.slave[p]
          BY <1>8, <2>3, <4>2 DEF Handled
        <5>2. Leaves(r, p) => About(r, p)
          BY DEF Leaves, About
        <5> QED BY <1>4, <2>3, <3>0, <4>2, <5>1, <5>2
      <4> QED BY <4>1, <4>2
    <3>4. ASSUME NEW j \in 1..Len(r), r[j] = Delete(t.slave[p], None)
          PROVE  \E i \in 1..(j - 1) : r[i].port = p /\ r[i].op = "delete"
      <4>1. j + 1 \in 1..Len(q) /\ q[j + 1] = Delete(t.slave[p], None)
        BY <1>2, <3>4
      <4>2. CASE s.slave[p] = None
        <5>1. t.slave[p] = h.lag
          BY <1>8, <2>3, <4>2 DEF Handled
        <5>2. q[j + 1].lag = h.lag /\ q[j + 1] = Delete(q[j + 1].lag, None)
          BY <4>1, <5>1, EndNames
        <5>3. h.lag \notin B /\ \A k \in ((j + 1) + 1)..Len(q) : q[k].lag # h.lag
          BY <4>1, <5>2 DEF KernelInv
        <5>4. h.lag # m[p]
          BY <1>3, <5>3 DEF KernelInv
        <5>5. PICK k \in (1 + 1)..Len(q) : q[k] = Delete(h.lag, p)
          BY <3>1, <5>4
        <5>6. q[k].lag = h.lag /\ q[k].port = p /\ q[k].op = "delete" /\ q[j + 1].port = None
          BY <4>1, <5>1, <5>5 DEF Delete
        <5>7. k # j + 1 /\ ~(k \in ((j + 1) + 1)..Len(q))
          BY <5>3, <5>6
        <5>8. k - 1 \in 1..(j - 1) /\ r[k - 1] = q[k]
          BY <1>1, <1>2, <4>1, <5>7 DEF Drop
        <5> QED BY <5>6, <5>8
      <4>3. CASE s.slave[p] # None
        <5>1. t.slave[p] = s.slave[p]
          BY <1>8, <2>3, <4>3 DEF Handled
        <5>2. PICK i \in 1..((j + 1) - 1) : q[i].port = p /\ q[i].op = "delete"
          BY <4>1, <5>1 DEF Follow
        <5>3. i # 1 /\ i \in 1..Len(q)
          BY <1>1, <1>2, <2>3, <5>2 DEF Drop
        <5>4. i - 1 \in 1..(j - 1) /\ r[i - 1] = q[i]
          BY <1>2, <5>2, <5>3
        <5> QED BY <5>2, <5>4
      <4> QED BY <4>2, <4>3
    <3> QED BY <3>3, <3>4
  <2> QED BY <1>3, <2>2, <2>3
<1>9. ASSUME NEW p \in Ports
      PROVE  /\ About(r, p) \/ t.slave[p] = m[p]
             /\ t.slave[p] \in {None, m[p]} \/ Leaves(r, p)
             /\ \A j \in 1..Len(r) : r[j] = Delete(t.slave[p], None) =>
                  \E i \in 1..(j - 1) : r[i].port = p /\ r[i].op = "delete"
  <2>1. CASE p = h.port
    BY <1>8, <2>1
  <2>2. CASE p # h.port
    BY <1>7, <2>2
  <2> QED BY <2>1, <2>2
<1>10. Follow(t, B, m, r)
  BY <1>5, <1>6, <1>9 DEF Follow
<1> QED BY <1>0, <1>10

-----------------------------------------------------------------------------
(* The members that pass traffic. *)

(* A port that the kernel has in a bond and the tables in none has the       *)
(* event that will add it pending.                                           *)
LEMMA ComingIn ==
  ASSUME NEW q \in Seq(Event), NEW x \in Lags, NEW p \in Ports, Alternates(q, x, p), About(q, p)
  PROVE  Has(q, Create(x, p))
<1> USE NasLagAssumption
<1>1. PICK i \in 1..Len(q) : q[i].port = p
  BY DEF About
<1>2. ASSUME NEW k \in 1..Len(q), q[k].port = p, q[k].op # "create"
      PROVE  Has(q, Create(x, p))
  <2>1. PICK j \in (k + 1)..Len(q) : q[j] = Create(x, p)
    BY <1>2 DEF Alternates
  <2>2. j \in 1..Len(q)
    BY LenProperties
  <2> QED BY <2>1, <2>2 DEF Has
<1>3. CASE q[i].op = "create" /\ q[i].lag = x
  <2>1. q[i] \in Event
    BY ElementOfSeq
  <2>2. q[i] = Create(x, p)
    BY <1>1, <1>3, <2>1 DEF Event, Create
  <2> QED BY <2>2 DEF Has
<1>4. CASE q[i].op = "create" /\ q[i].lag # x
  <2>1. PICK j \in (i + 1)..Len(q) : q[j] = Delete(q[i].lag, p)
    BY <1>1, <1>4 DEF Alternates
  <2>2. j \in 1..Len(q) /\ q[j].port = p /\ q[j].op # "create"
    BY <2>1, LenProperties DEF Delete
  <2> QED BY <1>2, <2>2
<1> QED BY <1>1, <1>2, <1>3, <1>4

(* Both Blocks and Public look only at a few fields. *)
LEMMA BlocksSame ==
  ASSUME NEW s, NEW t, NEW q, NEW lk, NEW lq, Blocks(s, q, lk, lq),
         \A r \in Ports : t.slave[r] = None \/
            (t.slave[r] = s.slave[r] /\ (r \in t.manual \/ (t.egress[r] = s.egress[r] /\ r \notin s.manual)))
  PROVE  Blocks(t, q, lk, lq)
BY DEF Blocks

LEMMA ApplyBlocksEffect ==
  ASSUME NEW s, TableInv(s), Intact(s), NEW l \in Lags, NEW attrs, NEW skip,
         NEW t, t = ApplyBlocks(s, l, attrs, skip)
  PROVE  /\ Intact(t) /\ t.masters = s.masters /\ t.slave = s.slave /\ t.ports = s.ports
         /\ t.published = s.published /\ t.stripped = s.stripped
         /\ \A r \in Ports : r \in t.manual \/ (t.egress[r] = s.egress[r] /\ r \notin s.manual)
<1> DEFINE hit == {p \in Blockable(s, l) \ skip : BlockingOf(attrs, p) # {}}
           final(p) == attrs[Max(BlockingOf(attrs, p))].kind = "block"
<1>1. t = [s EXCEPT !.manual = @ \cup hit,
                    !.egress = [p \in Ports |-> IF p \in hit THEN final(p) ELSE @[p]]]
  BY DEF ApplyBlocks
<1> HIDE DEF hit, final
<1>2. /\ t.npuLags = s.npuLags /\ t.registered = s.registered /\ t.announced = s.announced
      /\ t.masters = s.masters /\ t.slave = s.slave /\ t.ports = s.ports
      /\ t.published = s.published /\ t.stripped = s.stripped
      /\ t.manual = s.manual \cup hit
      /\ t.egress = [p \in Ports |-> IF p \in hit THEN final(p) ELSE s.egress[p]]
  BY <1>1 DEF TableInv, NasState
<1>3. Intact(t)
  BY <1>2 DEF Intact
<1>4. \A r \in Ports : r \in t.manual \/ (t.egress[r] = s.egress[r] /\ r \notin s.manual)
  BY <1>2
<1> QED BY <1>2, <1>3, <1>4

LEMMA BlockByLinkEffect ==
  ASSUME NEW s, TableInv(s), Intact(s), NEW l \in s.masters, NEW p \in Ports, s.slave[p] = l,
         NEW up \in BOOLEAN, NEW t, t = BlockByLink(s, l, p, up, "none")
  PROVE  /\ Intact(t) /\ t.masters = s.masters /\ t.slave = s.slave /\ t.ports = s.ports
         /\ t.published = s.published /\ t.stripped = s.stripped
         /\ t.egress[p] = ~up /\ p \notin t.manual
         /\ \A r \in Ports \ {p} : /\ t.egress[r] = s.egress[r]
                                   /\ r \in t.manual <=> r \in s.manual
<1>1. p \in s.ports[l] /\ s.slave[p] # None /\ s.npuMember[p] # None
  BY SlavesDecide DEF TableInv, NasState
<1>2. t = [s EXCEPT !.egress[p] = ~up, !.manual = @ \ {p}]
  BY <1>1 DEF BlockByLink, Blockable
<1>3. /\ t.npuLags = s.npuLags /\ t.registered = s.registered /\ t.announced = s.announced
      /\ t.masters = s.masters /\ t.slave = s.slave /\ t.ports = s.ports
      /\ t.published = s.published /\ t.stripped = s.stripped
      /\ t.manual = s.manual \ {p} /\ t.egress = [s.egress EXCEPT ![p] = ~up]
  BY <1>2 DEF TableInv, NasState
<1>4. Intact(t)
  BY <1>3 DEF Intact
<1>5. s.egress \in [Ports -> BOOLEAN]
  BY DEF TableInv, NasState
<1>6. /\ t.egress[p] = ~up
      /\ \A r \in Ports \ {p} : t.egress[r] = s.egress[r]
  BY <1>3, <1>5
<1> QED BY <1>3, <1>4, <1>6

Publishes(s, t, l) ==
  /\ Intact(t) /\ t.masters = s.masters /\ t.slave = s.slave /\ t.ports = s.ports
  /\ t.egress = s.egress /\ t.manual = s.manual
  /\ \A k \in Lags : t.published[k] = IF k = l /\ l \in s.masters
                                      THEN s.ports[k] ELSE s.published[k]
  /\ t.stripped = IF l \in s.masters THEN s.stripped \ {l} ELSE s.stripped

LEMMA PublishEffect ==
  ASSUME NEW s, TableInv(s), Intact(s), NEW l \in Lags, NEW t, t = Publish(s, l, "none")
  PROVE  Publishes(s, t, l)
<1> USE DEF Publishes
<1>1. CASE l \in s.masters
  <2>1. t = [s EXCEPT !.published[l] = s.ports[l], !.stripped = @ \ {l}]
    BY <1>1 DEF Publish
  <2>2. /\ t.npuLags = s.npuLags /\ t.registered = s.registered /\ t.announced = s.announced
        /\ t.masters = s.masters /\ t.slave = s.slave /\ t.ports = s.ports
        /\ t.egress = s.egress /\ t.manual = s.manual
        /\ t.published = [s.published EXCEPT ![l] = s.ports[l]]
        /\ t.stripped = s.stripped \ {l}
    BY <2>1 DEF TableInv, NasState
  <2>3. s.published \in [Lags -> SUBSET Ports]
    BY DEF TableInv, NasState
  <2>4. \A k \in Lags : t.published[k] = IF k = l THEN s.ports[k] ELSE s.published[k]
    BY <2>2, <2>3
  <2>5. Intact(t)
    BY <2>2 DEF Intact
  <2> QED BY <1>1, <2>2, <2>4, <2>5
<1>2. CASE l \notin s.masters
  <2>1. t = s
    BY <1>2 DEF Publish
  <2> QED BY <1>2, <2>1
<1> QED BY <1>1, <1>2

-----------------------------------------------------------------------------
(* What a handler of an event leaves in the tables, for the links and the    *)
(* publications: a port it adds is blocked as its link says; the list of a   *)
(* LAG is published, or it is what it was and the LAG gained no member.      *)

ShownPort(s, t, h, r) ==
  \/ t.slave[r] = None
  \/ r = h.port /\ t.egress[r] = ~link[r]
  \/ /\ t.slave[r] = s.slave[r] /\ t.egress[r] = s.egress[r]
     /\ r \in t.manual <=> r \in s.manual
     /\ h.op = "create" /\ r = h.port => s.slave[r] # h.lag

ShownList(s, t, h, k) ==
  \/ t.published[k] = t.ports[k]
  \/ /\ t.published[k] = s.published[k] /\ (k \in t.masters \/ k \notin s.masters)
     /\ t.ports[k] \subseteq s.ports[k]
     /\ k \in t.stripped \/ (k \notin s.stripped /\ t.ports[k] = s.ports[k])
     /\ h.op = "create" /\ k = h.lag => h.port \notin t.ports[k]

Shows(s, t, h) ==
  /\ Intact(t) /\ TableInv(t) /\ Handled(s, t, h)
  /\ \A r \in Ports : ShownPort(s, t, h, r)
  /\ \A k \in Lags : ShownList(s, t, h, k)

(* The lists follow the slave table. *)
LEMMA SameLists ==
  ASSUME NEW s, TableInv(s), Intact(s), NEW t, TableInv(t), Intact(t), NEW k \in Lags,
         \A r \in Ports : t.slave[r] = k <=> s.slave[r] = k
  PROVE  t.ports[k] = s.ports[k]
<1>1. \A r \in Ports : (r \in t.ports[k] <=> t.slave[r] = k) /\ (r \in s.ports[k] <=> s.slave[r] = k)
  BY SlavesDecide
<1>2. t.ports[k] \subseteq Ports /\ s.ports[k] \subseteq Ports
  BY SlavesDecide
<1> QED BY <1>1, <1>2

LEMMA OnCreateEffect ==
  ASSUME link \in [Ports -> BOOLEAN], NEW s, TableInv(s), Intact(s),
         NEW h \in Event, h.op = "create", NEW t, t = OnCreate(s, h, "none")
  PROVE  Shows(s, t, h)
<1> USE NasLagAssumption
<1>1. PICK l \in Lags : l = h.lag
  BY DEF Event
<1>2. PICK u : u = MasterAdd(s, l, "none")
  OBVIOUS
<1>3. AddsMaster(s, u, l) /\ TableInv(u)
  BY <1>2, MasterAddEffect, MasterAddInv
<1>4. /\ Intact(u) /\ u.masters = s.masters \cup {l} /\ u.slave = s.slave
      /\ u.egress = s.egress /\ u.manual = s.manual
      /\ u.published = s.published /\ u.stripped = s.stripped
  BY <1>3 DEF AddsMaster
<1>5. l \in s.masters \/ MasterAddOk(s, l, "none")
  BY DEF MasterAddOk
<1>6. TableInv(t)
  BY OnCreateInv DEF Event
<1>7. CASE h.port = None
  <2>1. t = Publish(u, l, "none")
    BY <1>1, <1>2, <1>5, <1>7 DEF OnCreate
  <2>2. /\ Intact(t) /\ t.masters = u.masters /\ t.slave = u.slave /\ t.ports = u.ports
        /\ t.egress = u.egress /\ t.manual = u.manual
        /\ \A k \in Lags : t.published[k] = IF k = l THEN t.ports[k] ELSE s.published[k]
        /\ t.stripped = u.stripped \ {l}
    <3>1. Publishes(u, t, l)
      BY <1>3, <1>4, <2>1, PublishEffect
    <3> QED BY <1>4, <3>1 DEF Publishes
  <2>3. Handled(s, t, h)
    BY <1>1, <1>4, <1>7, <2>2 DEF Handled
  <2>4. ASSUME NEW r \in Ports PROVE ShownPort(s, t, h, r)
    BY <1>4, <1>7, <2>2 DEF ShownPort
  <2>5. ASSUME NEW k \in Lags PROVE ShownList(s, t, h, k)
    <3>1. t.ports[k] = s.ports[k]
      BY <1>4, <1>6, <2>2, SameLists
    <3> QED BY <1>1, <1>4, <2>2, <3>1 DEF ShownList
  <2> QED BY <1>6, <2>2, <2>3, <2>4, <2>5 DEF Shows
<1>8. CASE h.port # None
  <2>1. PICK p \in Ports : p = h.port
    BY <1>8 DEF Event
  <2>2. PICK v : v = MemberAdd(u, l, p, "none")
    OBVIOUS
  <2>3. /\ AddsMember(u, v, l, p) /\ TableInv(v)
        /\ MemberAddOk(u, l, p, "none") <=> s.slave[p] \in {None, l}
    BY <1>3, <1>4, <2>2, MemberAddEffect, MemberAddInv
  <2>4. CASE s.slave[p] \notin {None, l}
    <3>1. t = u
      BY <1>1, <1>2, <1>5, <1>8, <2>1, <2>3, <2>4 DEF OnCreate
    <3>2. Handled(s, t, h)
      BY <1>1, <1>4, <2>1, <2>4, <3>1 DEF Handled
    <3>3. ASSUME NEW r \in Ports PROVE ShownPort(s, t, h, r)
      BY <1>1, <1>4, <2>1, <2>4, <3>1 DEF ShownPort
    <3>4. ASSUME NEW k \in Lags PROVE ShownList(s, t, h, k)
      <4>1. t.ports[k] = s.ports[k]
        BY <1>4, <1>6, <3>1, SameLists
      <4>2. p \in t.ports[k] <=> s.slave[p] = k
        BY <1>4, <1>6, <3>1, SlavesDecide
      <4> QED BY <1>1, <1>4, <2>1, <2>4, <3>1, <4>1, <4>2 DEF ShownList
    <3> QED BY <1>4, <1>6, <3>1, <3>2, <3>3, <3>4 DEF Shows
  <2>5. CASE s.slave[p] \in {None, l}
    <3>1. /\ Intact(v) /\ v.masters = u.masters
          /\ v.published = u.published /\ v.stripped = u.stripped
          /\ v.slave[p] = l
          /\ \A r \in Ports : r # p => /\ v.slave[r] = s.slave[r] /\ v.egress[r] = s.egress[r]
                                       /\ r \in v.manual <=> r \in s.manual
      BY <1>4, <2>3, <2>5 DEF AddsMember
    <3>2. link[p] \in BOOLEAN /\ link[h.port] = link[p] /\ l \in v.masters
      BY <1>4, <2>1, <3>1
    <3>3. PICK w : w = BlockByLink(v, l, p, link[p], "none")
      OBVIOUS
    <3>4. BlockPortOk(v, l, p, "none")
      <4>1. v.slave[p] # None /\ v.npuMember[p] # None
        BY <2>3, <3>1, SlavesDecide
      <4> QED BY <4>1 DEF BlockPortOk, Blockable
    <3>5. t = Publish(w, l, "none")
      BY <1>1, <1>2, <1>5, <1>8, <2>1, <2>2, <2>3, <2>5, <3>3, <3>4 DEF OnCreate
    <3>6. TableInv(w)
      BY <2>3, <3>3, BlockByLinkInv
    <3>7. /\ Intact(w) /\ w.masters = v.masters /\ w.slave = v.slave /\ w.ports = v.ports
          /\ w.published = v.published /\ w.stripped = v.stripped
          /\ w.egress[p] = ~link[p]
          /\ \A r \in Ports \ {p} : /\ w.egress[r] = v.egress[r]
                                    /\ r \in w.manual <=> r \in v.manual
      BY <2>3, <3>1, <3>2, <3>3, BlockByLinkEffect
    <3>8. /\ Intact(t) /\ t.masters = w.masters /\ t.slave = w.slave /\ t.ports = w.ports
          /\ t.egress = w.egress /\ t.manual = w.manual
          /\ \A k \in Lags : t.published[k] = IF k = l THEN t.ports[k] ELSE s.published[k]
          /\ t.stripped = w.stripped \ {l}
      <4>1. Publishes(w, t, l)
        BY <3>5, <3>6, <3>7, PublishEffect
      <4> QED BY <1>4, <3>1, <3>2, <3>7, <4>1 DEF Publishes
    <3>9. Handled(s, t, h)
      <4>1. \A r \in Ports : t.slave[r] = IF r = p THEN l ELSE s.slave[r]
        BY <3>1, <3>7, <3>8
      <4>2. t.masters = s.masters \cup {l}
        BY <1>4, <3>1, <3>7, <3>8
      <4> QED BY <1>1, <2>1, <2>5, <4>1, <4>2 DEF Handled
    <3>10. ASSUME NEW r \in Ports PROVE ShownPort(s, t, h, r)
      <4>1. CASE r = p
        BY <2>1, <3>7, <3>8, <4>1 DEF ShownPort
      <4>2. CASE r # p
        BY <2>1, <3>1, <3>7, <3>8, <4>2 DEF ShownPort
      <4> QED BY <4>1, <4>2
    <3>11. ASSUME NEW k \in Lags PROVE ShownList(s, t, h, k)
      <4>1. CASE k = l
        BY <3>8, <4>1 DEF ShownList
      <4>2. CASE k # l
        <5>1. \A r \in Ports : t.slave[r] = k <=> s.slave[r] = k
          BY <2>5, <3>1, <3>7, <3>8, <4>2
        <5>2. t.ports[k] = s.ports[k] \/ k = None
          BY <1>6, <3>8, <5>1, SameLists
        <5>3. k # None
          OBVIOUS
        <5> QED BY <1>1, <1>4, <3>1, <3>7, <3>8, <4>2, <5>2, <5>3 DEF ShownList
      <4> QED BY <4>1, <4>2
    <3> QED BY <1>6, <3>8, <3>9, <3>10, <3>11 DEF Shows
  <2> QED BY <2>4, <2>5
<1> QED BY <1>7, <1>8

LEMMA StripEffect ==
  ASSUME NEW s, TableInv(s), Intact(s), NEW p \in Ports, s.slave[p] # None,
         NEW t, t = Strip(s, p, "none")
  PROVE  /\ TableInv(t) /\ Intact(t) /\ t.masters = s.masters /\ t.published = s.published
         /\ t.egress = s.egress /\ t.manual = s.manual
         /\ \A r \in Ports : t.slave[r] = IF r = p THEN None ELSE s.slave[r]
         /\ t.stripped = s.stripped \cup {s.slave[p]}
<1>1. PICK d : d = MemberDelete(s, p, "none")
  OBVIOUS
<1>2. /\ DropsMember(s, d, p) /\ TableInv(d)
      /\ MemberDeleteOk(s, p, "none") <=> s.slave[p] # None
  BY <1>1, MemberDeleteEffect, MemberDeleteInv
<1>3. TableInv(t)
  BY <1>2, StripInv
<1>4. t = [d EXCEPT !.stripped = @ \cup {s.slave[p]}]
  BY <1>1 DEF Strip
<1>5. d \in NasState
  BY <1>2 DEF TableInv
<1>6. /\ t.npuLags = d.npuLags /\ t.registered = d.registered /\ t.announced = d.announced
      /\ t.masters = d.masters /\ t.slave = d.slave /\ t.published = d.published
      /\ t.egress = d.egress /\ t.manual = d.manual
      /\ t.stripped = d.stripped \cup {s.slave[p]}
  BY <1>4, <1>5 DEF NasState
<1> QED BY <1>2, <1>3, <1>6 DEF DropsMember, Intact

LEMMA OnDeleteEffect ==
  ASSUME NEW s, TableInv(s), Intact(s), NEW h \in Event, h.op = "delete",
         NEW refuse \in BOOLEAN, NEW t, t = OnDelete(s, h, "none", refuse),
         h.port = None => \A p \in Ports : s.slave[p] # h.lag
  PROVE  Shows(s, t, h)
<1> USE NasLagAssumption
<1>1. PICK l \in Lags : l = h.lag
  BY DEF Event
<1>2. TableInv(t)
  BY OnDeleteInv DEF Event
<1>3. CASE h.port = None
  <2>1. t = MasterDelete(s, l, "none", refuse)
    BY <1>1, <1>3 DEF OnDelete
  <2>2. \/ t = s /\ l \notin s.masters
        \/ ErasesMaster(s, t, l)
    <3>1. \A p \in Ports : s.slave[p] # l
      BY <1>1, <1>3
    <3> QED BY <2>1, <3>1, MasterDeleteEffect
  <2>3. /\ Intact(t) /\ t.masters = s.masters \ {l} /\ t.egress = s.egress /\ t.manual = s.manual
        /\ \A r \in Ports : t.slave[r] = s.slave[r]
        /\ \A k \in Lags : k # l => /\ t.published[k] = s.published[k]
                                    /\ k \in t.stripped <=> k \in s.stripped
        /\ t = s \/ t.published[l] = {}
    BY <1>1, <1>3, <2>2 DEF ErasesMaster
  <2>4. Handled(s, t, h)
    BY <1>1, <1>3, <2>3 DEF Handled
  <2>5. ASSUME NEW r \in Ports PROVE ShownPort(s, t, h, r)
    BY <1>3, <2>3 DEF ShownPort
  <2>6. ASSUME NEW k \in Lags PROVE ShownList(s, t, h, k)
    <3>1. t.ports[k] = s.ports[k]
      BY <1>2, <2>3, SameLists
    <3>2. CASE t = s
      BY <2>2, <2>3, <3>2 DEF ShownList
    <3>3. CASE k = l /\ t.published[l] = {}
      <4>1. t.ports[l] = {}
        BY <1>2, <2>3, SlavesDecide
      <4> QED BY <3>3, <4>1 DEF ShownList
    <3>4. CASE k # l
      BY <2>3, <3>1, <3>4 DEF ShownList
    <3> QED BY <2>3, <3>2, <3>3, <3>4
  <2> QED BY <1>2, <2>3, <2>4, <2>5, <2>6 DEF Shows
<1>4. CASE h.port # None
  <2>1. PICK p \in Ports : p = h.port
    BY <1>4 DEF Event
  <2>2. MemberDeleteOk(s, p, "none") <=> s.slave[p] # None
    BY MemberDeleteEffect
  <2>3. CASE s.slave[p] = None
    <3>1. t = s
      BY <1>4, <2>1, <2>2, <2>3 DEF OnDelete
    <3>2. Handled(s, t, h)
      BY <2>1, <1>4, <2>3, <3>1 DEF Handled
    <3>3. \A r \in Ports : ShownPort(s, t, h, r)
      BY <3>1 DEF ShownPort
    <3>4. \A k \in Lags : ShownList(s, t, h, k)
      BY <3>1 DEF ShownList
    <3> QED BY <1>2, <3>1, <3>2, <3>3, <3>4 DEF Shows
  <2>4. CASE s.slave[p] # None
    <3>1. PICK u : u = Strip(s, p, "none")
      OBVIOUS
    <3>2. t = Publish(u, l, "none")
      BY <1>1, <1>4, <2>1, <2>2, <2>4, <3>1 DEF OnDelete
    <3>3. /\ TableInv(u) /\ Intact(u) /\ u.masters = s.masters /\ u.published = s.published
          /\ u.egress = s.egress /\ u.manual = s.manual
          /\ \A r \in Ports : u.slave[r] = IF r = p THEN None ELSE s.slave[r]
          /\ u.stripped = s.stripped \cup {s.slave[p]}
      BY <2>4, <3>1, StripEffect
    <3>4. Publishes(u, t, l)
      BY <3>2, <3>3, PublishEffect
    <3>5. /\ Intact(t) /\ t.masters = s.masters /\ t.egress = s.egress /\ t.manual = s.manual
          /\ \A r \in Ports : t.slave[r] = IF r = p THEN None ELSE s.slave[r]
          /\ \A k \in Lags : \/ t.published[k] = t.ports[k]
                             \/ /\ t.published[k] = s.published[k]
                                /\ k \in t.stripped <=> k \in s.stripped \/ k = s.slave[p]
      BY <3>3, <3>4 DEF Publishes
    <3>6. Handled(s, t, h)
      BY <1>4, <2>1, <3>5 DEF Handled
    <3>7. \A r \in Ports : ShownPort(s, t, h, r)
      BY <3>5 DEF ShownPort
    <3>8. ASSUME NEW k \in Lags PROVE ShownList(s, t, h, k)
      <4>1. \A r \in Ports : (r \in t.ports[k] <=> t.slave[r] = k) /\ (r \in s.ports[k] <=> s.slave[r] = k)
        BY <1>2, <3>5, SlavesDecide
      <4>2. t.ports[k] \subseteq s.ports[k]
        <5>1. t.ports[k] \subseteq Ports
          BY <1>2, <3>5, SlavesDecide
        <5> QED BY <3>5, <4>1, <5>1
      <4>3. k = s.slave[p] \/ t.ports[k] = s.ports[k]
        <5>1. CASE k # s.slave[p]
          <6>1. \A r \in Ports : t.slave[r] = k <=> s.slave[r] = k
            BY <3>5, <5>1
          <6> QED BY <1>2, <3>5, <6>1, SameLists
        <5> QED BY <5>1
      <4> QED BY <3>5, <4>2, <4>3 DEF ShownList
    <3> QED BY <1>2, <3>5, <3>6, <3>7, <3>8 DEF Shows
  <2> QED BY <2>3, <2>4
<1> QED BY <1>3, <1>4

-----------------------------------------------------------------------------
(* Taking the event away after it was handled. *)

LEMMA ShowsBlocks ==
  ASSUME NEW q \in Seq(Event), q # <<>>, NEW h, h = Head(q), NEW s, NEW t, Shows(s, t, h),
         NEW lq, Blocks(s, q, link, lq)
  PROVE  Blocks(t, Tail(q), link, lq)
<1>1. \A e : Has(q, e) <=> e = h \/ Has(Tail(q), e)
  BY LeavesIt
<1>2. ASSUME NEW p \in Ports, p \notin t.manual, t.slave[p] # None, t.egress[p] # ~link[p]
      PROVE  About(lq, p) \/ Has(Tail(q), Create(t.slave[p], p))
  <2>1. ShownPort(s, t, h, p)
    BY DEF Shows
  <2>2. /\ t.slave[p] = s.slave[p] /\ t.egress[p] = s.egress[p] /\ p \notin s.manual
        /\ h.op = "create" /\ p = h.port => s.slave[p] # h.lag
    BY <1>2, <2>1 DEF ShownPort
  <2>3. About(lq, p) \/ Has(q, Create(s.slave[p], p))
    BY <1>2, <2>2 DEF Blocks
  <2>4. h # Create(s.slave[p], p)
    BY <2>2 DEF Create
  <2> QED BY <1>1, <2>2, <2>3, <2>4
<1> QED BY <1>2 DEF Blocks

LEMMA ShowsPublic ==
  ASSUME NEW q \in Seq(Event), q # <<>>, NEW h, h = Head(q), NEW s, TableInv(s), Intact(s),
         NEW t, Shows(s, t, h), NEW c, c.pc # "ports", Public(s, q, c)
  PROVE  Public(t, Tail(q), c)
<1> USE NasLagAssumption
<1>1. \A e : Has(q, e) <=> e = h \/ Has(Tail(q), e)
  BY LeavesIt
<1>2. /\ TableInv(t) /\ Intact(t) /\ \A k \in Lags : ShownList(s, t, h, k)
  BY DEF Shows
<1>3. /\ \A k \in Lags \ s.masters : s.ports[k] = {}
      /\ \A k \in Lags \ t.masters : t.ports[k] = {}
      /\ s.masters \subseteq Lags /\ t.masters \subseteq Lags
  BY <1>2, SlavesDecide DEF TableInv, NasState
<1>4. ASSUME NEW k \in t.masters, NEW p \in t.ports[k] \ t.published[k]
      PROVE  Has(Tail(q), Create(k, p))
  <2>1. /\ t.published[k] = s.published[k] /\ t.ports[k] \subseteq s.ports[k]
        /\ h.op = "create" /\ k = h.lag => h.port \notin t.ports[k]
    BY <1>2, <1>3 DEF ShownList
  <2>2. k \in s.masters
    BY <1>3, <2>1
  <2>3. Has(q, Create(k, p))
    BY <2>1, <2>2 DEF Public
  <2>4. h # Create(k, p)
    BY <2>1 DEF Create
  <2> QED BY <1>1, <2>3, <2>4
<1>5. ASSUME NEW k \in t.masters \ t.stripped PROVE t.published[k] \subseteq t.ports[k]
  <2>1. CASE t.published[k] # t.ports[k]
    <3>1. /\ t.published[k] = s.published[k] /\ k \notin s.stripped /\ t.ports[k] = s.ports[k]
      BY <1>2, <1>3, <2>1 DEF ShownList
    <3> QED BY <1>3, <3>1 DEF Public
  <2> QED BY <2>1
<1>6. ASSUME NEW k \in Lags \ t.masters PROVE t.published[k] = {}
  <2>1. CASE t.published[k] # t.ports[k]
    <3>1. t.published[k] = s.published[k] /\ k \notin s.masters
      BY <1>2, <2>1 DEF ShownList
    <3> QED BY <3>1 DEF Public
  <2> QED BY <1>3, <2>1
<1> QED BY <1>4, <1>5, <1>6 DEF Public

-----------------------------------------------------------------------------
(* The steps of a request, after what they did to the kernel. *)

LEMMA GrowsMends ==
  ASSUME KernelType, KernelInv(bonds, kmaster, queue, allocated), NEW a, Grows(a),
         NEW s, NEW lk, NEW lq, NEW c, Mends(s, bonds, kmaster, queue, lk, lq, c)
  PROVE  Mends(s, bonds', kmaster', queue', lk, lq, c)
BY GrowsFollow, GrowsRest DEF Mends

LEMMA PublicThread ==
  ASSUME NEW s, NEW q, NEW c, NEW d, Public(s, q, c),
         c.pc # "ports" \/ (d.pc = c.pc /\ d.lag = c.lag /\ d.adding = c.adding)
  PROVE  Public(s, q, d)
BY DEF Public

LEMMA JoinMends ==
  ASSUME NEW B, NEW m, NEW q \in Seq(Event), NEW al, KernelInv(B, m, q, al),
         NEW s, TableInv(s), NEW lk, NEW lq, NEW c, Mends(s, B, m, q, lk, lq, c),
         NEW l \in Lags, l \in B, NEW p \in Ports, m[p] = l,
         NEW t, t = MemberAdd(s, l, p, "none")
  PROVE  Mends(t, B, m, q, lk, lq, c)
<1> USE NasLagAssumption
<1>1. CASE l \notin s.masters
  <2>1. t = s
    BY <1>1 DEF MemberAdd, MemberAddOk
  <2> QED BY <2>1
<1>2. CASE l \in s.masters
  <2>1. Intact(s)
    BY DEF Mends
  <2>2. AddsMember(s, t, l, p) /\ TableInv(t)
    BY <1>2, <2>1, MemberAddEffect, MemberAddInv
  <2>3. /\ Intact(t) /\ t.masters = s.masters
        /\ t.published = s.published /\ t.stripped = s.stripped
    BY <2>2 DEF AddsMember
  <2>4. Nearer(s, t, B, m)
    BY <2>2 DEF AddsMember, Nearer
  <2>5. Follow(t, B, m, q)
    BY <2>4, NearerFollow DEF Mends
  <2>6. s.slave[p] = None => Has(q, Create(l, p))
    <3>1. s.slave[p] = None => About(q, p)
      BY DEF Mends, Follow
    <3>2. Alternates(q, l, p)
      BY DEF KernelInv
    <3> QED BY <3>1, <3>2, ComingIn
  <2>7. Blocks(t, q, lk, lq)
    <3>1. ASSUME NEW r \in Ports, r \notin t.manual, t.slave[r] # None, t.egress[r] # ~lk[r]
          PROVE  About(lq, r) \/ Has(q, Create(t.slave[r], r))
      <4>1. CASE r = p /\ s.slave[r] = None
        BY <2>2, <2>6, <4>1 DEF AddsMember
      <4>2. CASE ~(r = p /\ s.slave[r] = None)
        BY <2>2, <3>1, <4>2 DEF AddsMember, Mends, Blocks
      <4> QED BY <4>1, <4>2
    <3> QED BY <3>1 DEF Mends, Blocks
  <2>8. \A k \in Lags : t.ports[k] = s.ports[k] \/ (k = l /\ t.ports[k] = s.ports[k] \cup {p} /\ s.slave[p] = None)
    <3> SUFFICES ASSUME NEW k \in Lags
                 PROVE  t.ports[k] = s.ports[k] \/ (k = l /\ t.ports[k] = s.ports[k] \cup {p} /\ s.slave[p] = None)
      OBVIOUS
    <3>1. CASE k = l /\ s.slave[p] = None
      <4>1. /\ \A r \in Ports : (r \in t.ports[k] <=> t.slave[r] = k) /\ (r \in s.ports[k] <=> s.slave[r] = k)
            /\ t.ports[k] \subseteq Ports /\ s.ports[k] \subseteq Ports
        BY <2>1, <2>2, <2>3, SlavesDecide
      <4>2. \A r \in Ports : t.slave[r] = k <=> s.slave[r] = k \/ r = p
        BY <2>2, <3>1 DEF AddsMember
      <4> QED BY <3>1, <4>1, <4>2
    <3>2. CASE ~(k = l /\ s.slave[p] = None)
      <4>1. \A r \in Ports : t.slave[r] = k <=> s.slave[r] = k
        BY <2>2, <3>2 DEF AddsMember
      <4> QED BY <2>1, <2>2, <2>3, <4>1, SameLists
    <3> QED BY <3>1, <3>2
  <2>9. Public(t, q, c)
    <3>0. Public(s, q, c) /\ s.masters \subseteq Lags
      BY DEF Mends, TableInv, NasState
    <3>1. \A k \in t.masters : \A r \in t.ports[k] \ t.published[k] : Has(q, Create(k, r))
      BY <2>3, <2>6, <2>8, <3>0 DEF Public
    <3>2. \A k \in t.masters \ t.stripped :
            t.published[k] \subseteq t.ports[k] \/ (c.pc = "ports" /\ c.lag = k /\ ~c.adding)
      BY <2>3, <2>8, <3>0 DEF Public
    <3>3. \A k \in Lags \ t.masters : t.published[k] = {}
      BY <2>3, <3>0 DEF Public
    <3> QED BY <3>1, <3>2, <3>3 DEF Public
  <2> QED BY <2>3, <2>5, <2>7, <2>9 DEF Mends
<1> QED BY <1>1, <1>2

LEMMA LeaveMends ==
  ASSUME NEW B, NEW m, NEW q \in Seq(Event), NEW al, KernelInv(B, m, q, al),
         NEW s, TableInv(s), NEW lk, NEW lq, NEW c, Mends(s, B, m, q, lk, lq, c),
         NEW p \in Ports, m[p] = None, c.pc = "ports", c.lag = s.slave[p], ~c.adding,
         NEW t, t = MemberDelete(s, p, "none")
  PROVE  Mends(t, B, m, q, lk, lq, c)
<1> USE NasLagAssumption
<1>1. Intact(s)
  BY DEF Mends
<1>2. DropsMember(s, t, p) /\ TableInv(t)
  BY <1>1, MemberDeleteEffect, MemberDeleteInv
<1>3. /\ Intact(t) /\ t.masters = s.masters
      /\ t.published = s.published /\ t.stripped = s.stripped
      /\ t.egress = s.egress /\ t.manual = s.manual
      /\ \A r \in Ports : t.slave[r] = IF r = p THEN None ELSE s.slave[r]
  BY <1>2 DEF DropsMember
<1>4. Nearer(s, t, B, m)
  BY <1>3 DEF Nearer
<1>5. Follow(t, B, m, q)
  BY <1>4, NearerFollow DEF Mends
<1>6. Blocks(t, q, lk, lq)
  BY <1>3 DEF Mends, Blocks
<1>7. \A k \in Lags : t.ports[k] \subseteq s.ports[k] /\ (k = s.slave[p] \/ t.ports[k] = s.ports[k])
  <2> SUFFICES ASSUME NEW k \in Lags
               PROVE  t.ports[k] \subseteq s.ports[k] /\ (k = s.slave[p] \/ t.ports[k] = s.ports[k])
    OBVIOUS
  <2>1. /\ \A r \in Ports : (r \in t.ports[k] <=> t.slave[r] = k) /\ (r \in s.ports[k] <=> s.slave[r] = k)
        /\ t.ports[k] \subseteq Ports /\ s.ports[k] \subseteq Ports
    BY <1>1, <1>2, <1>3, SlavesDecide
  <2>2. \A r \in Ports : t.slave[r] = k => s.slave[r] = k
    BY <1>3
  <2>3. k # s.slave[p] => \A r \in Ports : t.slave[r] = k <=> s.slave[r] = k
    BY <1>3
  <2>4. k # s.slave[p] => t.ports[k] = s.ports[k]
    BY <1>1, <1>2, <1>3, <2>3, SameLists
  <2> QED BY <2>1, <2>2, <2>4
<1>8. Public(t, q, c)
  <2>1. Public(s, q, c) /\ s.masters \subseteq Lags
    BY DEF Mends, TableInv, NasState
  <2> QED BY <1>3, <1>7, <2>1 DEF Public
<1> QED BY <1>3, <1>5, <1>6, <1>8 DEF Mends

LEMMA AddMends ==
  ASSUME NEW B, NEW m, NEW q \in Seq(Event), NEW al, KernelInv(B, m, q, al),
         NEW s, TableInv(s), NEW lk, NEW lq, NEW c, Mends(s, B, m, q, lk, lq, c),
         NEW l \in Lags, l \in B, NEW t, t = MasterAdd(s, l, "none")
  PROVE  Mends(t, B, m, q, lk, lq, c)
<1>1. Intact(s)
  BY DEF Mends
<1>2. AddsMaster(s, t, l) /\ TableInv(t)
  BY <1>1, MasterAddEffect, MasterAddInv
<1>3. /\ Intact(t) /\ t.masters = s.masters \cup {l} /\ t.slave = s.slave
      /\ t.egress = s.egress /\ t.manual = s.manual
      /\ t.published = s.published /\ t.stripped = s.stripped
  BY <1>2 DEF AddsMaster
<1>4. Nearer(s, t, B, m)
  BY <1>3 DEF Nearer
<1>5. Follow(t, B, m, q)
  BY <1>4, NearerFollow DEF Mends
<1>6. Blocks(t, q, lk, lq)
  BY <1>3 DEF Mends, Blocks
<1>7. \A k \in Lags : t.ports[k] = s.ports[k]
  BY <1>1, <1>2, <1>3, SameLists
<1>8. Public(t, q, c)
  <2>1. Public(s, q, c) /\ s.masters \subseteq Lags /\ \A k \in Lags \ s.masters : s.ports[k] = {}
    BY <1>1, SlavesDecide DEF Mends, TableInv, NasState
  <2> QED BY <1>3, <1>7, <2>1 DEF Public
<1> QED BY <1>3, <1>5, <1>6, <1>8 DEF Mends

LEMMA EraseMends ==
  ASSUME NEW B, NEW m, NEW q \in Seq(Event), NEW al, KernelInv(B, m, q, al),
         NEW s, TableInv(s), NEW lk, NEW lq, NEW c, Mends(s, B, m, q, lk, lq, c),
         NEW l \in Lags, l \notin B, NEW refuse \in BOOLEAN,
         NEW t, t = MasterDelete(s, l, "none", refuse)
  PROVE  Mends(t, B, m, q, lk, lq, c)
<1> USE NasLagAssumption
<1>1. Intact(s)
  BY DEF Mends
<1>2. t = s \/ ErasesMaster(s, t, l)
  BY <1>1, MasterDeleteEffect
<1>3. CASE ErasesMaster(s, t, l)
  <2>1. /\ Intact(t) /\ t.masters = s.masters \ {l}
        /\ t.egress = s.egress /\ t.manual = s.manual /\ t.stripped = s.stripped \ {l}
        /\ \A r \in Ports : t.slave[r] = IF s.slave[r] = l THEN None ELSE s.slave[r]
        /\ \A k \in Lags : t.published[k] = IF k = l THEN {} ELSE s.published[k]
    BY <1>3 DEF ErasesMaster
  <2>2. TableInv(t)
    BY MasterDeleteInv
  <2>3. \A p \in Ports : m[p] # l
    BY DEF KernelInv
  <2>4. Nearer(s, t, B, m)
    BY <2>1, <2>3 DEF Nearer
  <2>5. Follow(t, B, m, q)
    BY <2>4, NearerFollow DEF Mends
  <2>6. Blocks(t, q, lk, lq)
    BY <2>1 DEF Mends, Blocks
  <2>7. ASSUME NEW k \in Lags, k # l PROVE t.ports[k] = s.ports[k]
    <3>1. \A r \in Ports : t.slave[r] = k <=> s.slave[r] = k
      BY <2>1, <2>7
    <3> QED BY <1>1, <2>1, <2>2, <3>1, SameLists
  <2>8. Public(t, q, c)
    <3>1. Public(s, q, c) /\ s.masters \subseteq Lags
      BY DEF Mends, TableInv, NasState
    <3> QED BY <2>1, <2>7, <3>1 DEF Public
  <2> QED BY <2>1, <2>5, <2>6, <2>8 DEF Mends
<1> QED BY <1>2, <1>3

-----------------------------------------------------------------------------
(* The invariant. *)

LEMMA InitMends == Init => FInv
<1> SUFFICES ASSUME Init PROVE FInv
  OBVIOUS
<1> USE NasLagAssumption
<1>1. /\ nas.masters = {} /\ nas.npuLags = {} /\ nas.registered = {} /\ nas.announced = {}
      /\ nas.slave = [p \in Ports |-> None] /\ nas.published = [l \in Lags |-> {}]
      /\ bonds = {} /\ allocated = {} /\ queue = <<>> /\ linkQueue = <<>>
      /\ kmaster = [p \in Ports |-> None]
  BY DEF Init
<1>2. Len(queue) = 0 /\ Len(linkQueue) = 0
  BY <1>1
<1>3. KernelInv(bonds, kmaster, queue, allocated)
  BY <1>1, <1>2 DEF KernelInv, Alternates
<1>4. Intact(nas) /\ Follow(nas, bonds, kmaster, queue)
  BY <1>1, <1>2 DEF Intact, Follow
<1>5. Blocks(nas, queue, link, linkQueue) /\ Public(nas, queue, cps)
  BY <1>1, <1>2 DEF Blocks, Public
<1> QED BY <1>3, <1>4, <1>5 DEF FInv, Mends

(* No call failed in a step after which none has. *)
LEMMA NoFault ==
  ASSUME SpentType, NEW f, spent'.faults = 0, SpendFault(f) \/ SpendRequest(f)
  PROVE  f = "none" /\ spent.faults = 0
<1>1. /\ spent \in [{"requests", "external", "link", "faults"} -> Nat]
      /\ \/ spent' = [spent EXCEPT !.faults = Faults(f)]
         \/ spent' = [spent EXCEPT !.requests = @ + 1, !.faults = Faults(f)]
  BY DEF SpentType, SpendFault, SpendRequest
<1>2. spent'.faults = spent.faults + (IF f = "none" THEN 0 ELSE 1) /\ spent.faults \in Nat
  BY <1>1 DEF Faults
<1> QED BY <1>2

LEMMA SameFaults ==
  ASSUME SpentType, SpendExternal \/ spent' = [spent EXCEPT !.link = @ + 1]
  PROVE  spent'.faults = spent.faults
BY DEF SpentType, SpendExternal

(* Other programs. *)
LEMMA OtherMends ==
  ASSUME IInv, IInv', FInv, SpendExternal, NEW a, Grows(a), UNCHANGED <<nas, links, cps>>
  PROVE  FInv'
<1>1. KernelType /\ KernelInv(bonds, kmaster, queue, allocated) /\ kmaster' \in [Ports -> MaybeLag]
  BY DEF IInv, FInv, KernelType
<1>2. KernelInv(bonds', kmaster', queue', allocated')
  BY <1>1, GrowsKernel
<1>3. spent'.faults = spent.faults
  BY SameFaults DEF IInv
<1>4. nas' = nas /\ link' = link /\ linkQueue' = linkQueue /\ cps' = cps
  BY DEF links
<1>5. ASSUME spent.faults = 0 PROVE Mends(nas, bonds', kmaster', queue', link, linkQueue, cps)
  BY <1>1, <1>5, GrowsMends DEF FInv
<1> QED BY <1>2, <1>3, <1>4, <1>5 DEF FInv

(* A request that makes a bond. *)
LEMMA CreateNewMends ==
  ASSUME IInv, IInv', FInv, NEW l \in Lags, NEW attrs, NEW f, CpsCreateNew(l, attrs, f)
  PROVE  FInv'
<1>1. /\ KernelType /\ KernelInv(bonds, kmaster, queue, allocated)
      /\ kmaster' \in [Ports -> MaybeLag] /\ queue' \in Seq(Event) /\ TableInv(nas)
  BY DEF IInv, FInv, KernelType
<1>2. /\ KernelCreate(l) /\ SpendRequest(f) /\ nas' = MasterAdd(nas, l, f)
      /\ link' = link /\ linkQueue' = linkQueue /\ cps.pc # "ports"
  BY IdleType DEF CpsCreateNew, links, SpendRequest
<1>3. PICK a : Grows(a)
  BY <1>1, <1>2, CreateGrows
<1>4. KernelInv(bonds', kmaster', queue', allocated')
  BY <1>1, <1>3, GrowsKernel
<1>5. ASSUME spent'.faults = 0
      PROVE  Mends(nas', bonds', kmaster', queue', link', linkQueue', cps')
  <2>1. f = "none" /\ spent.faults = 0
    BY <1>2, <1>5, NoFault DEF IInv
  <2>2. Mends(nas, bonds', kmaster', queue', link, linkQueue, cps)
    BY <1>1, <1>3, <2>1, GrowsMends DEF FInv
  <2>3. Mends(nas, bonds', kmaster', queue', link, linkQueue, cps) => Mends(nas', bonds', kmaster', queue', link, linkQueue, cps)
    <3>1. l \in bonds'
      BY <1>2 DEF KernelCreate
    <3>2. nas' = MasterAdd(nas, l, "none")
      BY <1>2, <2>1
    <3> QED BY <1>1, <1>4, <3>1, <3>2, AddMends
  <2>4. Public(nas', queue', cps')
    BY <1>2, <2>2, <2>3, PublicThread DEF Mends
  <2> QED BY <1>2, <2>2, <2>3, <2>4 DEF Mends
<1> QED BY <1>4, <1>5 DEF FInv

(* A request that deletes one. *)
LEMMA DeleteMends ==
  ASSUME IInv, IInv', FInv, NEW l \in Lags, NEW f, NEW refuse \in BOOLEAN, CpsDelete(l, f, refuse)
  PROVE  FInv'
<1>1. /\ KernelType /\ KernelInv(bonds, kmaster, queue, allocated)
      /\ queue' \in Seq(Event) /\ TableInv(nas)
  BY DEF IInv, FInv, KernelType
<1>2. /\ KernelDelete(l) /\ SpendRequest(f) /\ nas' = MasterDelete(nas, l, f, refuse)
      /\ link' = link /\ linkQueue' = linkQueue /\ cps' = cps
  BY DEF CpsDelete, links
<1>3. /\ \E a : Grows(a)
      /\ bonds' = bonds \ {l} /\ kmaster' \in [Ports -> MaybeLag]
  BY <1>1, <1>2, DeleteGrows
<1>4. PICK a : Grows(a)
  BY <1>3
<1>5. KernelInv(bonds', kmaster', queue', allocated')
  BY <1>1, <1>3, <1>4, GrowsKernel
<1>6. ASSUME spent'.faults = 0
      PROVE  Mends(nas', bonds', kmaster', queue', link', linkQueue', cps')
  <2>1. f = "none" /\ spent.faults = 0
    BY <1>2, <1>6, NoFault DEF IInv
  <2>2. Mends(nas, bonds', kmaster', queue', link, linkQueue, cps)
    BY <1>1, <1>4, <2>1, GrowsMends DEF FInv
  <2>3. l \notin bonds' /\ nas' = MasterDelete(nas, l, "none", refuse)
    BY <1>2, <1>3, <2>1
  <2>4. Mends(nas', bonds', kmaster', queue', link, linkQueue, cps)
    BY <1>1, <1>5, <2>2, <2>3, EraseMends
  <2> QED BY <1>2, <2>4
<1> QED BY <1>5, <1>6 DEF FInv

(* A request that only blocks ports, up to its first member. *)
LEMMA AttributesMend ==
  ASSUME IInv, FInv, NEW l \in Lags, NEW attrs, NEW f, NEW skip,
         CpsCreateKnown(l, attrs, f, skip) \/ CpsSet(l, attrs, f, skip)
  PROVE  FInv'
<1>1. /\ SpendRequest(f) /\ UNCHANGED <<kernel, links>>
      /\ nas' = nas \/ nas' = ApplyBlocks(nas, l, attrs, skip)
      /\ cps.pc # "ports"
  BY IdleType DEF CpsCreateKnown, CpsSet, SpendRequest
<1>2. /\ bonds' = bonds /\ kmaster' = kmaster /\ queue' = queue /\ allocated' = allocated
      /\ link' = link /\ linkQueue' = linkQueue
  BY <1>1 DEF kernel, links
<1>3. ASSUME spent'.faults = 0
      PROVE  Mends(nas', bonds, kmaster, queue, link, linkQueue, cps')
  <2>1. Mends(nas, bonds, kmaster, queue, link, linkQueue, cps)
    BY <1>1, <1>3, NoFault DEF IInv, FInv
  <2>2. Mends(nas, bonds, kmaster, queue, link, linkQueue, cps')
    BY <1>1, <2>1, PublicThread DEF Mends
  <2>3. PICK t : t = ApplyBlocks(nas, l, attrs, skip)
    OBVIOUS
  <2>4. /\ Intact(t) /\ t.masters = nas.masters /\ t.slave = nas.slave /\ t.ports = nas.ports
        /\ t.published = nas.published /\ t.stripped = nas.stripped
        /\ \A r \in Ports : r \in t.manual \/ (t.egress[r] = nas.egress[r] /\ r \notin nas.manual)
    BY <2>1, <2>3, ApplyBlocksEffect DEF IInv, Mends
  <2>5. Follow(t, bonds, kmaster, queue)
    BY <2>1, <2>4 DEF Mends, Follow
  <2>6. Blocks(t, queue, link, linkQueue)
    BY <2>1, <2>4, BlocksSame DEF Mends
  <2>7. Public(t, queue, cps')
    BY <2>2, <2>4 DEF Mends, Public
  <2>8. Mends(t, bonds, kmaster, queue, link, linkQueue, cps')
    BY <2>4, <2>5, <2>6, <2>7 DEF Mends
  <2> QED BY <1>1, <2>2, <2>3, <2>8
<1> QED BY <1>2, <1>3 DEF FInv

(* One more member: the kernel enslaves it, then it is added. *)
LEMMA AddPortMends ==
  ASSUME IInv, IInv', FInv, NEW p \in Ports, NEW f, CpsAddPort(p, f)
  PROVE  FInv'
<1>1. /\ KernelType /\ KernelInv(bonds, kmaster, queue, allocated)
      /\ kmaster' \in [Ports -> MaybeLag] /\ queue' \in Seq(Event) /\ TableInv(nas)
  BY DEF IInv, FInv, KernelType
<1>2. /\ cps.pc = "ports" /\ SpendFault(f) /\ link' = link /\ linkQueue' = linkQueue
      /\ cps.lag \in Lags
  BY DEF CpsAddPort, links, IInv, ThreadType
<1>3. cps' = Idle \/ cps' = [cps EXCEPT !.todo = @ \ {p}]
  BY DEF CpsAddPort
<1>4. ASSUME NEW s, NEW q, Public(s, q, cps), cps.adding PROVE Public(s, q, cps')
  <2>1. cps'.pc = "ports" => cps'.adding
    BY <1>3, <1>4, IdleType DEF IInv, ThreadType, CpsState
  <2> QED BY <1>4, <2>1 DEF Public
<1>5. cps.adding
  BY DEF CpsAddPort
<1>6. CASE UNCHANGED <<nas, kernel>>
  <2>1. /\ nas' = nas /\ bonds' = bonds /\ kmaster' = kmaster /\ queue' = queue
        /\ allocated' = allocated
    BY <1>6 DEF kernel
  <2>2. ASSUME spent'.faults = 0 PROVE Mends(nas, bonds, kmaster, queue, link, linkQueue, cps')
    <3>1. Mends(nas, bonds, kmaster, queue, link, linkQueue, cps)
      BY <1>2, <2>2, NoFault DEF IInv, FInv
    <3> QED BY <1>4, <1>5, <3>1 DEF Mends
  <2> QED BY <1>2, <2>1, <2>2 DEF FInv
<1>7. CASE KernelEnslave(cps.lag, p) /\ nas' = MemberAdd(nas, cps.lag, p, f)
  <2>1. /\ \E a : Grows(a)
        /\ cps.lag \in bonds /\ bonds' = bonds /\ kmaster' = [kmaster EXCEPT ![p] = cps.lag]
    BY <1>1, <1>2, <1>7, EnslaveGrows
  <2>2. PICK a : Grows(a)
    BY <2>1
  <2>3. KernelInv(bonds', kmaster', queue', allocated')
    BY <1>1, <2>2, GrowsKernel
  <2>4. ASSUME spent'.faults = 0
        PROVE  Mends(nas', bonds', kmaster', queue', link', linkQueue', cps')
    <3>1. f = "none" /\ spent.faults = 0
      BY <1>2, <2>4, NoFault DEF IInv
    <3>2. Mends(nas, bonds', kmaster', queue', link, linkQueue, cps)
      BY <1>1, <2>2, <3>1, GrowsMends DEF FInv
    <3>3. cps.lag \in bonds' /\ kmaster'[p] = cps.lag
      BY <1>1, <2>1 DEF KernelType
    <3>4. nas' = MemberAdd(nas, cps.lag, p, "none")
      BY <1>7, <3>1
    <3>5. Mends(nas', bonds', kmaster', queue', link, linkQueue, cps)
      BY <1>1, <1>2, <2>3, <3>2, <3>3, <3>4, JoinMends
    <3> QED BY <1>2, <1>4, <1>5, <3>5 DEF Mends
  <2> QED BY <2>3, <2>4 DEF FInv
<1> QED BY <1>6, <1>7 DEF CpsAddPort

(* One member less: it is removed, then the kernel releases it. *)
LEMMA DeletePortMends ==
  ASSUME IInv, IInv', FInv, NEW p \in Ports, NEW f, CpsDeletePort(p, f)
  PROVE  FInv'
<1> USE NasLagAssumption
<1>1. /\ KernelType /\ KernelInv(bonds, kmaster, queue, allocated)
      /\ kmaster' \in [Ports -> MaybeLag] /\ queue' \in Seq(Event) /\ TableInv(nas)
  BY DEF IInv, FInv, KernelType
<1>2. /\ cps.pc = "ports" /\ SpendFault(f) /\ link' = link /\ linkQueue' = linkQueue
      /\ cps.lag \in Lags /\ ~cps.adding /\ p \in nas.ports[cps.lag]
      /\ nas' = MemberDelete(nas, p, f)
  BY DEF CpsDeletePort, links, IInv, ThreadType
<1>3. CASE MemberDeleteOk(nas, p, f) /\ f # "kernel"
  <2>1. KernelRelease(p) /\ cps' = [cps EXCEPT !.todo = @ \ {p}]
    BY <1>3 DEF CpsDeletePort
  <2>2. PICK a : Grows(a)
    BY <1>1, <2>1, ReleaseGrows
  <2>3. KernelInv(bonds', kmaster', queue', allocated')
    BY <1>1, <2>2, GrowsKernel
  <2>4. ASSUME spent'.faults = 0
        PROVE  Mends(nas', bonds', kmaster', queue', link', linkQueue', cps')
    <3>1. f = "none" /\ spent.faults = 0
      BY <1>2, <2>4, NoFault DEF IInv
    <3>2. Mends(nas, bonds', kmaster', queue', link, linkQueue, cps)
      BY <1>1, <2>2, <3>1, GrowsMends DEF FInv
    <3>3. kmaster'[p] = None
      BY <1>1, <2>1 DEF KernelType, KernelRelease
    <3>4. cps.lag = nas.slave[p] /\ nas' = MemberDelete(nas, p, "none")
      BY <1>1, <1>2, <3>1, <3>2, SlavesDecide DEF Mends
    <3>5. Mends(nas', bonds', kmaster', queue', link, linkQueue, cps)
      BY <1>1, <1>2, <2>3, <3>2, <3>3, <3>4, LeaveMends
    <3>6. cps'.pc = cps.pc /\ cps'.lag = cps.lag /\ cps'.adding = cps.adding
      BY <2>1 DEF IInv, ThreadType, CpsState
    <3> QED BY <1>2, <3>5, <3>6, PublicThread DEF Mends
  <2> QED BY <2>3, <2>4 DEF FInv
<1>4. CASE ~(MemberDeleteOk(nas, p, f) /\ f # "kernel")
  <2>1. UNCHANGED kernel
    BY <1>4 DEF CpsDeletePort
  <2>2. spent'.faults # 0
    <3> SUFFICES ASSUME spent'.faults = 0 PROVE FALSE
      OBVIOUS
    <3>1. f = "none" /\ spent.faults = 0
      BY <1>2, NoFault DEF IInv
    <3>2. Intact(nas)
      BY <3>1 DEF FInv, Mends
    <3>3. nas.slave[p] # None
      BY <1>1, <1>2, <3>2, SlavesDecide
    <3>4. MemberDeleteOk(nas, p, "none")
      BY <1>1, <3>2, <3>3, MemberDeleteEffect
    <3> QED BY <1>4, <3>1, <3>4
  <2>3. KernelInv(bonds', kmaster', queue', allocated')
    BY <1>1, <2>1 DEF kernel
  <2> QED BY <2>2, <2>3 DEF FInv
<1> QED BY <1>3, <1>4

(* The end of a request. *)
LEMMA FinishMends ==
  ASSUME IInv, FInv, NEW f, CpsFinish(f)
  PROVE  FInv'
<1>1. /\ cps.pc = "ports" /\ cps.lag \in Lags /\ SpendFault(f) /\ cps' = Idle
      /\ nas' = Publish(nas, cps.lag, f)
      /\ bonds' = bonds /\ kmaster' = kmaster /\ queue' = queue /\ allocated' = allocated
      /\ link' = link /\ linkQueue' = linkQueue
  BY DEF CpsFinish, kernel, links, IInv, ThreadType
<1>2. ASSUME spent'.faults = 0
      PROVE  Mends(nas', bonds, kmaster, queue, link, linkQueue, Idle)
  <2>1. f = "none" /\ Mends(nas, bonds, kmaster, queue, link, linkQueue, cps) /\ TableInv(nas)
    BY <1>1, <1>2, NoFault DEF IInv, FInv
  <2>2. PICK t : t = nas'
    OBVIOUS
  <2>3. PICK l \in Lags : l = cps.lag
    BY <1>1
  <2>4. Publishes(nas, t, l)
    <3>1. t = Publish(nas, l, "none")
      BY <1>1, <2>1, <2>2, <2>3
    <3> QED BY <2>1, <3>1, PublishEffect DEF Mends
  <2>5. /\ Intact(t) /\ t.masters = nas.masters /\ t.slave = nas.slave /\ t.ports = nas.ports
        /\ t.egress = nas.egress /\ t.manual = nas.manual
        /\ \A k \in Lags : t.published[k] = IF k = l /\ l \in nas.masters
                                            THEN nas.ports[k] ELSE nas.published[k]
        /\ t.stripped = IF l \in nas.masters THEN nas.stripped \ {l} ELSE nas.stripped
    BY <2>4 DEF Publishes
  <2>6. Follow(t, bonds, kmaster, queue)
    BY <2>1, <2>5 DEF Mends, Follow
  <2>7. Blocks(t, queue, link, linkQueue)
    BY <2>1, <2>5 DEF Mends, Blocks
  <2>8. Public(t, queue, Idle)
    <3>1. Public(nas, queue, cps) /\ nas.masters \subseteq Lags
      BY <2>1 DEF Mends, TableInv, NasState
    <3> QED BY <2>3, <2>5, <3>1 DEF Public
  <2> QED BY <2>2, <2>5, <2>6, <2>7, <2>8 DEF Mends
<1> QED BY <1>1, <1>2 DEF FInv

(* An event of the kernel. *)
LEMMA LagEventMends ==
  ASSUME IInv, FInv, NEW f, NEW refuse \in BOOLEAN, LagEvent(f, refuse)
  PROVE  FInv'
<1> USE NasLagAssumption
<1>1. /\ queue # <<>> /\ queue \in Seq(Event) /\ SpendFault(f) /\ cps.pc # "ports"
      /\ nas' = Handle(nas, Head(queue), f, refuse) /\ queue' = Tail(queue)
      /\ bonds' = bonds /\ kmaster' = kmaster /\ allocated' = allocated
      /\ link' = link /\ linkQueue' = linkQueue /\ cps' = cps
      /\ KernelInv(bonds, kmaster, queue, allocated)
      /\ TableInv(nas) /\ link \in [Ports -> BOOLEAN]
  BY IdleType DEF LagEvent, links, IInv, KernelType, ThreadType, FInv
<1>2. KernelInv(bonds, kmaster, Tail(queue), allocated)
  BY <1>1, TakesKernel
<1>3. ASSUME spent'.faults = 0
      PROVE  Mends(nas', bonds, kmaster, Tail(queue), link, linkQueue, cps)
  <2>1. f = "none" /\ Mends(nas, bonds, kmaster, queue, link, linkQueue, cps)
    BY <1>1, <1>3, NoFault DEF IInv, FInv
  <2>2. PICK h : h = Head(queue)
    OBVIOUS
  <2>3. h \in Event /\ h = queue[1] /\ 1 \in 1..Len(queue)
    BY <1>1, <2>2, Dropped DEF Drop
  <2>4. PICK t : t = nas'
    OBVIOUS
  <2>5. CASE h.op = "create"
    <3>1. t = OnCreate(nas, h, "none")
      BY <1>1, <2>1, <2>2, <2>4, <2>5 DEF Handle
    <3>2. Shows(nas, t, h)
      BY <1>1, <2>1, <2>3, <2>5, <3>1, OnCreateEffect DEF Mends
    <3> QED BY <1>1, <2>1, <2>2, <2>4, <3>2, HandledFollow, ShowsBlocks, ShowsPublic
            DEF Mends, Shows
  <2>6. CASE h.op = "delete"
    <3>1. t = OnDelete(nas, h, "none", refuse)
      BY <1>1, <2>1, <2>2, <2>4, <2>6 DEF Handle
    <3>2. ASSUME h.port = None, NEW p \in Ports PROVE nas.slave[p] # h.lag
      <4>1. queue[1] = Delete(h.lag, None)
        BY <2>3, <2>6, <3>2 DEF Event, Delete
      <4>2. ~ \E i \in 1..(1 - 1) : TRUE
        OBVIOUS
      <4>3. Follow(nas, bonds, kmaster, queue)
        BY <2>1 DEF Mends
      <4>4. queue[1] = Delete(nas.slave[p], None) =>
              \E i \in 1..(1 - 1) : queue[i].port = p /\ queue[i].op = "delete"
        BY <2>3, <4>3 DEF Follow
      <4> QED BY <4>1, <4>2, <4>4
    <3>3. Shows(nas, t, h)
      BY <1>1, <2>1, <2>3, <2>6, <3>1, <3>2, OnDeleteEffect DEF Mends
    <3> QED BY <1>1, <2>1, <2>2, <2>4, <3>3, HandledFollow, ShowsBlocks, ShowsPublic
            DEF Mends, Shows
  <2> QED BY <2>3, <2>5, <2>6 DEF Event
<1> QED BY <1>1, <1>2, <1>3 DEF FInv

(* A link report sets the block state; the last one about a port is true. *)
LEMMA LinkEventMends ==
  ASSUME IInv, FInv, NEW f, LinkEvent(f)
  PROVE  FInv'
<1> USE NasLagAssumption
<1>1. /\ linkQueue # <<>> /\ linkQueue \in Seq(LinkReport) /\ SpendFault(f)
      /\ bonds' = bonds /\ kmaster' = kmaster /\ allocated' = allocated /\ queue' = queue
      /\ link' = link /\ linkQueue' = Tail(linkQueue) /\ cps' = cps
      /\ TableInv(nas) /\ KernelInv(bonds, kmaster, queue, allocated)
  BY DEF LinkEvent, kernel, IInv, ThreadType, FInv
<1>2. PICK r : r = Tail(linkQueue)
  OBVIOUS
<1>3. PICK c : c = Head(linkQueue)
  OBVIOUS
<1>4. /\ c \in LinkReport /\ c = linkQueue[1] /\ Len(r) = Len(linkQueue) - 1
      /\ Len(linkQueue) \in Nat \ {0} /\ \A i \in 1..Len(r) : r[i] = linkQueue[i + 1]
  BY <1>1, <1>2, <1>3, HeadTailProperties, LenProperties
<1>5. PICK p \in Ports : p = c.port
  BY <1>4 DEF LinkReport
<1>6. c.up \in BOOLEAN
  BY <1>4 DEF LinkReport
<1>7. nas' = IF nas.slave[p] \in nas.masters
             THEN BlockByLink(nas, nas.slave[p], p, c.up, f) ELSE nas
  BY <1>3, <1>5 DEF LinkEvent
<1>8. ASSUME NEW i \in 1..Len(linkQueue), NEW x, \E k \in (i + 1)..Len(linkQueue) : linkQueue[k].port = x
      PROVE  \E k \in i..Len(r) : r[k].port = x
  <2>1. PICK k \in (i + 1)..Len(linkQueue) : linkQueue[k].port = x
    BY <1>8
  <2>2. k - 1 \in i..Len(r) /\ k - 1 \in 1..Len(r) /\ (k - 1) + 1 = k
    BY <1>4
  <2>3. r[k - 1] = linkQueue[k]
    BY <1>4, <2>2
  <2> QED BY <2>1, <2>2, <2>3
<1>9. ASSUME spent'.faults = 0
      PROVE  Mends(nas', bonds, kmaster, queue, link, r, cps)
  <2>1. f = "none" /\ Mends(nas, bonds, kmaster, queue, link, linkQueue, cps)
    BY <1>1, <1>9, NoFault DEF IInv, FInv
  <2>2. ASSUME NEW x \in Ports, NEW i \in 1..Len(r), r[i].port = x
        PROVE  r[i].up = link[x] \/ \E k \in (i + 1)..Len(r) : r[k].port = x
    <3>1. i + 1 \in 1..Len(linkQueue) /\ r[i] = linkQueue[i + 1]
      BY <1>4
    <3>2. \/ linkQueue[i + 1].up = link[x]
          \/ \E k \in ((i + 1) + 1)..Len(linkQueue) : linkQueue[k].port = x
      BY <2>1, <2>2, <3>1 DEF Mends, Blocks
    <3> QED BY <1>8, <3>1, <3>2
  <2>3. c.up = link[p] \/ About(r, p)
    <3>1. 1 \in 1..Len(linkQueue) /\ linkQueue[1].port = p
      BY <1>4, <1>5
    <3>2. \/ linkQueue[1].up = link[p]
          \/ \E k \in (1 + 1)..Len(linkQueue) : linkQueue[k].port = p
      BY <2>1, <3>1 DEF Mends, Blocks
    <3>3. linkQueue[1].up # link[p] => \E k \in 1..Len(r) : r[k].port = p
      BY <1>8, <3>1, <3>2
    <3> QED BY <1>4, <3>3 DEF About
  <2>4. ASSUME NEW x \in Ports, x # p, About(linkQueue, x) PROVE About(r, x)
    <3>1. PICK i \in 1..Len(linkQueue) : linkQueue[i].port = x
      BY <2>4 DEF About
    <3>2. i # 1
      BY <1>4, <1>5, <2>4, <3>1
    <3>3. i - 1 \in 1..Len(r) /\ (i - 1) + 1 = i
      BY <1>4, <3>2
    <3>4. r[i - 1] = linkQueue[i]
      BY <1>4, <3>3
    <3> QED BY <3>1, <3>3, <3>4 DEF About
  <2>5. PICK t : t = nas'
    OBVIOUS
  <2>6. CASE nas.slave[p] \in nas.masters
    <3>1. PICK l \in nas.masters : l = nas.slave[p]
      BY <2>6
    <3>2. t = BlockByLink(nas, l, p, c.up, "none")
      BY <1>7, <2>1, <2>5, <2>6, <3>1
    <3>3. /\ Intact(t) /\ t.masters = nas.masters /\ t.slave = nas.slave /\ t.ports = nas.ports
          /\ t.published = nas.published /\ t.stripped = nas.stripped
          /\ t.egress[p] = ~c.up /\ p \notin t.manual
          /\ \A x \in Ports \ {p} : /\ t.egress[x] = nas.egress[x]
                                    /\ x \in t.manual <=> x \in nas.manual
      BY <1>1, <1>6, <2>1, <3>1, <3>2, BlockByLinkEffect DEF Mends
    <3>4. Follow(t, bonds, kmaster, queue)
      BY <2>1, <3>3 DEF Mends, Follow
    <3>5. Public(t, queue, cps)
      BY <2>1, <3>3 DEF Mends, Public
    <3>6. ASSUME NEW x \in Ports, x \notin t.manual, t.slave[x] # None, t.egress[x] # ~link[x]
          PROVE  About(r, x) \/ Has(queue, Create(t.slave[x], x))
      <4>1. CASE x = p
        BY <2>3, <3>3, <3>6, <4>1
      <4>2. CASE x # p
        BY <2>1, <2>4, <3>3, <3>6, <4>2 DEF Mends, Blocks
      <4> QED BY <4>1, <4>2
    <3>7. Blocks(t, queue, link, r)
      BY <2>2, <3>6 DEF Blocks
    <3> QED BY <2>5, <3>3, <3>4, <3>5, <3>7 DEF Mends
  <2>7. CASE nas.slave[p] \notin nas.masters
    <3>1. nas' = nas /\ nas.slave[p] = None
      BY <1>1, <1>7, <2>1, <2>7, SlavesDecide DEF Mends
    <3>2. Blocks(nas, queue, link, r)
      <4> SUFFICES ASSUME NEW x \in Ports, x \notin nas.manual, nas.slave[x] # None,
                          nas.egress[x] # ~link[x]
                   PROVE  About(r, x) \/ Has(queue, Create(nas.slave[x], x))
        BY <2>2 DEF Blocks
      <4> QED BY <2>1, <2>4, <3>1 DEF Mends, Blocks
    <3> QED BY <2>1, <3>1, <3>2 DEF Mends
  <2> QED BY <2>6, <2>7
<1> QED BY <1>1, <1>2, <1>9 DEF FInv

(* A cable: the change is reported behind the reports that are pending. *)
LEMMA LinkChangeMends ==
  ASSUME IInv, FInv, NEW p \in Ports, LinkChange(p)
  PROVE  FInv'
<1>1. /\ linkQueue \in Seq(LinkReport) /\ link \in [Ports -> BOOLEAN]
      /\ spent' = [spent EXCEPT !.link = @ + 1]
      /\ link' = [link EXCEPT ![p] = ~@]
      /\ linkQueue' = Append(linkQueue, [port |-> p, up |-> ~link[p]])
      /\ bonds' = bonds /\ kmaster' = kmaster /\ allocated' = allocated /\ queue' = queue
      /\ nas' = nas /\ cps' = cps /\ SpentType
  BY DEF LinkChange, kernel, IInv, ThreadType
<1>2. spent'.faults = spent.faults
  BY <1>1, SameFaults
<1>3. PICK c : c = [port |-> p, up |-> ~link[p]]
  OBVIOUS
<1>4. PICK q : q = linkQueue'
  OBVIOUS
<1>5. c \in LinkReport
  BY <1>1, <1>3 DEF LinkReport
<1>6. /\ Len(linkQueue) \in Nat /\ Len(q) = Len(linkQueue) + 1 /\ q[Len(linkQueue) + 1] = c
      /\ \A i \in 1..Len(linkQueue) : q[i] = linkQueue[i]
  BY <1>1, <1>3, <1>4, <1>5, AppendProperties, LenProperties
<1>7. \A x \in Ports : link'[x] = IF x = p THEN ~link[p] ELSE link[x]
  BY <1>1
<1>8. ASSUME Mends(nas, bonds, kmaster, queue, link, linkQueue, cps)
      PROVE  Blocks(nas, queue, link', q)
  <2>1. ASSUME NEW x \in Ports, x \notin nas.manual, nas.slave[x] # None, nas.egress[x] # ~link'[x]
        PROVE  About(q, x) \/ Has(queue, Create(nas.slave[x], x))
    <3>1. CASE x = p
      <4>1. Len(linkQueue) + 1 \in 1..Len(q) /\ q[Len(linkQueue) + 1].port = x
        BY <1>3, <1>6, <3>1
      <4> QED BY <4>1 DEF About
    <3>2. CASE x # p
      <4>1. About(linkQueue, x) \/ Has(queue, Create(nas.slave[x], x))
        BY <1>7, <1>8, <2>1, <3>2 DEF Mends, Blocks
      <4>2. About(linkQueue, x) => About(q, x)
        BY <1>6 DEF About
      <4> QED BY <4>1, <4>2
    <3> QED BY <3>1, <3>2
  <2>2. ASSUME NEW x \in Ports, NEW i \in 1..Len(q), q[i].port = x
        PROVE  q[i].up = link'[x] \/ \E k \in (i + 1)..Len(q) : q[k].port = x
    <3>1. CASE i = Len(linkQueue) + 1
      BY <1>3, <1>6, <1>7, <2>2, <3>1
    <3>2. CASE i # Len(linkQueue) + 1 /\ x = p
      <4>1. Len(linkQueue) + 1 \in (i + 1)..Len(q) /\ q[Len(linkQueue) + 1].port = x
        BY <1>3, <1>6, <3>2
      <4> QED BY <4>1
    <3>3. CASE i # Len(linkQueue) + 1 /\ x # p
      <4>1. i \in 1..Len(linkQueue) /\ q[i] = linkQueue[i]
        BY <1>6, <3>3
      <4>2. \/ linkQueue[i].up = link[x]
            \/ \E k \in (i + 1)..Len(linkQueue) : linkQueue[k].port = x
        BY <1>8, <2>2, <4>1 DEF Mends, Blocks
      <4>3. ASSUME NEW k \in (i + 1)..Len(linkQueue)
            PROVE  k \in (i + 1)..Len(q) /\ q[k] = linkQueue[k]
        BY <1>6, <4>1
      <4> QED BY <1>7, <3>3, <4>1, <4>2, <4>3
    <3> QED BY <3>1, <3>2, <3>3
  <2> QED BY <2>1, <2>2 DEF Blocks
<1>9. spent'.faults = 0 => Mends(nas, bonds, kmaster, queue, link', q, cps)
  BY <1>2, <1>8 DEF FInv, Mends
<1> QED BY <1>1, <1>4, <1>9 DEF FInv

LEMMA NextMends == IInv /\ IInv' /\ FInv /\ [Next]_vars => FInv'
<1> SUFFICES ASSUME IInv, IInv', FInv, [Next]_vars PROVE FInv'
  OBVIOUS
<1>1. CASE Request
  BY <1>1, AttributesMend, CreateNewMends, DeleteMends DEF Request
<1>2. CASE Serve
  BY <1>2, AddPortMends, DeletePortMends, FinishMends DEF Serve
<1>3. CASE EventThread
  BY <1>3, LagEventMends DEF EventThread
<1>4. CASE CallbackThread
  BY <1>4, LinkEventMends DEF CallbackThread
<1>5. CASE Other
  <2>1. CASE \E l \in Lags : OtherCreate(l) \/ OtherDelete(l)
    <3>1. PICK l \in Lags : OtherCreate(l) \/ OtherDelete(l)
      BY <2>1
    <3>2. \E a : Grows(a)
      BY <3>1, CreateGrows, DeleteGrows DEF OtherCreate, OtherDelete, IInv, FInv
    <3> QED BY <3>1, <3>2, OtherMends DEF OtherCreate, OtherDelete
  <2>2. CASE \E l \in Lags, p \in Ports : OtherEnslave(l, p)
    <3>1. PICK l \in Lags, p \in Ports : OtherEnslave(l, p)
      BY <2>2
    <3>2. \E a : Grows(a)
      BY <3>1, EnslaveGrows DEF OtherEnslave, IInv, FInv
    <3> QED BY <3>1, <3>2, OtherMends DEF OtherEnslave
  <2>3. CASE \E p \in Ports : OtherRelease(p)
    <3>1. PICK p \in Ports : OtherRelease(p)
      BY <2>3
    <3>2. \E a : Grows(a)
      BY <3>1, ReleaseGrows DEF OtherRelease, IInv, FInv
    <3> QED BY <3>1, <3>2, OtherMends DEF OtherRelease
  <2>4. CASE \E p \in Ports : LinkChange(p)
    BY <2>4, LinkChangeMends
  <2> QED BY <1>5, <2>1, <2>2, <2>3, <2>4 DEF Other
<1>6. CASE UNCHANGED vars
  BY <1>6 DEF vars, FInv
<1> QED BY <1>1, <1>2, <1>3, <1>4, <1>5, <1>6 DEF Next

(* In every reachable state each difference has what will mend it. *)
THEOREM Mending == Spec => []FInv
BY Invariance, InitMends, NextMends, PTL DEF Spec

-----------------------------------------------------------------------------
(* What is left when everything was handled. *)

LEMMA NothingPending ==
  ASSUME IInv, FInv, Settled, spent.faults = 0
  PROVE  /\ Mends(nas, bonds, kmaster, queue, link, linkQueue, cps)
         /\ Len(queue) = 0 /\ cps.pc # "ports"
BY IdleType DEF FInv, Settled

(* nas_lag_ev_handler and the CPS handlers: once the kernel's events are     *)
(* handled, and no call failed, the LAGs and their members are the kernel's, *)
(* for any interleaving of requests, events and other programs.              *)
THEOREM KernelFollowed == Spec => []FollowsKernel
<1>1. ASSUME IInv, FInv PROVE FollowsKernel
  <2> SUFFICES ASSUME Settled, spent.faults = 0
               PROVE  nas.masters = bonds /\ nas.registered = bonds /\ nas.slave = kmaster
    BY DEF FollowsKernel
  <2>1. /\ Intact(nas) /\ Follow(nas, bonds, kmaster, queue) /\ Len(queue) = 0
    BY <1>1, NothingPending DEF Mends
  <2>2. \A p \in Ports : nas.slave[p] = kmaster[p]
    BY <2>1 DEF Follow, About
  <2>3. nas.slave \in [Ports -> MaybeLag] /\ kmaster \in [Ports -> MaybeLag]
    BY <1>1 DEF IInv, TableInv, NasState, KernelType
  <2>4. nas.masters = bonds
    <3>1. \A e : ~Has(queue, e)
      BY <2>1 DEF Has
    <3> QED BY <2>1, <3>1 DEF Follow
  <2> QED BY <2>1, <2>2, <2>3, <2>4 DEF Intact
<1> QED BY <1>1, Invariance, Mending, PTL

(* lag_object_publish: every member is in the list last published for its    *)
(* LAG, and a port that left is not, unless the event of another LAG took it *)
(* out.                                                                      *)
THEOREM ListsPublished == Spec => []PublishedIsCurrent
<1>1. ASSUME IInv, FInv PROVE PublishedIsCurrent
  <2> SUFFICES ASSUME Settled, spent.faults = 0
               PROVE  /\ nas.announced = nas.masters
                      /\ \A l \in nas.masters :
                           /\ nas.ports[l] \subseteq nas.published[l]
                           /\ l \notin nas.stripped => nas.published[l] = nas.ports[l]
    BY DEF PublishedIsCurrent
  <2>1. /\ Intact(nas) /\ Public(nas, queue, cps) /\ Len(queue) = 0 /\ cps.pc # "ports"
    BY <1>1, NothingPending DEF Mends
  <2>2. \A l \in nas.masters : nas.ports[l] \subseteq nas.published[l]
    BY <2>1 DEF Public, Has
  <2>3. \A l \in nas.masters : l \notin nas.stripped => nas.published[l] \subseteq nas.ports[l]
    BY <2>1 DEF Public
  <2> QED BY <2>1, <2>2, <2>3 DEF Intact
<1> QED BY <1>1, Invariance, Mending, PTL

(* nas_lag_port_oper_state_cb and the member handlers: no order of link      *)
(* reports, member events and requests leaves a stale block state.           *)
THEOREM NoStaleBlock == Spec => []BlockFollowsLink
<1>1. ASSUME IInv, FInv PROVE BlockFollowsLink
  <2> SUFFICES ASSUME Settled, linkQueue = <<>>, spent.faults = 0,
                      NEW p \in Ports, nas.slave[p] # None, p \notin nas.manual
               PROVE  nas.egress[p] = ~link[p]
    BY DEF BlockFollowsLink
  <2>1. Blocks(nas, queue, link, linkQueue) /\ Len(queue) = 0 /\ Len(linkQueue) = 0
    BY <1>1, NothingPending DEF Mends
  <2> QED BY <2>1 DEF Blocks, About, Has
<1> QED BY <1>1, Invariance, Mending, PTL

=============================================================================
