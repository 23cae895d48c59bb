------------------------- MODULE NasPortAttrProofs --------------------------
(***************************************************************************)
(* Proofs about NasPortAttr, for any MTUs and values, any lists of         *)
(* requests, any settings the NPU may refuse and any bounds, with any      *)
(* calls failing: types, and that the kernel and the NPU come to agree.    *)
(***************************************************************************)
EXTENDS NasPortAttr, SequenceTheorems, FiniteSetTheorems, TLAPS

Copied == {"enabled", "mtu"}

(* Where the CPS thread is: the attribute it is at, and the interface,      *)
(* which is registered except between its creation and its registration.    *)
CpsInv ==
  /\ cps.pc \in {"npu", "revert"} => cps.todo # <<>> /\ Now.attr \in Copied
  /\ cps.pc = "kernel" => cps.todo # <<>> /\ Now.attr = "learn"
  /\ cps.pc = "announce" => cps.todo # <<>> /\ Now.attr = "enabled"
  /\ cps.pc \notin {"idle", "down"} => kernel.ifindex # 0
  /\ cps.pc = "down" => kernel.ifindex = 0
  /\ known = IF cps.pc = "register" THEN 0 ELSE kernel.ifindex
  /\ kernel.ifindex \in {0, spent.creates} /\ spent.creates \in 0..MaxCreates

Fresh(r, k) == r.enabled = k.enabled /\ r.mtu = k.mtu
Current(q, k) == \A i \in 1..Len(q) : q[i].ifindex = k.ifindex
EndsCurrent(q, k) == q # <<>> /\ q[Len(q)].ifindex = k.ifindex

(* The reports of the present interface come last, and the last of them is  *)
(* of what the kernel has.                                                  *)
Arrivals(q, k, n) ==
  /\ \A i \in 1..Len(q) : q[i].ifindex <= n
  /\ \A i, j \in 1..Len(q) : i < j /\ q[i].ifindex = k.ifindex => q[j].ifindex = k.ifindex
  /\ EndsCurrent(q, k) => Fresh(q[Len(q)], k)

(* A report of the present interface is being handled. *)
Busy == event.pc # "idle" /\ event.e.ifindex = kernel.ifindex

EventInv ==
  /\ event.pc # "idle" => event.e \in Report /\ event.e.ifindex <= spent.creates
  /\ Arrivals(queue, kernel, spent.creates)
  /\ Busy => Current(queue, kernel) /\ (queue = <<>> => Fresh(event.e, kernel))

ShapeInv == TypeOK /\ CpsInv /\ EventInv

(* What will still make an attribute of the NPU the kernel's: a report of   *)
(* the kernel's value on its way or being handled, the MTU to be put back,  *)
(* the port to be shut down.                                                *)
Before(a) == IF a = "enabled" THEN {"admin", "set"} ELSE {"admin", "set", "announce", "mtu"}

Awaited(a) ==
  \/ EndsCurrent(queue, kernel)
  \/ Busy /\ event.pc \in Before(a)
  \/ Busy /\ event.pc = "revert" /\ a = "mtu" /\ npu.mtu = event.back
  \/ cps.pc = "down" /\ a = "enabled"

Accounted == \A a \in Copied \ history.apart : InKernel(a, npu[a]) \/ Awaited(a)

IInv == ShapeInv /\ Accounted
-----------------------------------------------------------------------------
(* Settings and requests. *)

LEMMA SettingFacts ==
  ASSUME NEW s \in Setting
  PROVE  /\ s.attr \in Attributes
         /\ s.attr = "enabled" => s.val \in BOOLEAN
         /\ s.attr = "mtu" => s.val \in Mtus
         /\ s.attr \in Attributes \ Copied => s.val \in Values
BY DEF Setting, Attributes, ValueOf, Copied

LEMMA NowFacts ==
  ASSUME TypeOK, cps.todo # <<>>
  PROVE  Now \in Setting /\ Tail(cps.todo) \in Seq(Setting)
BY HeadTailProperties DEF TypeOK, Cps, Now

LEMMA IdleType ==
  /\ Idle \in Cps /\ Idle.pc = "idle"
  /\ cps \in Cps => \A ok \in BOOLEAN : Answer(ok) \in Cps /\ Answer(ok).pc = "idle"
<1>1. <<>> \in Seq(Setting) /\ DefaultMtu \in Mtus
  BY NasPortAttrAssumption
<1> QED BY <1>1 DEF Idle, Answer, Cps

LEMMA KeptType ==
  ASSUME NEW list \in Seq(Setting), NEW rest \in Kept(list)
  PROVE  rest \in Seq(Setting)
<1> DEFINE K == {i \in DOMAIN list : ~Same(list[i])}
           n == Cardinality(K)
<1>1. PICK q \in [1..n -> K] : rest = [i \in 1..n |-> list[q[i]]]
  BY DEF Kept
<1>2. DOMAIN list = 1..Len(list) /\ IsFiniteSet(1..Len(list))
  BY FS_Interval
<1>3. n \in Nat
  BY <1>2, FS_Subset, FS_CardinalityType
<1>4. \A x \in K : list[x] \in Setting
  OBVIOUS
<1> HIDE DEF K, n
<1>5. rest \in [1..n -> Setting]
  BY <1>1, <1>4
<1> QED BY <1>3, <1>5, SeqDef

Spending == [{"sets", "creates", "external", "faults"} -> Nat]

LEMMA SpendType ==
  ASSUME TypeOK, NEW f, SpendFault(f)
  PROVE  spent' \in Spending /\ spent'.creates = spent.creates
<1> DEFINE n == Faults(f)
<1>1. spent \in Spending
  BY DEF TypeOK, Spending
<1>2. n \in Nat /\ spent' = [spent EXCEPT !.faults = n]
  BY <1>1 DEF Faults, SpendFault, Spending
<1> HIDE DEF n
<1> QED BY <1>1, <1>2 DEF Spending
-----------------------------------------------------------------------------
(* Reports. *)

LEMMA ReportAdded ==
  ASSUME NEW q \in Seq(Report), NEW k \in Kernel, NEW n \in Nat, NEW r \in Report,
         r.ifindex = k.ifindex, k.ifindex <= n, Fresh(r, k),
         NEW k0 \in Kernel, Arrivals(q, k0, n),
         k0.ifindex = k.ifindex \/ \A i \in 1..Len(q) : q[i].ifindex # k.ifindex,
         NEW t, t = Append(q, r)
  PROVE  /\ t \in Seq(Report) /\ t # <<>> /\ Arrivals(t, k, n) /\ EndsCurrent(t, k)
         /\ Current(q, k) => Current(t, k)
<1>1. /\ t \in Seq(Report) /\ Len(t) = Len(q) + 1 /\ t[Len(t)] = r /\ Len(q) \in Nat
      /\ \A i \in 1..Len(q) : t[i] = q[i]
  BY AppendProperties
<1>2. EndsCurrent(t, k) /\ t # <<>>
  BY <1>1 DEF EndsCurrent
<1>3. \A i \in 1..Len(t) : i \in 1..Len(q) \/ i = Len(t)
  BY <1>1
<1>4. ASSUME NEW i \in 1..Len(t) PROVE t[i].ifindex <= n
  BY <1>1, <1>3 DEF Arrivals
<1>5. ASSUME NEW i \in 1..Len(t), NEW j \in 1..Len(t), i < j, t[i].ifindex = k.ifindex
      PROVE  t[j].ifindex = k.ifindex
  BY <1>1, <1>3, <1>5 DEF Arrivals
<1>6. Fresh(t[Len(t)], k)
  BY <1>1
<1>7. Current(q, k) => Current(t, k)
  BY <1>1, <1>3 DEF Current
<1> QED BY <1>1, <1>2, <1>4, <1>5, <1>6, <1>7 DEF Arrivals

LEMMA ReportTaken ==
  ASSUME NEW q \in Seq(Report), q # <<>>, NEW k \in Kernel, NEW n \in Nat, Arrivals(q, k, n),
         NEW t, t = Tail(q), NEW e, e = Head(q)
  PROVE  /\ t \in Seq(Report) /\ Arrivals(t, k, n)
         /\ e \in Report /\ e.ifindex <= n
         /\ e.ifindex = k.ifindex => Current(t, k) /\ (t = <<>> => Fresh(e, k))
         /\ e.ifindex # k.ifindex /\ EndsCurrent(q, k) => EndsCurrent(t, k)
<1>1. /\ t \in Seq(Report) /\ Len(t) = Len(q) - 1 /\ Len(q) \in Nat \ {0} /\ e = q[1]
      /\ \A i \in 1..Len(t) : t[i] = q[i + 1]
  BY HeadTailProperties, LenProperties
<1>2. e \in Report /\ e.ifindex <= n
  BY <1>1 DEF Arrivals
<1>3. t # <<>> => Len(t) \in 1..Len(t) /\ t[Len(t)] = q[Len(q)]
  BY <1>1
<1>4. t = <<>> => q[Len(q)] = e
  <2>1. t = <<>> => Len(t) = 0
    OBVIOUS
  <2> QED BY <1>1, <2>1
<1>5. Arrivals(t, k, n)
  BY <1>1, <1>3 DEF Arrivals, EndsCurrent
<1>6. ASSUME e.ifindex = k.ifindex PROVE Current(t, k) /\ (t = <<>> => Fresh(e, k))
  BY <1>1, <1>4, <1>6 DEF Arrivals, EndsCurrent, Current
<1>7. ASSUME e.ifindex # k.ifindex, EndsCurrent(q, k) PROVE EndsCurrent(t, k)
  BY <1>1, <1>3, <1>4, <1>7 DEF EndsCurrent
<1> QED BY <1>1, <1>2, <1>5, <1>6, <1>7

(* Setting an attribute of the device adds the report, when it is one that  *)
(* changes.                                                                 *)
LEMMA KernelSetFacts ==
  ASSUME ShapeInv, kernel.ifindex # 0, NEW a \in {"enabled", "mtu", "mac"}, NEW v,
         v \in (IF a = "enabled" THEN BOOLEAN ELSE IF a = "mtu" THEN Mtus ELSE Values),
         KernelSet(a, v)
  PROVE  /\ kernel' \in Kernel /\ kernel'.ifindex = kernel.ifindex
         /\ queue' \in Seq(Report) /\ Arrivals(queue', kernel', spent.creates)
         /\ \/ kernel' = kernel /\ queue' = queue
            \/ /\ EndsCurrent(queue', kernel') /\ queue' # <<>>
               /\ Current(queue, kernel) => Current(queue', kernel')
<1>1. kernel \in Kernel /\ queue \in Seq(Report) /\ spent.creates \in Nat
      /\ kernel.ifindex <= spent.creates /\ Arrivals(queue, kernel, spent.creates)
  BY DEF ShapeInv, TypeOK, CpsInv, EventInv
<1>2. kernel' \in Kernel /\ kernel'.ifindex = kernel.ifindex
  BY <1>1 DEF KernelSet, Kernel
<1>3. CASE kernel[a] = v
  <2>1. kernel' = kernel /\ queue' = queue
    BY <1>1, <1>3 DEF KernelSet, Kernel
  <2> QED BY <1>1, <2>1
<1>4. CASE kernel[a] # v
  <2> DEFINE r == [ifindex |-> kernel'.ifindex, enabled |-> kernel'.enabled, mtu |-> kernel'.mtu]
  <2>1. queue' = Append(queue, r)
    BY <1>4 DEF KernelSet, Reported
  <2>2. r \in Report /\ r.ifindex = kernel'.ifindex /\ Fresh(r, kernel')
    BY <1>2 DEF Report, Kernel, Fresh
  <2> HIDE DEF r
  <2>3. /\ queue' \in Seq(Report) /\ queue' # <<>> /\ Arrivals(queue', kernel', spent.creates)
        /\ EndsCurrent(queue', kernel') /\ (Current(queue, kernel') => Current(queue', kernel'))
    BY <1>1, <1>2, <2>1, <2>2, ReportAdded
  <2>4. Current(queue, kernel) => Current(queue, kernel')
    BY <1>2 DEF Current
  <2> QED BY <1>2, <2>3, <2>4
<1> QED BY <1>3, <1>4
-----------------------------------------------------------------------------
(* The steps.  Each is shown to keep the types and the place of the CPS     *)
(* thread, what is known of reports, and the account of the differences.    *)

LEMMA InitInv == Init => IInv
<1> SUFFICES ASSUME Init PROVE IInv
  OBVIOUS
<1>1. TypeOK
  <2>1. kernel \in Kernel /\ npu \in Npu /\ history \in History
    <3>1. MaxCreates \in Nat /\ DefaultMtu \in Mtus /\ DefaultValue \in Values
      BY NasPortAttrAssumption
    <3>2. kernel \in Kernel
      BY <3>1 DEF Init, Kernel
    <3>3. npu \in Npu
      BY <3>1 DEF Init, Npu
    <3>4. history \in History
      BY DEF Init, History
    <3> QED BY <3>2, <3>3, <3>4
  <2>2. cps \in Cps
    BY IdleType DEF Init
  <2>3. event \in Handling
    BY NasPortAttrAssumption DEF Init, Handling, Rest
  <2>4. known \in 0..MaxCreates /\ queue \in Seq(Report)
        /\ spent \in [{"sets", "creates", "external", "faults"} -> Nat]
    BY NasPortAttrAssumption, EmptySeq DEF Init
  <2> QED BY <2>1, <2>2, <2>3, <2>4 DEF Init, TypeOK
<1>2. CpsInv
  BY NasPortAttrAssumption DEF Init, CpsInv, Idle
<1>3. EventInv
  BY DEF Init, EventInv, Arrivals, EndsCurrent, Busy, Rest
<1>4. Accounted
  BY DEF Init, Accounted, InKernel, Copied
<1> QED BY <1>1, <1>2, <1>3, <1>4 DEF IInv, ShapeInv

(* Steps of the CPS thread that leave the device, the admin state and the   *)
(* MTU alone. *)
Aside ==
  /\ UNCHANGED <<kernel, queue, event, history>>
  /\ npu'.enabled = npu.enabled /\ npu'.mtu = npu.mtu
  /\ spent'.creates = spent.creates
  /\ cps'.pc = "down" <=> cps.pc = "down"

LEMMA AsideKeeps ==
  ASSUME IInv, Aside, TypeOK', CpsInv'
  PROVE  IInv'
<1>1. EventInv'
  BY DEF Aside, IInv, ShapeInv, EventInv, Busy
<1>2. Accounted'
  BY DEF Aside, IInv, Accounted, Copied, Awaited, Busy, InKernel
<1> QED BY <1>1, <1>2 DEF IInv, ShapeInv

LEMMA RegisterKeeps ==
  ASSUME IInv, Register
  PROVE  IInv'
<1>1. TypeOK' /\ CpsInv' /\ Aside
  BY DEF Register, IInv, ShapeInv, TypeOK, CpsInv, Aside, Goto, Cps, Kernel
<1> QED BY <1>1, AsideKeeps

LEMMA SetKeeps ==
  ASSUME IInv, NEW request \in Requests, Set(request)
  PROVE  IInv'
<1>1. request \in Seq(Setting)
  BY NasPortAttrAssumption
<1>2. cps' \in Cps /\ cps'.pc = "read"
  BY <1>1, IdleType DEF Set, Cps
<1>3. spent' \in Spending /\ spent'.creates = spent.creates
  BY DEF Set, IInv, ShapeInv, TypeOK, Spending
<1>4. TypeOK' /\ CpsInv' /\ Aside
  BY <1>2, <1>3 DEF Set, IInv, ShapeInv, TypeOK, CpsInv, Aside, Spending
<1> QED BY <1>4, AsideKeeps

LEMMA ReadKeeps ==
  ASSUME IInv, NEW f, Read(f)
  PROVE  IInv'
<1>1. spent' \in Spending /\ spent'.creates = spent.creates
  BY SpendType DEF Read, IInv, ShapeInv
<1>2. cps.pc = "read" /\ cps \in Cps
  BY DEF Read, IInv, ShapeInv, TypeOK
<1>3. /\ cps' \in Cps
      /\ cps'.pc \in {"idle", "walk"}
  <2>1. CASE f = "get"
    BY <1>2, <2>1, EmptySeq, NasPortAttrAssumption DEF Read, Answer, Cps
  <2>2. CASE f # "get"
    <3>1. PICK rest \in Kept(cps.todo) : cps' = [Goto("walk") EXCEPT !.todo = rest]
      BY <2>2 DEF Read
    <3>2. rest \in Seq(Setting)
      BY <1>2, <3>1, KeptType DEF Cps
    <3> QED BY <1>2, <3>1, <3>2 DEF Goto, Cps
  <2> QED BY <2>1, <2>2
<1>4. TypeOK' /\ CpsInv' /\ Aside
  BY <1>1, <1>2, <1>3 DEF Read, IInv, ShapeInv, TypeOK, CpsInv, Aside, Spending
<1> QED BY <1>4, AsideKeeps

LEMMA EndKeeps ==
  ASSUME IInv, End \/ SetNpuRefused
  PROVE  IInv'
<1>1. cps' \in Cps /\ cps'.pc = "idle" /\ cps.pc = "walk"
  BY IdleType DEF End, SetNpuRefused, Walking, IInv, ShapeInv, TypeOK
<1>2. TypeOK' /\ CpsInv' /\ Aside
  BY <1>1 DEF End, SetNpuRefused, IInv, ShapeInv, TypeOK, CpsInv, Aside
<1> QED BY <1>2, AsideKeeps

LEMMA SetNpuKeeps ==
  ASSUME IInv, SetNpu
  PROVE  IInv'
<1>1. cps.pc = "walk" /\ cps.todo # <<>> /\ Now.attr \in {"learn", "phy"}
  BY DEF SetNpu, Walking
<1>2. Now \in Setting /\ Tail(cps.todo) \in Seq(Setting) /\ Now.val \in Values
  BY <1>1, NowFacts, SettingFacts DEF IInv, ShapeInv, Copied, Attributes
<1>3. npu' \in Npu /\ npu'.enabled = npu.enabled /\ npu'.mtu = npu.mtu
  BY <1>1, <1>2 DEF SetNpu, IInv, ShapeInv, TypeOK, Npu
<1>4. /\ cps' \in Cps
      /\ \/ cps'.pc = "walk"
         \/ cps'.pc = "kernel" /\ cps'.todo = cps.todo /\ Now.attr = "learn"
  BY <1>1, <1>2, NasPortAttrAssumption
     DEF SetNpu, Goto, Onward, IInv, ShapeInv, TypeOK, Cps
<1>5. TypeOK' /\ CpsInv' /\ Aside
  BY <1>1, <1>3, <1>4 DEF SetNpu, Now, IInv, ShapeInv, TypeOK, CpsInv, Aside
<1> QED BY <1>5, AsideKeeps

LEMMA SetModeKeeps ==
  ASSUME IInv, SetMode
  PROVE  IInv'
<1>1. cps.pc = "walk" /\ cps.todo # <<>> /\ Now.attr = "mode"
  BY DEF SetMode, Walking
<1>2. Now \in Setting /\ Tail(cps.todo) \in Seq(Setting) /\ Now.val \in Values
  BY <1>1, NowFacts, SettingFacts DEF IInv, ShapeInv, Copied, Attributes
<1>3. cps' \in Cps /\ cps'.pc = "walk"
  BY <1>1, <1>2, NasPortAttrAssumption DEF SetMode, Onward, IInv, ShapeInv, TypeOK, Cps
<1>4. TypeOK' /\ CpsInv' /\ Aside
  BY <1>1, <1>2, <1>3 DEF SetMode, IInv, ShapeInv, TypeOK, CpsInv, Aside
<1> QED BY <1>4, AsideKeeps

LEMMA SetLearningKeeps ==
  ASSUME IInv, NEW f, SetLearning(f)
  PROVE  IInv'
<1>1. spent' \in Spending /\ spent'.creates = spent.creates
  BY SpendType DEF SetLearning, IInv, ShapeInv
<1>2. cps.pc = "kernel" /\ cps.todo # <<>> /\ Now.attr = "learn"
  BY DEF SetLearning, IInv, ShapeInv, CpsInv
<1>3. Tail(cps.todo) \in Seq(Setting) /\ Now.val \in Values
  BY <1>2, NowFacts, SettingFacts DEF IInv, ShapeInv, Copied, Attributes
<1>4. cps' \in Cps /\ cps'.pc = "walk"
  BY <1>2, <1>3, NasPortAttrAssumption DEF SetLearning, Onward, IInv, ShapeInv, TypeOK, Cps
<1>5. /\ kernel' \in Kernel /\ kernel'.ifindex = kernel.ifindex
      /\ kernel'.enabled = kernel.enabled /\ kernel'.mtu = kernel.mtu
  BY <1>3 DEF SetLearning, IInv, ShapeInv, TypeOK, Kernel
<1>6. TypeOK' /\ CpsInv'
  BY <1>1, <1>2, <1>4, <1>5 DEF SetLearning, IInv, ShapeInv, TypeOK, CpsInv, Spending
<1>7. queue' = queue /\ event' = event /\ npu' = npu /\ history' = history
  BY DEF SetLearning
<1>8. EventInv'
  BY <1>1, <1>5, <1>7 DEF IInv, ShapeInv, EventInv, Arrivals, EndsCurrent, Current, Fresh, Busy
<1>9. Accounted'
  BY <1>2, <1>4, <1>5, <1>7
     DEF IInv, Accounted, Copied, Awaited, EndsCurrent, Busy, InKernel
<1> QED BY <1>6, <1>8, <1>9 DEF IInv, ShapeInv

(* Steps that change no device and handle no report: only the NPU's value   *)
(* of one attribute or the account may change.                              *)
LEMMA ApartType ==
  ASSUME history \in History, NEW a \in Copied, NEW b \in BOOLEAN
  PROVE  /\ Leave(a, b) \in History
         /\ Leave(a, b).apart = IF b THEN history.apart \cup {a} ELSE history.apart \ {a}
         /\ Leave(a, b).late = history.late
BY DEF Leave, History, Copied

LEMMA FollowKeeps ==
  ASSUME IInv, Follow
  PROVE  IInv'
<1> DEFINE a == Now.attr
<1>1. cps.pc = "npu" /\ cps.todo # <<>> /\ a \in Copied
  BY DEF Follow, IInv, ShapeInv, CpsInv
<1>2. Tail(cps.todo) \in Seq(Setting) /\ Now.val \in (IF a = "enabled" THEN BOOLEAN ELSE Mtus)
  BY <1>1, NowFacts, SettingFacts DEF IInv, ShapeInv, Copied
<1>3. cps' \in Cps
      /\ (cps'.pc = "walk" \/ (cps'.pc = "announce" /\ cps'.todo = cps.todo /\ a = "enabled"))
  BY <1>1, <1>2, NasPortAttrAssumption DEF Follow, Goto, Onward, IInv, ShapeInv, TypeOK, Cps
<1>4. npu' \in Npu /\ npu'[a] = Now.val /\ \A c \in Copied \ {a} : npu'[c] = npu[c]
  BY <1>1, <1>2 DEF Follow, IInv, ShapeInv, TypeOK, Npu, Copied
<1>5. /\ history' \in History
      /\ history'.apart = IF ~InKernel(a, Now.val) THEN history.apart \cup {a}
                           ELSE history.apart \ {a}
  <2>1. history \in History /\ history' = Leave(a, ~InKernel(a, Now.val))
    BY DEF Follow, IInv, ShapeInv, TypeOK
  <2>2. (~InKernel(a, Now.val)) \in BOOLEAN
    OBVIOUS
  <2> HIDE DEF a
  <2> QED BY <1>1, <2>1, <2>2, ApartType
<1>6. UNCHANGED <<kernel, known, mode, announced, queue, event, spent>>
  BY DEF Follow
<1>7. TypeOK' /\ CpsInv'
  BY <1>1, <1>3, <1>4, <1>5, <1>6 DEF Now, IInv, ShapeInv, TypeOK, CpsInv
<1>8. EventInv'
  BY <1>6 DEF IInv, ShapeInv, EventInv, Busy
<1>9. ASSUME NEW c \in Copied \ history'.apart PROVE (InKernel(c, npu[c]) \/ Awaited(c))'
  <2>1. CASE c = a
    <3>1. InKernel(a, Now.val)
      BY <1>5, <2>1, <1>9
    <3> QED BY <1>4, <1>6, <2>1, <3>1 DEF InKernel
  <2>2. CASE c # a
    <3>1. c \notin history.apart /\ npu'[c] = npu[c]
      BY <1>4, <1>5, <1>9, <2>2
    <3>2. InKernel(c, npu[c]) \/ Awaited(c)
      BY <3>1 DEF IInv, Accounted
    <3> QED BY <1>1, <1>6, <3>1, <3>2 DEF InKernel, Awaited, Busy
  <2> QED BY <2>1, <2>2
<1> QED BY <1>7, <1>8, <1>9 DEF IInv, ShapeInv, Accounted

LEMMA FollowRefusedKeeps ==
  ASSUME IInv, NEW f, FollowRefused(f)
  PROVE  IInv'
<1> DEFINE a == Now.attr
<1>1. cps.pc = "npu" /\ cps.todo # <<>> /\ a \in Copied
  BY DEF FollowRefused, IInv, ShapeInv, CpsInv
<1>2. spent' \in Spending /\ spent'.creates = spent.creates
  BY SpendType DEF FollowRefused, IInv, ShapeInv
<1>3. cps \in Cps /\ npu.mtu \in Mtus
  BY DEF IInv, ShapeInv, TypeOK, Npu
<1>4. cps' \in Cps
      /\ (cps'.pc = "idle" \/ (cps'.pc = "revert" /\ cps'.todo = cps.todo))
  <2>1. Answer(FALSE) \in Cps /\ Answer(FALSE).pc = "idle"
    BY <1>3, IdleType
  <2>2. cps' \in {Answer(FALSE), Goto("revert"), [Goto("revert") EXCEPT !.back = npu.mtu]}
    BY <1>1 DEF FollowRefused, Copied
  <2>3. Goto("revert") \in Cps /\ [Goto("revert") EXCEPT !.back = npu.mtu] \in Cps
    BY <1>3 DEF Goto, Cps
  <2>4. /\ Goto("revert").pc = "revert" /\ Goto("revert").todo = cps.todo
        /\ [Goto("revert") EXCEPT !.back = npu.mtu].pc = "revert"
        /\ [Goto("revert") EXCEPT !.back = npu.mtu].todo = cps.todo
    BY <1>3 DEF Goto, Cps
  <2> QED BY <2>1, <2>2, <2>3, <2>4
<1>5. history' \in History /\ history.apart \subseteq history'.apart
  <2>1. history \in History /\ "mtu" \in Copied
    BY DEF IInv, ShapeInv, TypeOK, Copied
  <2>2. history' = history \/ history' = Leave("mtu", TRUE)
    BY DEF FollowRefused
  <2> QED BY <2>1, <2>2, ApartType
<1>6. UNCHANGED <<kernel, known, npu, mode, announced, queue, event>>
  BY DEF FollowRefused
<1>7. TypeOK' /\ CpsInv'
  BY <1>1, <1>2, <1>4, <1>5, <1>6 DEF Now, IInv, ShapeInv, TypeOK, CpsInv, Spending
<1>8. EventInv'
  BY <1>2, <1>6 DEF IInv, ShapeInv, EventInv, Busy
<1>9. Accounted'
  BY <1>1, <1>5, <1>6 DEF IInv, Accounted, InKernel, Awaited, Busy
<1> QED BY <1>7, <1>8, <1>9 DEF IInv, ShapeInv

(* A step that sets an attribute of the device, by any program. *)
LEMMA DeviceKeeps ==
  ASSUME IInv, kernel.ifindex # 0, NEW a \in {"enabled", "mtu", "mac"}, NEW v,
         v \in (IF a = "enabled" THEN BOOLEAN ELSE IF a = "mtu" THEN Mtus ELSE Values),
         KernelSet(a, v), npu' = npu, spent'.creates = spent.creates,
         history.apart \subseteq history'.apart,
         \/ event' = event
         \/ event.pc = "revert" /\ event'.pc = "idle" /\ a = "mtu" /\ v = event.back,
         kernel' \in Kernel /\ queue' \in Seq(Report) => TypeOK' /\ CpsInv'
  PROVE  IInv'
<1>1. /\ kernel' \in Kernel /\ kernel'.ifindex = kernel.ifindex
      /\ queue' \in Seq(Report) /\ Arrivals(queue', kernel', spent.creates)
      /\ \/ kernel' = kernel /\ queue' = queue
         \/ /\ EndsCurrent(queue', kernel') /\ queue' # <<>>
            /\ Current(queue, kernel) => Current(queue', kernel')
  BY KernelSetFacts DEF IInv
<1>2. cps.pc # "down"
  BY DEF IInv, ShapeInv, CpsInv
<1>3. EventInv'
  BY <1>1 DEF IInv, ShapeInv, EventInv, Busy
<1>4. Accounted'
  <2>1. CASE kernel' = kernel /\ queue' = queue
    <3>1. ASSUME NEW c \in Copied \ history'.apart PROVE (InKernel(c, npu[c]) \/ Awaited(c))'
      <4>1. InKernel(c, npu[c]) \/ Awaited(c)
        BY <3>1 DEF IInv, Accounted
      <4>2. CASE event' = event
        BY <1>2, <2>1, <4>1, <4>2 DEF InKernel, Awaited, Busy
      <4>3. CASE event.pc = "revert" /\ event'.pc = "idle" /\ a = "mtu" /\ v = event.back
        <5>1. kernel.mtu = event.back
          BY <1>1, <2>1, <4>3 DEF KernelSet, Kernel
        <5> QED BY <1>2, <2>1, <4>1, <4>3, <5>1 DEF InKernel, Awaited, Busy, Before
      <4> QED BY <4>2, <4>3
    <3> QED BY <3>1 DEF Accounted
  <2>2. CASE EndsCurrent(queue', kernel')
    BY <2>2 DEF Accounted, Awaited
  <2> QED BY <1>1, <2>1, <2>2
<1> QED BY <1>1, <1>3, <1>4 DEF IInv, ShapeInv

LEMMA SetKernelKeeps ==
  ASSUME IInv, NEW f, SetKernel(f)
  PROVE  IInv'
<1> DEFINE a == Now.attr
           v == Now.val
<1>1. cps.pc = "walk" /\ cps.todo # <<>> /\ a \in {"enabled", "mtu", "mac"}
  BY DEF SetKernel, Walking
<1>2. /\ Tail(cps.todo) \in Seq(Setting)
      /\ v \in (IF a = "enabled" THEN BOOLEAN ELSE IF a = "mtu" THEN Mtus ELSE Values)
  BY <1>1, NowFacts, SettingFacts DEF IInv, ShapeInv, Attributes, Copied
<1>3. spent' \in Spending /\ spent'.creates = spent.creates
  BY SpendType DEF SetKernel, IInv, ShapeInv
<1>4. cps \in Cps /\ kernel.ifindex # 0
  BY <1>1 DEF IInv, ShapeInv, TypeOK, CpsInv
<1>5. /\ cps' \in Cps
      /\ \/ cps'.pc \in {"idle", "walk"}
         \/ cps'.pc = "npu" /\ cps'.todo = cps.todo /\ a \in Copied
  <2>1. CASE f = "kernel"
    BY <1>4, <2>1, IdleType DEF SetKernel
  <2>2. CASE f # "kernel"
    BY <1>1, <1>2, <1>4, <2>2, NasPortAttrAssumption DEF SetKernel, Goto, Onward, Cps, Copied
  <2> QED BY <2>1, <2>2
<1>6. UNCHANGED <<known, npu, mode, announced, event, history>>
  BY DEF SetKernel
<1>7. ASSUME kernel' \in Kernel, kernel'.ifindex = kernel.ifindex, queue' \in Seq(Report)
      PROVE  TypeOK' /\ CpsInv'
  BY <1>1, <1>3, <1>4, <1>5, <1>6, <1>7 DEF Now, IInv, ShapeInv, TypeOK, CpsInv, Spending
<1>8. CASE f = "kernel"
  <2>1. Aside
    BY <1>1, <1>3, <1>5, <1>6, <1>8 DEF SetKernel, Aside
  <2>2. TypeOK' /\ CpsInv'
    BY <1>7, <2>1 DEF Aside, IInv, ShapeInv, TypeOK
  <2> QED BY <2>1, <2>2, AsideKeeps
<1>9. CASE f # "kernel"
  <2>1. KernelSet(a, v)
    BY <1>9 DEF SetKernel
  <2>2. kernel'.ifindex = kernel.ifindex
    BY <1>1, <1>2, <1>4, <2>1, KernelSetFacts DEF IInv
  <2> HIDE DEF a, v
  <2> QED BY <1>1, <1>2, <1>3, <1>4, <1>6, <1>7, <2>1, <2>2, DeviceKeeps
<1> QED BY <1>8, <1>9

LEMMA ReplacedType ==
  ASSUME NEW list \in Seq(Setting), NEW new \in Setting, NEW rest \in Replaced(list, new)
  PROVE  rest \in Seq(Setting)
<1> DEFINE skipped == {list} \cup (IF list = <<>> THEN {} ELSE {Tail(list)})
<1>1. skipped \subseteq Seq(Setting)
  BY HeadTailProperties
<1>2. rest \in skipped \cup {Append(r, new) : r \in skipped}
  BY DEF Replaced
<1> HIDE DEF skipped
<1> QED BY <1>1, <1>2, AppendProperties

LEMMA RevertKeeps ==
  ASSUME IInv, NEW f, Revert(f)
  PROVE  IInv'
<1> DEFINE a == Now.attr
           v == IF a = "mtu" THEN cps.back ELSE ~Now.val
<1>1. cps.pc = "revert" /\ cps.todo # <<>> /\ a \in Copied
  BY DEF Revert, IInv, ShapeInv, CpsInv
<1>2. cps \in Cps /\ kernel.ifindex # 0 /\ Now \in Setting
      /\ Tail(cps.todo) \in Seq(Setting)
  BY <1>1, NowFacts DEF IInv, ShapeInv, TypeOK, CpsInv
<1>3. v \in (IF a = "enabled" THEN BOOLEAN ELSE IF a = "mtu" THEN Mtus ELSE Values)
  BY <1>1, <1>2, SettingFacts DEF Cps, Copied
<1>4. spent' \in Spending /\ spent'.creates = spent.creates
  BY SpendType DEF Revert, IInv, ShapeInv
<1>5. /\ cps' \in Cps
      /\ \/ cps'.pc = "idle"
         \/ cps'.pc = "announce" /\ cps'.todo # <<>> /\ Now'.attr = "enabled"
  <2>1. CASE a = "mtu"
    BY <1>2, <2>1, IdleType DEF Revert
  <2>2. CASE a # "mtu"
    <3> DEFINE new == [attr |-> "enabled", val |-> ~Now.val]
    <3>1. PICK rest \in Replaced(Tail(cps.todo), new) :
            cps' = [Goto("announce") EXCEPT !.todo = <<Now>> \o rest]
      BY <2>2 DEF Revert
    <3>2. new \in Setting
      BY DEF Setting, Attributes, ValueOf
    <3> HIDE DEF new
    <3>3. rest \in Seq(Setting)
      BY <1>2, <3>1, <3>2, ReplacedType
    <3> DEFINE todo == <<Now>> \o rest
    <3>4. todo \in Seq(Setting) /\ todo # <<>> /\ Head(todo) = Now
      <4>1. <<Now>> \in Seq(Setting) /\ Len(<<Now>>) = 1 /\ <<Now>>[1] = Now
        BY <1>2
      <4>2. todo \in Seq(Setting) /\ Len(todo) = 1 + Len(rest) /\ todo[1] = Now
        BY <3>3, <4>1, ConcatProperties, LenProperties
      <4> HIDE DEF todo
      <4> QED BY <3>3, <4>2, LenProperties
    <3> HIDE DEF todo
    <3>5. cps' = [Goto("announce") EXCEPT !.todo = todo]
      BY <3>1 DEF todo
    <3>6. cps' \in Cps /\ cps'.pc = "announce" /\ cps'.todo = todo
      BY <1>2, <3>4, <3>5 DEF Goto, Cps
    <3> QED BY <1>1, <2>2, <3>4, <3>6 DEF Now, Copied
  <2> QED BY <2>1, <2>2
<1>6. UNCHANGED <<known, npu, mode, announced, event>>
  BY DEF Revert
<1>7. history' \in History /\ history.apart \subseteq history'.apart
  BY <1>1 DEF Revert, IInv, ShapeInv, TypeOK, History, Copied
<1>8. ASSUME kernel' \in Kernel, kernel'.ifindex = kernel.ifindex, queue' \in Seq(Report)
      PROVE  TypeOK' /\ CpsInv'
  BY <1>1, <1>4, <1>5, <1>6, <1>7, <1>8 DEF IInv, ShapeInv, TypeOK, CpsInv, Spending
<1>9. CASE f = "kernel"
  <2>1. kernel' = kernel /\ queue' = queue
    BY <1>9 DEF Revert
  <2>2. TypeOK' /\ CpsInv'
    BY <1>8, <2>1 DEF IInv, ShapeInv, TypeOK
  <2>3. EventInv'
    BY <1>4, <1>6, <2>1 DEF IInv, ShapeInv, EventInv, Busy
  <2>4. Accounted'
    BY <1>1, <1>6, <1>7, <2>1 DEF IInv, Accounted, InKernel, Awaited, Busy
  <2> QED BY <2>2, <2>3, <2>4 DEF IInv, ShapeInv
<1>10. CASE f # "kernel"
  <2>1. KernelSet(a, v) /\ a \in {"enabled", "mtu", "mac"}
    BY <1>1, <1>10 DEF Revert, Copied
  <2> HIDE DEF a, v
  <2>2. kernel'.ifindex = kernel.ifindex
    BY <1>2, <1>3, <2>1, KernelSetFacts DEF IInv
  <2> QED BY <1>2, <1>3, <1>4, <1>6, <1>7, <1>8, <2>1, <2>2, DeviceKeeps
<1> QED BY <1>9, <1>10

LEMMA OtherSetKeeps ==
  ASSUME IInv, Other
  PROVE  IInv'
<1>1. PICK s \in Setting : s.attr \in Copied /\ OtherSet(s)
  BY DEF Other, Copied
<1>2. spent' \in Spending /\ spent'.creates = spent.creates
  BY <1>1 DEF OtherSet, IInv, ShapeInv, TypeOK, Spending
<1>3. /\ kernel.ifindex # 0 /\ KernelSet(s.attr, s.val)
      /\ UNCHANGED <<known, npu, mode, announced, cps, event, history>>
  BY <1>1 DEF OtherSet
<1> DEFINE a == s.attr
           v == s.val
<1>4. a \in {"enabled", "mtu", "mac"}
      /\ v \in (IF a = "enabled" THEN BOOLEAN ELSE IF a = "mtu" THEN Mtus ELSE Values)
  BY <1>1, SettingFacts DEF Copied
<1>5. kernel'.ifindex = kernel.ifindex
  BY <1>3, <1>4, KernelSetFacts DEF IInv
<1>6. ASSUME kernel' \in Kernel, queue' \in Seq(Report)
      PROVE  TypeOK' /\ CpsInv'
  BY <1>2, <1>3, <1>5, <1>6 DEF Now, IInv, ShapeInv, TypeOK, CpsInv, Spending
<1> HIDE DEF a, v
<1> QED BY <1>2, <1>3, <1>4, <1>6, DeviceKeeps DEF a, v

LEMMA AnnounceFacts ==
  ASSUME TypeOK, NEW i, NEW v \in BOOLEAN, Announce(i, v)
  PROVE  /\ announced' \in BOOLEAN \cup {None} /\ history' \in History
         /\ history'.apart = history.apart
BY DEF Announce, TypeOK, History

LEMMA AnnounceSetKeeps ==
  ASSUME IInv, AnnounceSet
  PROVE  IInv'
<1>1. cps.pc = "announce" /\ cps.todo # <<>> /\ Now.attr = "enabled"
  BY DEF AnnounceSet, IInv, ShapeInv, CpsInv
<1>2. Tail(cps.todo) \in Seq(Setting) /\ Now.val \in BOOLEAN
  BY <1>1, NowFacts, SettingFacts DEF IInv, ShapeInv
<1>3. cps' \in Cps /\ cps'.pc = "walk"
  BY <1>1, <1>2, NasPortAttrAssumption DEF AnnounceSet, Onward, IInv, ShapeInv, TypeOK, Cps
<1>4. /\ announced' \in BOOLEAN \cup {None} /\ history' \in History
      /\ history'.apart = history.apart
  BY <1>2, AnnounceFacts DEF AnnounceSet, IInv, ShapeInv
<1>5. UNCHANGED <<kernel, known, npu, mode, queue, event, spent>>
  BY DEF AnnounceSet
<1>6. TypeOK' /\ CpsInv'
  BY <1>1, <1>3, <1>4, <1>5 DEF IInv, ShapeInv, TypeOK, CpsInv
<1>7. EventInv' /\ Accounted'
  BY <1>1, <1>4, <1>5 DEF IInv, ShapeInv, EventInv, Busy, Accounted, InKernel, Awaited
<1> QED BY <1>6, <1>7 DEF IInv, ShapeInv

LEMMA CreateKeeps ==
  ASSUME IInv, NEW request \in Requests, Create(request)
  PROVE  IInv'
<1> DEFINE n == spent.creates + 1
           r == [ifindex |-> kernel'.ifindex, enabled |-> kernel'.enabled, mtu |-> kernel'.mtu]
<1>1. /\ request \in Seq(Setting) /\ DefaultMtu \in Mtus /\ DefaultValue \in Values
      /\ MaxCreates \in Nat
  BY NasPortAttrAssumption
<1>2. /\ n \in 1..MaxCreates /\ spent' \in Spending /\ spent'.creates = n
      /\ spent.creates \in Nat
  <2>1. spent \in Spending /\ spent.creates \in 0..MaxCreates /\ spent.creates < MaxCreates
    BY DEF Create, IInv, ShapeInv, TypeOK, CpsInv, Spending
  <2> QED BY <1>1, <2>1 DEF Create, Spending
<1>3. kernel' \in Kernel /\ kernel'.ifindex = n
  BY <1>1, <1>2 DEF Create, Kernel
<1>4. cps' \in Cps /\ cps'.pc = "register" /\ cps.pc = "idle" /\ known = 0 /\ kernel.ifindex = 0
  BY <1>1, IdleType DEF Create, Cps, IInv, ShapeInv, CpsInv
<1>5. r \in Report /\ r.ifindex = kernel'.ifindex /\ Fresh(r, kernel')
  BY <1>2, <1>3 DEF Report, Kernel, Fresh
<1>6. queue' = Append(queue, r)
  BY DEF Create, Reported
<1> HIDE DEF n, r
<1>7. UNCHANGED <<known, npu, mode, announced, event, history>>
  BY DEF Create
<1>8. \A i \in 1..Len(queue) : queue[i] \in Report /\ queue[i].ifindex # n
  <2>1. queue \in Seq(Report) /\ Arrivals(queue, kernel, spent.creates)
    BY DEF IInv, ShapeInv, TypeOK, EventInv
  <2>2. \A i \in 1..Len(queue) : queue[i] \in Report /\ queue[i].ifindex <= spent.creates
    BY <2>1 DEF Arrivals
  <2> QED BY <1>2, <2>2 DEF n, Report
<1>9. queue \in Seq(Report) /\ kernel \in Kernel /\ Arrivals(queue, kernel, n)
  <2>1. queue \in Seq(Report) /\ kernel \in Kernel /\ Arrivals(queue, kernel, spent.creates)
    BY DEF IInv, ShapeInv, TypeOK, EventInv
  <2> QED BY <1>2, <1>8, <2>1 DEF Arrivals, Report, n
<1>10. /\ queue' \in Seq(Report) /\ Arrivals(queue', kernel', n)
       /\ EndsCurrent(queue', kernel') /\ queue' # <<>>
  <2>1. n \in Nat /\ kernel'.ifindex <= n
    BY <1>1, <1>2, <1>3
  <2>2. \A i \in 1..Len(queue) : queue[i].ifindex # kernel'.ifindex
    BY <1>3, <1>8
  <2> QED BY <1>3, <1>5, <1>6, <1>9, <2>1, <2>2, ReportAdded
<1>11. TypeOK' /\ CpsInv'
  BY <1>2, <1>3, <1>4, <1>7, <1>10 DEF IInv, ShapeInv, TypeOK, CpsInv, Spending
<1>12. EventInv'
  <2>1. event.pc # "idle" => event.e \in Report /\ event.e.ifindex <= spent.creates
    BY DEF IInv, ShapeInv, EventInv
  <2>2. event.pc # "idle" => event.e.ifindex # n /\ event.e.ifindex <= n
    BY <1>2, <2>1 DEF Report, n
  <2> QED BY <1>2, <1>3, <1>7, <1>10, <2>1, <2>2 DEF EventInv, Busy
<1>13. Accounted'
  BY <1>10 DEF Accounted, Awaited
<1> QED BY <1>11, <1>12, <1>13 DEF IInv, ShapeInv

LEMMA DeleteKeeps ==
  ASSUME IInv, Delete
  PROVE  IInv'
<1>1. spent' \in Spending /\ spent'.creates = spent.creates
  BY DEF Delete, IInv, ShapeInv, TypeOK, Spending
<1>2. cps' \in Cps /\ cps'.pc = "down" /\ cps.pc = "idle"
  BY IdleType DEF Delete, Cps
<1>3. kernel' \in Kernel /\ kernel'.ifindex = 0
  BY NasPortAttrAssumption DEF Delete, IInv, ShapeInv, TypeOK, Kernel
<1>4. UNCHANGED <<npu, mode, queue, event, history>> /\ known' = 0 /\ announced' = None
  BY DEF Delete
<1>5. TypeOK' /\ CpsInv'
  BY <1>1, <1>2, <1>3, <1>4, NasPortAttrAssumption DEF IInv, ShapeInv, TypeOK, CpsInv, Spending
<1>6. \A i \in 1..Len(queue) : queue[i] \in Report /\ queue[i].ifindex # 0
  <2>1. queue \in Seq(Report)
    BY DEF IInv, ShapeInv, TypeOK
  <2>2. \A r \in Report : r.ifindex # 0
    BY NasPortAttrAssumption DEF Report
  <2> QED BY <2>1, <2>2
<1>7. Len(queue) \in Nat /\ (queue # <<>> => Len(queue) \in 1..Len(queue))
  BY DEF IInv, ShapeInv, TypeOK
<1>8. EventInv'
  <2>1. event.pc # "idle" => event.e \in Report /\ event.e.ifindex <= spent.creates
    BY DEF IInv, ShapeInv, EventInv
  <2>2. event.pc # "idle" => event.e.ifindex # 0
    BY <2>1 DEF Report
  <2> QED BY <1>1, <1>3, <1>4, <1>6, <1>7, <2>1, <2>2
          DEF IInv, ShapeInv, EventInv, Busy, Arrivals, EndsCurrent
<1>9. Accounted'
  BY <1>2, <1>3 DEF Accounted, Copied, InKernel, Awaited
<1> QED BY <1>5, <1>8, <1>9 DEF IInv, ShapeInv

LEMMA ShutDownKeeps ==
  ASSUME IInv, ShutDown
  PROVE  IInv'
<1>1. cps.pc = "down" /\ cps' \in Cps /\ cps'.pc = "idle" /\ kernel.ifindex = 0
  BY IdleType DEF ShutDown, IInv, ShapeInv, TypeOK, CpsInv
<1>2. UNCHANGED <<kernel, known, mode, announced, queue, event, spent>>
  BY DEF ShutDown
<1>3. /\ history' \in History /\ npu' \in Npu
      /\ "enabled" \in history'.apart \/ npu'.enabled = FALSE
  BY ApartType DEF ShutDown, IInv, ShapeInv, TypeOK, Copied, Npu
<1>4. TypeOK' /\ CpsInv'
  BY <1>1, <1>2, <1>3 DEF IInv, ShapeInv, TypeOK, CpsInv
<1>5. EventInv'
  BY <1>2 DEF IInv, ShapeInv, EventInv, Busy
<1>6. Accounted'
  BY <1>1, <1>2, <1>3 DEF Accounted, Copied, InKernel
<1> QED BY <1>4, <1>5, <1>6 DEF IInv, ShapeInv
-----------------------------------------------------------------------------
(* The event thread. *)

LEMMA TakeKeeps ==
  ASSUME IInv, Take
  PROVE  IInv'
<1> DEFINE e == Head(queue)
<1>1. /\ queue \in Seq(Report) /\ queue # <<>> /\ queue' = Tail(queue) /\ event.pc = "idle"
      /\ kernel \in Kernel /\ spent.creates \in Nat /\ Arrivals(queue, kernel, spent.creates)
      /\ event \in Handling
  BY DEF Take, IInv, ShapeInv, TypeOK, CpsInv, EventInv
<1>2. /\ queue' \in Seq(Report) /\ Arrivals(queue', kernel, spent.creates)
      /\ e \in Report /\ e.ifindex <= spent.creates
      /\ e.ifindex = kernel.ifindex =>
           Current(queue', kernel) /\ (queue' = <<>> => Fresh(e, kernel))
      /\ e.ifindex # kernel.ifindex /\ EndsCurrent(queue, kernel) => EndsCurrent(queue', kernel)
  BY <1>1, ReportTaken
<1>3. UNCHANGED <<kernel, known, npu, mode, announced, cps, spent>>
  BY DEF Take
<1>4. \/ /\ e.ifindex = known /\ event' = [event EXCEPT !.pc = "admin", !.e = e]
         /\ history' = history
      \/ /\ e.ifindex # known /\ event' = event
         /\ history' = IF e.ifindex = kernel.ifindex
                       THEN [history EXCEPT !.apart = {"enabled", "mtu"}] ELSE history
  BY DEF Take
<1> HIDE DEF e
<1>5. e.ifindex # 0 /\ (e.ifindex = known => e.ifindex = kernel.ifindex)
  BY <1>2, NasPortAttrAssumption DEF Report, IInv, ShapeInv, CpsInv
<1>6. CpsInv'
  BY <1>3 DEF IInv, ShapeInv, CpsInv, Now
<1>7. CASE e.ifindex = known
  <2>1. event' \in Handling /\ event'.pc = "admin" /\ event'.e = e
    BY <1>1, <1>2, <1>4, <1>7 DEF Handling
  <2>2. TypeOK'
    BY <1>2, <1>3, <1>4, <1>7, <2>1 DEF IInv, ShapeInv, TypeOK
  <2>3. EventInv'
    BY <1>2, <1>3, <1>5, <1>7, <2>1 DEF EventInv, Busy
  <2>4. Accounted'
    BY <1>3, <1>5, <1>7, <2>1 DEF Accounted, Awaited, Busy, Before
  <2> QED BY <1>6, <2>2, <2>3, <2>4 DEF IInv, ShapeInv
<1>8. CASE e.ifindex # known
  <2>1. event' = event
    BY <1>4, <1>8
  <2>2. /\ history' \in History
        /\ e.ifindex = kernel.ifindex => history'.apart = Copied
        /\ e.ifindex # kernel.ifindex => history' = history
    BY <1>4, <1>8 DEF IInv, ShapeInv, TypeOK, History, Copied
  <2>3. TypeOK'
    BY <1>2, <1>3, <2>1, <2>2 DEF IInv, ShapeInv, TypeOK
  <2>4. EventInv'
    BY <1>1, <1>2, <1>3, <2>1 DEF EventInv, Busy
  <2>5. Accounted'
    BY <1>1, <1>2, <1>3, <2>1, <2>2 DEF IInv, Accounted, InKernel, Awaited, Busy
  <2> QED BY <1>6, <2>3, <2>4, <2>5 DEF IInv, ShapeInv
<1> QED BY <1>7, <1>8

(* The report being handled is of an interface that is gone, or it is the   *)
(* last word about the kernel, or another is on its way.                    *)
LEMMA ReportFacts ==
  ASSUME IInv, event.pc # "idle", NEW a \in Copied
  PROVE  /\ event.e \in Report
         /\ ~Gone => Busy /\ (InKernel(a, event.e[a]) \/ EndsCurrent(queue, kernel))
<1>1. event.e \in Report /\ event.e.ifindex # 0
  <2>1. event.e \in Report
    BY DEF IInv, ShapeInv, EventInv
  <2> QED BY <2>1, NasPortAttrAssumption DEF Report
<1>2. ~Gone => Busy
  BY <1>1 DEF Gone, Busy, IInv, ShapeInv, CpsInv
<1>3. CASE Busy /\ queue = <<>>
  BY <1>1, <1>3 DEF IInv, ShapeInv, EventInv, Fresh, InKernel, Busy, Copied
<1>4. CASE Busy /\ queue # <<>>
  <2>1. Len(queue) \in 1..Len(queue)
    BY <1>4 DEF IInv, ShapeInv, TypeOK
  <2> QED BY <1>1, <1>4, <2>1 DEF IInv, ShapeInv, EventInv, Current, EndsCurrent
<1> QED BY <1>1, <1>2, <1>3, <1>4

(* A step of the event thread at attribute a that leaves the device alone. *)
LEMMA HandlingKeeps ==
  ASSUME IInv, NEW a \in Copied, UNCHANGED <<kernel, known, mode, queue, cps>>, TypeOK',
         spent'.creates = spent.creates, event.pc \notin {"idle", "revert"},
         event'.pc # "idle" => event'.e = event.e,
         \A c \in Copied \ {a} :
           /\ npu'[c] = npu[c] /\ (c \in history'.apart <=> c \in history.apart)
           /\ event.pc \in Before(c) => event'.pc \in Before(c),
         a \notin history'.apart => (InKernel(a, npu[a]) \/ Awaited(a))'
  PROVE  IInv'
<1>1. CpsInv'
  BY DEF IInv, ShapeInv, CpsInv, Now
<1>2. EventInv'
  BY DEF IInv, ShapeInv, EventInv, Busy
<1>3. ASSUME NEW c \in Copied \ history'.apart PROVE (InKernel(c, npu[c]) \/ Awaited(c))'
  <2>1. CASE c = a
    BY <1>3, <2>1
  <2>2. CASE c # a
    <3>1. InKernel(c, npu[c]) \/ Awaited(c)
      BY <1>3, <2>2 DEF IInv, Accounted
    <3>2. event.pc \in Before(c) => event'.pc \in Before(c) /\ event'.pc # "idle"
      BY <2>2 DEF Before
    <3> QED BY <2>2, <3>1, <3>2 DEF InKernel, Awaited, Busy
  <2> QED BY <2>1, <2>2
<1> QED BY <1>1, <1>2, <1>3 DEF IInv, ShapeInv, Accounted

LEMMA UptoType ==
  ASSUME event \in Handling, NEW pc \in {"idle", "admin", "set", "announce", "mtu", "revert"}
  PROVE  Upto(pc) \in Handling /\ Upto(pc).pc = pc /\ Upto(pc).e = event.e
         /\ Upto(pc).back = event.back
BY DEF Upto, Handling

LEMMA CompareKeeps ==
  ASSUME IInv, NEW f, Compare(f)
  PROVE  IInv'
<1>1. event.pc = "admin" /\ "enabled" \in Copied /\ event \in Handling /\ history \in History
  BY DEF Compare, IInv, ShapeInv, TypeOK, Copied
<1>2. spent' \in Spending /\ spent'.creates = spent.creates
  BY SpendType DEF Compare, IInv, ShapeInv
<1>3. UNCHANGED <<kernel, known, npu, mode, announced, queue, cps>>
  BY DEF Compare
<1>4. CASE f # "get" /\ npu.enabled # event.e.enabled
  <2>1. event' = Upto("set")
    BY <1>4 DEF Compare
  <2>2. event' \in Handling /\ event'.pc = "set" /\ event'.e = event.e
    BY <1>1, <2>1, UptoType
  <2>3. history' = history
    BY <2>2 DEF Compare
  <2>4. TypeOK'
    BY <1>2, <1>3, <2>2, <2>3 DEF IInv, ShapeInv, TypeOK, Spending
  <2>5. InKernel("enabled", npu.enabled) \/ Awaited("enabled") \/ "enabled" \in history.apart
    BY <1>1 DEF IInv, Accounted
  <2>6. "enabled" \notin history'.apart => (InKernel("enabled", npu.enabled) \/ Awaited("enabled"))'
    BY <1>1, <1>3, <2>2, <2>3, <2>5 DEF InKernel, Awaited, Busy, Before
  <2>7. \A c \in Copied \ {"enabled"} : "set" \in Before(c)
    BY DEF Before, Copied
  <2> QED BY <1>1, <1>2, <1>3, <2>2, <2>3, <2>4, <2>6, <2>7, HandlingKeeps
<1>5. CASE f = "get" \/ npu.enabled = event.e.enabled
  <2>1. event' = Upto("mtu")
    BY <1>5 DEF Compare
  <2>2. event' \in Handling /\ event'.pc = "mtu" /\ event'.e = event.e
    BY <1>1, <2>1, UptoType
  <2> DEFINE b == f = "get" \/ Gone
  <2>3. history' = Leave("enabled", b)
    BY <2>2 DEF Compare, Handled
  <2>4. b \in BOOLEAN
    OBVIOUS
  <2>5. b \/ (npu.enabled = event.e.enabled /\ ~Gone)
    BY <1>5, Zenon
  <2> HIDE DEF b
  <2>6. /\ history' \in History
        /\ history'.apart = IF b THEN history.apart \cup {"enabled"}
                            ELSE history.apart \ {"enabled"}
    BY <1>1, <2>3, <2>4, ApartType
  <2>7. TypeOK'
    BY <1>2, <1>3, <2>2, <2>6 DEF IInv, ShapeInv, TypeOK, Spending
  <2>8. ~Gone => InKernel("enabled", event.e.enabled) \/ EndsCurrent(queue, kernel)
    BY <1>1, ReportFacts
  <2>9. "enabled" \notin history'.apart => (InKernel("enabled", npu.enabled) \/ Awaited("enabled"))'
    BY <1>3, <2>5, <2>6, <2>8 DEF InKernel, Awaited
  <2>10. \A c \in Copied \ {"enabled"} : "mtu" \in Before(c)
    BY DEF Before, Copied
  <2> QED BY <1>1, <1>2, <1>3, <2>2, <2>6, <2>7, <2>9, <2>10, HandlingKeeps
<1> QED BY <1>4, <1>5

LEMMA CopyAdminKeeps ==
  ASSUME IInv, CopyAdmin
  PROVE  IInv'
<1>1. event.pc = "set" /\ "enabled" \in Copied /\ event \in Handling /\ history \in History
  BY DEF CopyAdmin, IInv, ShapeInv, TypeOK, Copied
<1>2. event' \in Handling /\ event'.pc = "announce" /\ event'.e = event.e
  BY <1>1, UptoType DEF CopyAdmin
<1>3. UNCHANGED <<kernel, known, mode, announced, queue, cps, spent>>
  BY DEF CopyAdmin
<1>4. /\ event.e \in Report
      /\ ~Gone => InKernel("enabled", event.e.enabled) \/ EndsCurrent(queue, kernel)
  BY <1>1, ReportFacts
<1>5. npu' \in Npu /\ npu'.mtu = npu.mtu
  BY <1>4 DEF CopyAdmin, Report, IInv, ShapeInv, TypeOK, Npu
<1>6. /\ history' \in History
      /\ \A c \in Copied \ {"enabled"} : c \in history'.apart <=> c \in history.apart
      /\ "enabled" \notin history'.apart => npu'.enabled = event.e.enabled /\ ~Gone
  <2>1. CASE /\ npu' = [npu EXCEPT !.enabled = event.e.enabled]
             /\ history' = [Handled("enabled", TRUE) EXCEPT !.late = @ \/ Gone]
    <3> DEFINE h == Leave("enabled", Gone)
    <3>1. Gone \in BOOLEAN
      BY DEF Gone
    <3>2. history' = [h EXCEPT !.late = h.late \/ Gone]
      BY <2>1 DEF Handled, Leave
    <3>3. /\ h \in History
          /\ h.apart = IF Gone THEN history.apart \cup {"enabled"} ELSE history.apart \ {"enabled"}
      BY <1>1, <3>1, ApartType
    <3> HIDE DEF h
    <3>4. history' \in History /\ history'.apart = h.apart
      BY <3>2, <3>3 DEF History
    <3>5. npu'.enabled = event.e.enabled
      BY <2>1 DEF IInv, ShapeInv, TypeOK, Npu
    <3> QED BY <3>3, <3>4, <3>5
  <2>2. CASE history' = Handled("enabled", FALSE)
    <3>1. history' = Leave("enabled", TRUE)
      BY <2>2 DEF Handled
    <3> QED BY <1>1, <3>1, ApartType
  <2> QED BY <2>1, <2>2 DEF CopyAdmin
<1>7. TypeOK'
  BY <1>2, <1>3, <1>5, <1>6 DEF IInv, ShapeInv, TypeOK
<1>8. "enabled" \notin history'.apart => (InKernel("enabled", npu.enabled) \/ Awaited("enabled"))'
  BY <1>3, <1>4, <1>6 DEF InKernel, Awaited
<1>9. \A c \in Copied \ {"enabled"} : "announce" \in Before(c) /\ npu'[c] = npu[c]
  BY <1>5 DEF Before, Copied
<1> QED BY <1>1, <1>2, <1>3, <1>6, <1>7, <1>8, <1>9, HandlingKeeps

LEMMA AnnounceCopyKeeps ==
  ASSUME IInv, AnnounceCopy
  PROVE  IInv'
<1>1. event.pc = "announce" /\ "enabled" \in Copied /\ event \in Handling
  BY DEF AnnounceCopy, IInv, ShapeInv, TypeOK, Copied
<1>2. event' \in Handling /\ event'.pc = "mtu" /\ event'.e = event.e
  BY <1>1, UptoType DEF AnnounceCopy
<1>3. UNCHANGED <<kernel, known, npu, mode, queue, cps, spent>>
  BY DEF AnnounceCopy
<1>4. event.e.enabled \in BOOLEAN
  BY <1>1, ReportFacts DEF Report
<1>5. /\ announced' \in BOOLEAN \cup {None} /\ history' \in History
      /\ history'.apart = history.apart
  BY <1>4, AnnounceFacts DEF AnnounceCopy, IInv, ShapeInv
<1>6. TypeOK'
  BY <1>2, <1>3, <1>5 DEF IInv, ShapeInv, TypeOK
<1>7. "enabled" \notin history.apart => InKernel("enabled", npu.enabled) \/ Awaited("enabled")
  BY <1>1 DEF IInv, Accounted
<1>8. "enabled" \notin history'.apart => (InKernel("enabled", npu.enabled) \/ Awaited("enabled"))'
  BY <1>1, <1>2, <1>3, <1>5, <1>7 DEF InKernel, Awaited, Busy, Before
<1>9. \A c \in Copied \ {"enabled"} : "mtu" \in Before(c)
  BY DEF Before, Copied
<1> QED BY <1>1, <1>2, <1>3, <1>5, <1>6, <1>8, <1>9, HandlingKeeps

LEMMA CopyMtuKeeps ==
  ASSUME IInv, CopyMtu
  PROVE  IInv'
<1>1. event.pc = "mtu" /\ "mtu" \in Copied /\ history \in History
  BY DEF CopyMtu, IInv, ShapeInv, TypeOK, Copied
<1>2. event' \in Handling /\ event'.pc = "idle"
  BY NasPortAttrAssumption DEF CopyMtu, Rest, Handling
<1>3. UNCHANGED <<kernel, known, mode, announced, queue, cps, spent>>
  BY DEF CopyMtu
<1>4. /\ event.e \in Report
      /\ ~Gone => InKernel("mtu", event.e.mtu) \/ EndsCurrent(queue, kernel)
  BY <1>1, ReportFacts
<1>5. npu' \in Npu /\ npu'.enabled = npu.enabled /\ npu'.mtu = event.e.mtu
  BY <1>4 DEF CopyMtu, Report, IInv, ShapeInv, TypeOK, Npu
<1>6. /\ history' \in History
      /\ history'.apart = IF Gone THEN history.apart \cup {"mtu"} ELSE history.apart \ {"mtu"}
  <2>1. Gone \in BOOLEAN
    BY DEF Gone
  <2>2. history' = Leave("mtu", Gone)
    BY DEF CopyMtu, Handled, Leave
  <2> QED BY <1>1, <2>1, <2>2, ApartType
<1>7. TypeOK'
  BY <1>2, <1>3, <1>5, <1>6 DEF IInv, ShapeInv, TypeOK
<1>8. "mtu" \notin history'.apart => (InKernel("mtu", npu.mtu) \/ Awaited("mtu"))'
  BY <1>3, <1>4, <1>5, <1>6 DEF InKernel, Awaited
<1>9. \A c \in Copied \ {"mtu"} : "mtu" \notin Before(c) /\ npu'[c] = npu[c]
  BY <1>5 DEF Before, Copied
<1> QED BY <1>1, <1>2, <1>3, <1>6, <1>7, <1>8, <1>9, HandlingKeeps

LEMMA CopyMtuRefusedKeeps ==
  ASSUME IInv, NEW f, CopyMtuRefused(f)
  PROVE  IInv'
<1>1. event.pc = "mtu" /\ "mtu" \in Copied /\ history \in History /\ event \in Handling
      /\ npu \in Npu /\ npu.mtu \in Mtus
  BY DEF CopyMtuRefused, IInv, ShapeInv, TypeOK, Copied, Npu
<1>2. spent' \in Spending /\ spent'.creates = spent.creates
  BY SpendType DEF CopyMtuRefused, IInv, ShapeInv
<1>3. UNCHANGED <<kernel, known, npu, mode, announced, queue, cps>>
  BY DEF CopyMtuRefused
<1>4. event.e \in Report /\ (~Gone => Busy)
  BY <1>1, ReportFacts
<1>5. /\ event' \in Handling
      /\ f = "get" => event'.pc = "idle"
      /\ f # "get" => event'.pc = "revert" /\ event'.e = event.e /\ event'.back = npu.mtu
  <2>1. Rest \in Handling /\ Rest.pc = "idle"
    BY NasPortAttrAssumption DEF Rest, Handling
  <2> DEFINE u == Upto("revert")
  <2>2. u \in Handling /\ u.pc = "revert" /\ u.e = event.e
    BY <1>1, UptoType
  <2>3. event' = IF f = "get" THEN Rest ELSE [u EXCEPT !.back = npu.mtu]
    BY DEF CopyMtuRefused
  <2> HIDE DEF u
  <2> QED BY <1>1, <2>1, <2>2, <2>3 DEF Handling
<1> DEFINE b == f = "get" \/ Gone
<1>6. history' = Leave("mtu", b) /\ b \in BOOLEAN
  BY DEF CopyMtuRefused, Handled
<1>7. /\ history' \in History
      /\ history'.apart = IF b THEN history.apart \cup {"mtu"} ELSE history.apart \ {"mtu"}
  <2> HIDE DEF b
  <2> QED BY <1>1, <1>6, ApartType
<1>8. TypeOK'
  BY <1>2, <1>3, <1>5, <1>7 DEF IInv, ShapeInv, TypeOK, Spending
<1>9. "mtu" \notin history'.apart => (InKernel("mtu", npu.mtu) \/ Awaited("mtu"))'
  BY <1>1, <1>3, <1>4, <1>5, <1>7 DEF Awaited, Busy
<1>10. \A c \in Copied \ {"mtu"} : "mtu" \notin Before(c)
  BY DEF Before, Copied
<1> HIDE DEF b
<1> QED BY <1>1, <1>2, <1>3, <1>5, <1>7, <1>8, <1>9, <1>10, HandlingKeeps

LEMMA PutBackKeeps ==
  ASSUME IInv, NEW f, PutBack(f)
  PROVE  IInv'
<1>1. event.pc = "revert" /\ event \in Handling /\ event.back \in Mtus
  BY DEF PutBack, IInv, ShapeInv, TypeOK, Handling
<1>2. spent' \in Spending /\ spent'.creates = spent.creates
  BY SpendType DEF PutBack, IInv, ShapeInv
<1>3. UNCHANGED <<known, npu, mode, announced, cps>>
  BY DEF PutBack
<1>4. event' \in Handling /\ event'.pc = "idle"
  BY NasPortAttrAssumption DEF PutBack, Rest, Handling
<1>5. /\ history' \in History
      /\ history'.apart = IF f = "kernel" THEN history.apart \cup {"mtu"} ELSE history.apart
  <2>1. history \in History /\ "mtu" \in Copied
    BY DEF IInv, ShapeInv, TypeOK, Copied
  <2> QED BY <2>1, ApartType DEF PutBack
<1>6. event.e \in Report /\ event.e.ifindex # 0
  BY <1>1, NasPortAttrAssumption DEF IInv, ShapeInv, EventInv, Report
<1>7. ASSUME kernel' \in Kernel, kernel'.ifindex = kernel.ifindex, queue' \in Seq(Report)
      PROVE  TypeOK' /\ CpsInv'
  BY <1>2, <1>3, <1>4, <1>5, <1>7 DEF Now, IInv, ShapeInv, TypeOK, CpsInv, Spending
<1>8. CASE f = "kernel" \/ event.e.ifindex # kernel.ifindex
  <2>1. kernel' = kernel /\ queue' = queue
    BY <1>8 DEF PutBack
  <2>2. TypeOK' /\ CpsInv'
    BY <1>7, <2>1 DEF IInv, ShapeInv, TypeOK
  <2>3. EventInv'
    BY <1>2, <1>4, <2>1 DEF IInv, ShapeInv, EventInv, Busy
  <2>4. Accounted'
    BY <1>1, <1>3, <1>4, <1>5, <1>8, <2>1
       DEF IInv, Accounted, Copied, InKernel, Awaited, Busy, Before
  <2> QED BY <2>2, <2>3, <2>4 DEF IInv, ShapeInv
<1>9. CASE f # "kernel" /\ event.e.ifindex = kernel.ifindex
  <2>1. KernelSet("mtu", event.back) /\ kernel.ifindex # 0
    BY <1>6, <1>9 DEF PutBack
  <2> DEFINE a == "mtu"
             v == event.back
  <2>2. a \in {"enabled", "mtu", "mac"}
        /\ v \in (IF a = "enabled" THEN BOOLEAN ELSE IF a = "mtu" THEN Mtus ELSE Values)
    BY <1>1
  <2>3. kernel'.ifindex = kernel.ifindex
    BY <2>1, <2>2, KernelSetFacts DEF IInv
  <2>4. event.pc = "revert" /\ event'.pc = "idle" /\ a = "mtu" /\ v = event.back
    BY <1>1, <1>4
  <2>5. history.apart \subseteq history'.apart /\ npu' = npu /\ KernelSet(a, v)
    BY <1>3, <1>5, <2>1
  <2> HIDE DEF a, v
  <2> QED BY <1>2, <1>7, <2>1, <2>2, <2>3, <2>4, <2>5, DeviceKeeps
<1> QED BY <1>8, <1>9
-----------------------------------------------------------------------------
LEMMA NextKeeps == IInv /\ [Next]_vars => IInv'
<1> SUFFICES ASSUME IInv, [Next]_vars PROVE IInv'
  OBVIOUS
<1>1. CASE Request
  BY <1>1, DeleteKeeps, CreateKeeps, SetKeeps DEF Request
<1>2. CASE Serve
  BY <1>2, RegisterKeeps, EndKeeps, SetNpuKeeps, SetModeKeeps, FollowKeeps, AnnounceSetKeeps,
     ShutDownKeeps, ReadKeeps, SetKernelKeeps, SetLearningKeeps, FollowRefusedKeeps,
     RevertKeeps DEF Serve
<1>3. CASE HandleEvent
  BY <1>3, TakeKeeps, CopyAdminKeeps, AnnounceCopyKeeps, CopyMtuKeeps, CompareKeeps,
     CopyMtuRefusedKeeps, PutBackKeeps DEF HandleEvent
<1>4. CASE Other
  BY <1>4, OtherSetKeeps
<1>5. CASE UNCHANGED vars
  BY <1>5 DEF vars, IInv, ShapeInv, TypeOK, CpsInv, Now, EventInv, Busy, Accounted, InKernel, Awaited
<1> QED BY <1>1, <1>2, <1>3, <1>4, <1>5 DEF Next

-----------------------------------------------------------------------------
(* Announcements.  A thread that made the port's state another has yet to   *)
(* announce it, or has noted that it is late.                               *)
AnnInv ==
  /\ known = 0 => announced = None
  /\ announced # None /\ ~history.late =>
       \/ announced = npu.enabled
       \/ cps.pc = "announce"
       \/ event.pc = "announce" /\ event.e.ifindex = known

Silent ==
  /\ UNCHANGED <<known, announced>>
  /\ npu'.enabled = npu.enabled /\ history'.late = history.late
  /\ cps.pc # "announce" \/ cps' = cps
  /\ event.pc # "announce" \/ event' = event

LEMMA SilentKeeps == AnnInv /\ Silent => AnnInv'
BY DEF AnnInv, Silent

LEMMA LeaveLate ==
  TypeOK => \A a \in Copied : \A b : Leave(a, b).late = history.late
BY DEF TypeOK, History, Leave

LEMMA RequestAnnounces == IInv /\ AnnInv /\ Request => AnnInv'
<1> SUFFICES ASSUME IInv, AnnInv, Request PROVE AnnInv'
  OBVIOUS
<1>1. CASE Delete
  BY <1>1 DEF Delete, AnnInv
<1>2. ASSUME NEW request \in Requests, Create(request) \/ Set(request) PROVE Silent
  BY <1>2 DEF Create, Set, Silent
<1> QED BY <1>1, <1>2, SilentKeeps DEF Request

LEMMA ServeAnnounces == IInv /\ AnnInv /\ Serve => AnnInv'
<1> SUFFICES ASSUME IInv, AnnInv, Serve PROVE AnnInv'
  OBVIOUS
<1>1. TypeOK /\ CpsInv /\ npu \in Npu /\ history \in History
  BY DEF IInv, ShapeInv, TypeOK
<1>2. CASE Register
  BY <1>1, <1>2 DEF Register, AnnInv, CpsInv
<1>3. CASE End \/ SetNpuRefused \/ SetMode
  BY <1>3, SilentKeeps DEF End, SetNpuRefused, SetMode, Walking, Silent
<1>4. CASE SetNpu
  BY <1>1, <1>4, SilentKeeps DEF SetNpu, Walking, Silent, Npu
<1>5. CASE Follow
  <2>1. CASE Now.attr = "enabled"
    <3>1. cps'.pc = "announce"
      BY <1>1, <1>5, <2>1 DEF Follow, Goto, TypeOK, Cps
    <3> QED BY <1>5, <3>1 DEF Follow, AnnInv
  <2>2. CASE Now.attr = "mtu"
    <3>1. npu'.enabled = npu.enabled
      BY <1>1, <1>5, <2>2 DEF Follow, Npu
    <3>2. history'.late = history.late
      BY <1>1, <1>5, <2>2, LeaveLate DEF Follow, Copied
    <3> QED BY <1>5, <3>1, <3>2, SilentKeeps DEF Follow, Silent
  <2> QED BY <1>1, <1>5, <2>1, <2>2 DEF Follow, CpsInv, Copied
<1>6. CASE AnnounceSet
  BY <1>1, <1>6 DEF AnnounceSet, Announce, AnnInv, History, CpsInv
<1>7. CASE ShutDown
  BY <1>1, <1>7 DEF ShutDown, AnnInv, CpsInv
<1>8. ASSUME NEW f, Read(f) \/ SetKernel(f) \/ SetLearning(f) PROVE Silent
  BY <1>8 DEF Read, SetKernel, SetLearning, Walking, Silent
<1>9. ASSUME NEW f, FollowRefused(f) PROVE Silent
  BY <1>1, <1>9, LeaveLate DEF FollowRefused, Silent, Copied
<1>10. ASSUME NEW f, Revert(f) PROVE Silent
  BY <1>1, <1>10 DEF Revert, Silent, History
<1> QED BY <1>2, <1>3, <1>4, <1>5, <1>6, <1>7, <1>8, <1>9, <1>10, SilentKeeps DEF Serve

LEMMA EventAnnounces == IInv /\ AnnInv /\ HandleEvent => AnnInv'
<1> SUFFICES ASSUME IInv, AnnInv, HandleEvent PROVE AnnInv'
  OBVIOUS
<1>1. TypeOK /\ CpsInv /\ npu \in Npu /\ history \in History /\ event \in Handling
  BY DEF IInv, ShapeInv, TypeOK
<1>2. CASE Take
  BY <1>1, <1>2, SilentKeeps DEF Take, Silent, History
<1>3. CASE CopyAdmin
  <2>1. event'.pc = "announce" /\ event'.e = event.e
    BY <1>1, <1>3, UptoType DEF CopyAdmin
  <2>2. CASE ~Gone
    BY <1>3, <2>1, <2>2 DEF CopyAdmin, Gone, AnnInv
  <2>3. CASE Gone
    <3>1. Handled("enabled", TRUE) \in History
      BY <1>1 DEF Handled, Leave, History
    <3>2. history'.late \/ (npu' = npu /\ history'.late = history.late)
      BY <1>1, <1>3, <2>3, <3>1, LeaveLate DEF CopyAdmin, Handled, History, Copied
    <3>3. event.pc # "announce" /\ UNCHANGED <<known, announced, cps>>
      BY <1>3 DEF CopyAdmin
    <3> QED BY <3>2, <3>3 DEF AnnInv
  <2> QED BY <2>2, <2>3
<1>4. CASE AnnounceCopy
  <2>1. event.pc = "announce" /\ UNCHANGED <<known, npu, cps>>
    BY <1>4 DEF AnnounceCopy
  <2>2. CASE event.e.ifindex = known
    <3>1. known # 0
      <4>1. event.e \in Report
        BY <2>1 DEF IInv, ShapeInv, EventInv
      <4> QED BY <2>2, <4>1, NasPortAttrAssumption DEF Report
    <3>2. announced' = event.e.enabled /\ history'.late = (event.e.enabled # npu.enabled)
      BY <1>1, <1>4, <2>2 DEF AnnounceCopy, Announce, History
    <3> QED BY <2>1, <3>1, <3>2 DEF AnnInv
  <2>3. CASE event.e.ifindex # known
    BY <1>4, <2>1, <2>3 DEF AnnounceCopy, Announce, AnnInv
  <2> QED BY <2>2, <2>3
<1>5. CASE CopyMtu
  <2>1. npu'.enabled = npu.enabled /\ history'.late = history.late
    BY <1>1, <1>5, LeaveLate DEF CopyMtu, Handled, Npu, Copied
  <2> QED BY <1>5, <2>1, SilentKeeps DEF CopyMtu, Silent
<1>6. ASSUME NEW f, Compare(f) \/ CopyMtuRefused(f) \/ PutBack(f) PROVE Silent
  <2>1. history'.late = history.late
    BY <1>1, <1>6, LeaveLate DEF Compare, CopyMtuRefused, PutBack, Handled, Copied
  <2> QED BY <1>6, <2>1 DEF Compare, CopyMtuRefused, PutBack, Silent
<1> QED BY <1>2, <1>3, <1>4, <1>5, <1>6, SilentKeeps DEF HandleEvent

LEMMA NextAnnounces == IInv /\ AnnInv /\ [Next]_vars => AnnInv'
<1>1. Other => Silent
  BY DEF Other, OtherSet, Silent
<1>2. UNCHANGED vars => Silent
  BY DEF vars, Silent
<1> QED BY <1>1, <1>2, SilentKeeps, RequestAnnounces, ServeAnnounces, EventAnnounces DEF Next
-----------------------------------------------------------------------------
(* Answers.  What a request asks for is in place or still on the list, when *)
(* no call failed and the list was not changed under the walk.              *)
Items(list) == {list[i] : i \in 1..Len(list)}
Consistent(list) == \A x, y \in Items(list) : x.attr = y.attr => x = y

(* A request does not ask for two values of one attribute. *)
RequestsConsistent == \A request \in Requests : Consistent(request)

Reliable == spent.faults = 0 /\ ~history.mixed

LearnInv ==
  \/ cps.pc = "kernel" /\ npu.learn = Now.val
  \/ cps.pc # "kernel" /\ (kernel.ifindex # 1 \/ kernel.learn = npu.learn)

ServingInv ==
  /\ Consistent(cps.asked) /\ Items(cps.todo) \subseteq Items(cps.asked)
  /\ \A x \in Items(cps.asked) : InPlace(x) \/ x \in Items(cps.todo)

AnswerInv ==
  /\ cps.pc = "idle" /\ cps.ok => \A x \in Items(cps.asked) : InPlace(x)
  /\ cps.pc \notin {"idle", "down"} => ServingInv
  /\ cps.pc = "down" => cps.asked = <<>>

OkInv ==
  /\ spent.creates = 0 => npu.learn = DefaultValue
  /\ Reliable => LearnInv /\ AnswerInv

LEMMA ItemsFacts ==
  ASSUME NEW list \in Seq(Setting)
  PROVE  /\ Items(list) \subseteq Setting
         /\ list = <<>> => Items(list) = {}
         /\ list # <<>> => /\ Head(list) \in Items(list) /\ Items(Tail(list)) \subseteq Items(list)
                          /\ \A x \in Items(list) : x = Head(list) \/ x \in Items(Tail(list))
<1>1. CASE list = <<>>
  BY <1>1 DEF Items
<1>2. CASE list # <<>>
  <2> DEFINE t == Tail(list)
  <2>1. /\ t \in Seq(Setting) /\ Len(t) = Len(list) - 1 /\ Len(list) \in Nat \ {0}
        /\ Head(list) = list[1] /\ \A i \in 1..Len(t) : t[i] = list[i + 1]
    BY <1>2, HeadTailProperties, LenProperties
  <2> HIDE DEF t
  <2>2. \A i \in 1..Len(list) : i = 1 \/ (i - 1 \in 1..Len(t) /\ t[i - 1] = list[i])
    BY <2>1
  <2>3. \A i \in 1..Len(t) : i + 1 \in 1..Len(list)
    BY <2>1
  <2>4. 1 \in 1..Len(list)
    BY <2>1
  <2> QED BY <1>2, <2>1, <2>2, <2>3, <2>4 DEF Items, t
<1> QED BY <1>1, <1>2

LEMMA KeptItems ==
  ASSUME NEW list \in Seq(Setting), NEW rest \in Kept(list)
  PROVE  /\ Items(rest) \subseteq Items(list)
         /\ \A x \in Items(list) : Same(x) \/ x \in Items(rest)
<1> DEFINE K == {i \in DOMAIN list : ~Same(list[i])}
           n == Cardinality(K)
<1>1. PICK q \in [1..n -> K] :
        /\ \A i, j \in 1..n : i < j => q[i] < q[j]
        /\ rest = [i \in 1..n |-> list[q[i]]]
  BY DEF Kept
<1>2. DOMAIN list = 1..Len(list) /\ IsFiniteSet(1..Len(list))
  BY FS_Interval
<1>3. n \in Nat /\ IsFiniteSet(K) /\ K \subseteq 1..Len(list)
  BY <1>2, FS_Subset, FS_CardinalityType
<1>4. rest \in Seq(Setting)
  BY KeptType
<1>5. Len(rest) = n /\ \A i \in 1..n : rest[i] = list[q[i]]
  BY <1>1, <1>3, <1>4, LenProperties
<1>6. \A k \in K : \E i \in 1..n : q[i] = k
  <2>1. q \in Injection(1..n, K)
    <3>1. ASSUME NEW i \in 1..n, NEW j \in 1..n, q[i] = q[j] PROVE i = j
      <4>1. q[i] \in Nat
        BY <1>1, <1>3
      <4> QED BY <1>1, <3>1, <4>1
    <3> HIDE DEF K, n
    <3> QED BY <1>1, <3>1 DEF Injection, IsInjective
  <2>2. Cardinality(1..n) = Cardinality(K)
    BY <1>3, FS_Interval
  <2> HIDE DEF K
  <2>3. q \in Surjection(1..n, K)
    BY <1>3, <2>1, <2>2, FS_Injection
  <2> QED BY <2>3 DEF Surjection
<1>7. \A x \in Items(list) : Same(x) \/ \E k \in K : list[k] = x
  BY <1>2 DEF Items
<1>8. \A k \in K : k \in 1..Len(list)
  BY <1>3
<1> HIDE DEF K, n
<1>9. Items(rest) \subseteq Items(list)
  BY <1>1, <1>5, <1>8 DEF Items
<1>10. \A k \in K : list[k] \in Items(rest)
  BY <1>1, <1>5, <1>6 DEF Items
<1> QED BY <1>7, <1>9, <1>10

LEMMA FaultsCount ==
  ASSUME TypeOK, NEW f, SpendFault(f)
  PROVE  /\ spent'.creates = spent.creates
         /\ spent'.faults = 0 => spent.faults = 0 /\ f = "none"
<1>1. spent \in Spending
  BY DEF TypeOK, Spending
<1> QED BY <1>1 DEF SpendFault, Faults, Spending

(* What InPlace and LearnInv speak of is left alone. *)
Placed ==
  /\ UNCHANGED <<mode, kernel.mac, kernel.learn, kernel.ifindex, npu.learn, npu.phy>>
  /\ spent'.creates = spent.creates
  /\ Reliable' => Reliable

LEMMA PlacedKeeps ==
  ASSUME OkInv, Placed
  PROVE  /\ \A x : InPlace(x)' <=> InPlace(x)
         /\ UNCHANGED cps => OkInv'
<1>1. \A x : InPlace(x)' <=> InPlace(x)
  BY DEF Placed, InPlace
<1>2. ASSUME UNCHANGED cps PROVE OkInv'
  BY <1>1, <1>2 DEF OkInv, Placed, LearnInv, Now, AnswerInv, ServingInv
<1> QED BY <1>1, <1>2

(* The request goes on with the same list, ends in an error, or goes on     *)
(* after an attribute that is in place.                                     *)
LEMMA PlacedServes ==
  ASSUME OkInv, Placed, cps.pc \notin {"idle", "down", "kernel"}, cps \in Cps,
         \/ cps'.pc \in {"read", "walk", "npu", "revert", "announce"}
            /\ cps'.todo = cps.todo /\ cps'.asked = cps.asked
         \/ cps'.pc = "idle" /\ ~cps'.ok
         \/ cps'.pc = "walk" /\ cps'.asked = cps.asked /\ cps.todo # <<>>
            /\ cps'.todo = Tail(cps.todo) /\ InPlace(Now)
  PROVE  OkInv'
<1>1. \A x : InPlace(x)' <=> InPlace(x)
  BY PlacedKeeps
<1>2. cps.todo \in Seq(Setting) /\ cps'.pc \notin {"kernel", "down"}
  BY DEF Cps
<1>3. LearnInv => LearnInv'
  BY <1>2 DEF LearnInv, Placed
<1>4. Reliable' => Reliable /\ ServingInv /\ LearnInv
  BY DEF Placed, OkInv, AnswerInv
<1>5. ASSUME cps'.todo = cps.todo, cps'.asked = cps.asked, Reliable' PROVE ServingInv'
  BY <1>1, <1>4, <1>5 DEF ServingInv
<1>6. ASSUME cps'.asked = cps.asked, cps.todo # <<>>, cps'.todo = Tail(cps.todo), InPlace(Now),
             Reliable'
      PROVE  ServingInv'
  BY <1>1, <1>2, <1>4, <1>6, ItemsFacts DEF ServingInv, Now
<1>7. Reliable' => AnswerInv'
  BY <1>2, <1>5, <1>6 DEF AnswerInv
<1> QED BY <1>3, <1>4, <1>7 DEF OkInv, Placed

LEMMA StartServes ==
  ASSUME TypeOK, OkInv, NEW list \in Seq(Setting), Consistent(list),
         cps.pc = "idle", cps'.pc \in {"register", "read"}, cps'.todo = list, cps'.asked = list,
         npu' = npu, spent'.faults = spent.faults, history' = history,
         \/ kernel' = kernel /\ spent'.creates = spent.creates
         \/ /\ kernel'.ifindex = spent.creates + 1 /\ spent'.creates = spent.creates + 1
            /\ kernel'.learn = DefaultValue
  PROVE  OkInv'
<1>1. spent.creates \in Nat
  BY DEF TypeOK
<1>2. LearnInv => LearnInv'
  BY <1>1 DEF OkInv, LearnInv
<1>3. Reliable' => Reliable
  BY DEF Reliable
<1>4. ServingInv'
  BY DEF ServingInv
<1> QED BY <1>1, <1>2, <1>3, <1>4 DEF OkInv, AnswerInv

LEMMA RequestAnswers ==
  ASSUME IInv, OkInv, Request, RequestsConsistent
  PROVE  OkInv'
<1>1. TypeOK /\ CpsInv /\ cps \in Cps /\ spent \in Spending
  BY DEF IInv, ShapeInv, TypeOK, Spending
<1>2. ASSUME NEW request \in Requests, Create(request) \/ Set(request) PROVE OkInv'
  <2>1. request \in Seq(Setting) /\ Consistent(request)
    BY NasPortAttrAssumption DEF RequestsConsistent
  <2>2. /\ cps.pc = "idle" /\ cps'.pc \in {"register", "read"}
        /\ cps'.todo = request /\ cps'.asked = request
    BY <1>2, IdleType DEF Create, Set, Cps
  <2>3. npu' = npu /\ history' = history /\ spent'.faults = spent.faults
    BY <1>1, <1>2 DEF Create, Set, Spending
  <2>4. CASE Set(request)
    BY <1>1, <2>1, <2>2, <2>3, <2>4, StartServes DEF Set, Spending
  <2>5. CASE Create(request)
    <3>1. /\ kernel'.ifindex = spent.creates + 1 /\ kernel'.learn = DefaultValue
          /\ spent'.creates = spent.creates + 1
      BY <1>1, <2>5 DEF Create, Spending
    <3> QED BY <1>1, <2>1, <2>2, <2>3, <3>1, StartServes
  <2> QED BY <1>2, <2>4, <2>5
<1>3. CASE Delete
  <2>1. cps.pc = "idle" /\ cps'.pc = "down" /\ cps'.asked = <<>> /\ cps'.todo = <<>>
    BY <1>3, IdleType DEF Delete, Idle, Cps
  <2>2. /\ kernel'.ifindex = 0 /\ npu' = npu /\ history' = history
        /\ spent'.faults = spent.faults /\ spent'.creates = spent.creates
    BY <1>1, <1>3 DEF Delete, Spending, TypeOK, Kernel
  <2>3. Reliable' => Reliable
    BY <2>2 DEF Reliable
  <2>4. LearnInv'
    BY <2>1, <2>2 DEF LearnInv
  <2> QED BY <2>1, <2>2, <2>3, <2>4 DEF OkInv, AnswerInv
<1> QED BY <1>2, <1>3 DEF Request

LEMMA RegisterAnswers ==
  ASSUME IInv, OkInv, Register
  PROVE  OkInv'
<1>1. cps \in Cps /\ cps.pc = "register"
  BY DEF Register, IInv, ShapeInv, TypeOK
<1>2. cps'.pc = "read" /\ cps'.todo = cps.todo /\ cps'.asked = cps.asked
  BY <1>1 DEF Register, Goto, Cps
<1>3. Placed
  BY DEF Register, Placed, Reliable
<1> QED BY <1>1, <1>2, <1>3, PlacedServes

LEMMA ReadAnswers ==
  ASSUME IInv, OkInv, NEW f, Read(f)
  PROVE  OkInv'
<1>1. TypeOK /\ cps \in Cps /\ cps.pc = "read" /\ cps.todo \in Seq(Setting)
  BY DEF Read, IInv, ShapeInv, TypeOK, Cps
<1>2. UNCHANGED <<kernel, npu, mode, history>>
  BY DEF Read
<1>3. spent'.creates = spent.creates /\ (spent'.faults = 0 => spent.faults = 0 /\ f = "none")
  BY <1>1, FaultsCount DEF Read
<1>4. Reliable' => Reliable /\ f = "none"
  BY <1>2, <1>3 DEF Reliable
<1>5. Placed
  BY <1>2, <1>3, <1>4 DEF Placed
<1>6. \A x : InPlace(x)' <=> InPlace(x)
  BY <1>5, PlacedKeeps
<1>7. LearnInv => LearnInv' \/ f = "get"
  BY <1>1, <1>2 DEF Read, Goto, LearnInv, Cps
<1>8. ASSUME Reliable' PROVE LearnInv' /\ AnswerInv'
  <2>1. f = "none" /\ LearnInv /\ ServingInv
    BY <1>1, <1>4, <1>8 DEF OkInv, AnswerInv
  <2>2. PICK rest \in Kept(cps.todo) : cps' = [Goto("walk") EXCEPT !.todo = rest]
    BY <2>1 DEF Read
  <2>3. cps'.pc = "walk" /\ cps'.todo = rest /\ cps'.asked = cps.asked
    BY <1>1, <2>2 DEF Goto, Cps
  <2>4. /\ Items(rest) \subseteq Items(cps.todo)
        /\ \A x \in Items(cps.todo) : Same(x) \/ x \in Items(rest)
    BY <1>1, <2>2, KeptItems
  <2>5. \A x : Same(x) => InPlace(x)
    <3>1. kernel.ifindex # 1 => kernel.ifindex > 1
      BY <1>1, NasPortAttrAssumption DEF IInv, ShapeInv, CpsInv, TypeOK, Kernel
    <3> QED BY <1>1, <2>1, <3>1 DEF Same, InPlace, LearnInv
  <2>6. ServingInv'
    BY <1>6, <2>1, <2>3, <2>4, <2>5 DEF ServingInv
  <2> QED BY <1>7, <2>1, <2>3, <2>6 DEF AnswerInv
<1> QED BY <1>2, <1>3, <1>8 DEF OkInv

LEMMA EndAnswers ==
  ASSUME IInv, OkInv, End \/ SetNpuRefused
  PROVE  OkInv'
<1>1. cps \in Cps /\ cps.pc = "walk"
  BY DEF End, SetNpuRefused, Walking, IInv, ShapeInv, TypeOK
<1>2. cps'.pc = "idle" /\ cps'.asked = cps.asked /\ (~cps'.ok \/ cps.todo = <<>>)
  BY <1>1 DEF End, SetNpuRefused, Answer, Cps
<1>3. Placed
  BY DEF End, SetNpuRefused, Placed, Reliable
<1>4. CASE ~cps'.ok
  BY <1>1, <1>2, <1>3, <1>4, PlacedServes
<1>5. CASE cps.todo = <<>>
  <2>1. \A x : InPlace(x)' <=> InPlace(x)
    BY <1>3, PlacedKeeps
  <2>2. Items(cps.todo) = {}
    BY <1>5 DEF Items
  <2>3. LearnInv => LearnInv'
    BY <1>1, <1>2, <1>3 DEF LearnInv, Placed
  <2> QED BY <1>1, <1>2, <1>3, <2>1, <2>2, <2>3 DEF OkInv, Placed, AnswerInv, ServingInv
<1> QED BY <1>2, <1>4, <1>5

LEMMA SettingNow ==
  ASSUME IInv, cps.pc \notin {"idle", "down"}, cps.todo # <<>>
  PROVE  /\ TypeOK /\ cps \in Cps /\ Now \in Setting /\ Now \in Items(cps.todo)
         /\ kernel.ifindex # 0 /\ spent.creates # 0
<1>1. TypeOK /\ cps \in Cps /\ cps.todo \in Seq(Setting)
  BY DEF IInv, ShapeInv, TypeOK, Cps
<1>2. kernel.ifindex # 0 /\ spent.creates # 0
  BY DEF IInv, ShapeInv, CpsInv
<1> QED BY <1>1, <1>2, NowFacts, ItemsFacts DEF Now

(* The attribute being set is put in its place, and no other is touched. *)
LEMMA AdvanceServes ==
  ASSUME OkInv, cps \in Cps, cps.pc \notin {"idle", "down"}, cps.todo # <<>>,
         NEW now, now = Now,
         cps'.pc = "walk", cps'.asked = cps.asked, cps'.todo = Tail(cps.todo),
         \A x : x.attr # now.attr /\ InPlace(x) => InPlace(x)', InPlace(now)',
         spent'.creates # 0, Reliable' => Reliable /\ LearnInv'
  PROVE  OkInv'
<1>1. cps.todo \in Seq(Setting)
  BY DEF Cps
<1>2. Reliable' => ServingInv
  BY DEF OkInv, AnswerInv
<1>3. ASSUME Reliable' PROVE ServingInv'
  <2>1. /\ now \in Items(cps.todo) /\ Items(Tail(cps.todo)) \subseteq Items(cps.todo)
        /\ \A x \in Items(cps.todo) : x = now \/ x \in Items(Tail(cps.todo))
    BY <1>1, ItemsFacts DEF Now
  <2>2. \A x \in Items(cps.asked) : x.attr = now.attr => x = now
    BY <1>2, <1>3, <2>1 DEF ServingInv, Consistent
  <2>3. \A x \in Items(cps.asked) : InPlace(x)' \/ x \in Items(Tail(cps.todo))
    BY <1>2, <1>3, <2>1, <2>2 DEF ServingInv
  <2> QED BY <1>2, <1>3, <2>1, <2>3 DEF ServingInv
<1> QED BY <1>3 DEF OkInv, AnswerInv

LEMMA SetNpuAnswers ==
  ASSUME IInv, OkInv, SetNpu
  PROVE  OkInv'
<1>1. cps.pc = "walk" /\ cps.todo # <<>> /\ Now.attr \in {"learn", "phy"}
  BY DEF SetNpu, Walking
<1>2. /\ TypeOK /\ cps \in Cps /\ Now \in Setting /\ Now \in Items(cps.todo)
      /\ spent.creates # 0
  BY <1>1, SettingNow
<1>3. UNCHANGED <<kernel, mode, history, spent>>
  BY DEF SetNpu
<1>4. Reliable' <=> Reliable
  BY <1>3 DEF Reliable
<1>5. npu'[Now.attr] = Now.val /\ \A a \in {"learn", "phy"} : a # Now.attr => npu'[a] = npu[a]
  BY <1>1, <1>2 DEF SetNpu, TypeOK, Npu
<1>6. CASE Now.attr = "phy"
  <2>1. cps'.pc = "walk" /\ cps'.asked = cps.asked /\ cps'.todo = Tail(cps.todo)
    BY <1>2, <1>6 DEF SetNpu, Onward, Cps
  <2>2. PICK now : now = Now
    OBVIOUS
  <2>3. InPlace(now)' /\ \A x : x.attr # now.attr /\ InPlace(x) => InPlace(x)'
    BY <1>3, <1>5, <1>6, <2>2 DEF InPlace
  <2>4. LearnInv => LearnInv'
    BY <1>1, <1>3, <1>5, <1>6, <2>1 DEF LearnInv
  <2>5. Reliable' => Reliable /\ LearnInv'
    BY <1>4, <2>4 DEF OkInv
  <2> QED BY <1>1, <1>2, <1>3, <2>1, <2>2, <2>3, <2>5, AdvanceServes
<1>7. CASE Now.attr = "learn"
  <2>1. cps'.pc = "kernel" /\ cps'.asked = cps.asked /\ cps'.todo = cps.todo
    BY <1>2, <1>7 DEF SetNpu, Goto, Cps
  <2>2. LearnInv'
    BY <1>5, <1>7, <2>1 DEF LearnInv, Now
  <2>3. ASSUME Reliable' PROVE ServingInv'
    <3>1. ServingInv
      BY <1>1, <1>4, <2>3 DEF OkInv, AnswerInv
    <3>2. \A x \in Items(cps.asked) : x.attr = "learn" => x \in Items(cps.todo)
      BY <1>2, <1>7, <3>1 DEF ServingInv, Consistent
    <3>3. \A x : x.attr # "learn" /\ InPlace(x) => InPlace(x)'
      BY <1>3, <1>5, <1>7 DEF InPlace
    <3> QED BY <2>1, <3>1, <3>2, <3>3 DEF ServingInv
  <2> QED BY <1>2, <1>3, <2>1, <2>2, <2>3 DEF OkInv, AnswerInv
<1> QED BY <1>1, <1>6, <1>7

LEMMA SetModeAnswers ==
  ASSUME IInv, OkInv, SetMode
  PROVE  OkInv'
<1>1. cps.pc = "walk" /\ cps.todo # <<>> /\ Now.attr = "mode" /\ mode' = Now.val
  BY DEF SetMode, Walking
<1>2. cps \in Cps /\ spent.creates # 0
  BY <1>1, SettingNow
<1>3. UNCHANGED <<kernel, npu, history, spent>>
  BY DEF SetMode
<1>4. cps'.pc = "walk" /\ cps'.asked = cps.asked /\ cps'.todo = Tail(cps.todo)
  BY <1>2 DEF SetMode, Onward, Cps
<1>5. PICK now : now = Now
  OBVIOUS
<1>6. InPlace(now)' /\ \A x : x.attr # now.attr /\ InPlace(x) => InPlace(x)'
  BY <1>1, <1>3, <1>5 DEF InPlace
<1>7. Reliable' => Reliable /\ LearnInv'
  BY <1>1, <1>3, <1>4 DEF Reliable, OkInv, LearnInv
<1> QED BY <1>1, <1>2, <1>3, <1>4, <1>5, <1>6, <1>7, AdvanceServes

LEMMA SetLearningAnswers ==
  ASSUME IInv, OkInv, NEW f, SetLearning(f)
  PROVE  OkInv'
<1>1. cps.pc = "kernel" /\ cps.todo # <<>> /\ Now.attr = "learn"
  BY DEF SetLearning, IInv, ShapeInv, CpsInv
<1>2. TypeOK /\ cps \in Cps /\ spent.creates # 0
  BY <1>1, SettingNow
<1>3. UNCHANGED <<npu, mode, history>>
  BY DEF SetLearning
<1>4. spent'.creates = spent.creates /\ (spent'.faults = 0 => spent.faults = 0 /\ f = "none")
  BY <1>2, FaultsCount DEF SetLearning
<1>5. Reliable' => Reliable /\ f = "none"
  BY <1>3, <1>4 DEF Reliable
<1>6. cps'.pc = "walk" /\ cps'.asked = cps.asked /\ cps'.todo = Tail(cps.todo)
  BY <1>2 DEF SetLearning, Onward, Cps
<1>7. CASE ~Reliable'
  BY <1>2, <1>4, <1>7 DEF OkInv
<1>8. CASE Reliable'
  <2>1. LearnInv /\ npu.learn = Now.val
    BY <1>1, <1>5, <1>8 DEF OkInv, LearnInv
  <2>2. kernel'.learn = Now.val /\ kernel'.mac = kernel.mac /\ kernel'.ifindex = kernel.ifindex
    BY <1>2, <1>5, <1>8 DEF SetLearning, TypeOK, Kernel
  <2>3. PICK now : now = Now
    OBVIOUS
  <2>4. InPlace(now)' /\ \A x : x.attr # now.attr /\ InPlace(x) => InPlace(x)'
    BY <1>1, <1>3, <2>1, <2>2, <2>3 DEF InPlace
  <2>5. LearnInv'
    BY <1>3, <1>6, <2>1, <2>2 DEF LearnInv
  <2> QED BY <1>1, <1>2, <1>4, <1>5, <1>6, <2>3, <2>4, <2>5, AdvanceServes
<1> QED BY <1>7, <1>8

LEMMA SetKernelAnswers ==
  ASSUME IInv, OkInv, NEW f, SetKernel(f)
  PROVE  OkInv'
<1>1. cps.pc = "walk" /\ cps.todo # <<>> /\ Now.attr \in {"enabled", "mtu", "mac"}
  BY DEF SetKernel, Walking
<1>2. TypeOK /\ cps \in Cps /\ kernel \in Kernel /\ spent.creates # 0
  BY <1>1, SettingNow DEF TypeOK
<1>3. UNCHANGED <<npu, mode, history>>
  BY DEF SetKernel
<1>4. spent'.creates = spent.creates /\ (spent'.faults = 0 => spent.faults = 0 /\ f = "none")
  BY <1>2, FaultsCount DEF SetKernel
<1>5. Reliable' => Reliable
  BY <1>3, <1>4 DEF Reliable
<1>6. CASE f = "kernel"
  <2>1. cps'.pc = "idle" /\ ~cps'.ok /\ kernel' = kernel
    BY <1>2, <1>6 DEF SetKernel, Answer, Cps
  <2>2. Placed
    BY <1>3, <1>4, <1>5, <2>1 DEF Placed
  <2> QED BY <1>1, <1>2, <2>1, <2>2, PlacedServes
<1>7. CASE f # "kernel" /\ Now.attr = "mac"
  <2>1. cps'.pc = "walk" /\ cps'.asked = cps.asked /\ cps'.todo = Tail(cps.todo)
    BY <1>2, <1>7 DEF SetKernel, Onward, Cps
  <2>2. kernel'.mac = Now.val /\ kernel'.learn = kernel.learn /\ kernel'.ifindex = kernel.ifindex
    BY <1>2, <1>7 DEF SetKernel, KernelSet, Kernel
  <2>3. PICK now : now = Now
    OBVIOUS
  <2>4. InPlace(now)' /\ \A x : x.attr # now.attr /\ InPlace(x) => InPlace(x)'
    BY <1>3, <1>7, <2>2, <2>3 DEF InPlace
  <2>5. LearnInv => LearnInv'
    BY <1>1, <1>3, <2>1, <2>2 DEF LearnInv
  <2>6. Reliable' => Reliable /\ LearnInv'
    BY <1>5, <2>5 DEF OkInv
  <2> QED BY <1>1, <1>2, <1>4, <2>1, <2>3, <2>4, <2>6, AdvanceServes
<1>8. CASE f # "kernel" /\ Now.attr \in Copied
  <2>1. cps'.pc = "npu" /\ cps'.asked = cps.asked /\ cps'.todo = cps.todo
    BY <1>2, <1>8 DEF SetKernel, Goto, Cps, Copied
  <2>2. /\ kernel'.mac = kernel.mac /\ kernel'.learn = kernel.learn
        /\ kernel'.ifindex = kernel.ifindex
    BY <1>2, <1>8 DEF SetKernel, KernelSet, Kernel, Copied
  <2>3. Placed
    BY <1>3, <1>4, <1>5, <2>2 DEF Placed
  <2> QED BY <1>1, <1>2, <2>1, <2>3, PlacedServes
<1> QED BY <1>1, <1>6, <1>7, <1>8 DEF Copied

LEMMA FollowAnswers ==
  ASSUME IInv, OkInv, Follow
  PROVE  OkInv'
<1>1. cps.pc = "npu" /\ cps.todo # <<>> /\ Now.attr \in Copied
  BY DEF Follow, IInv, ShapeInv, CpsInv
<1>2. TypeOK /\ cps \in Cps
  BY <1>1, SettingNow
<1>3. npu'.learn = npu.learn /\ npu'.phy = npu.phy /\ history'.mixed = history.mixed
  BY <1>1, <1>2 DEF Follow, Leave, TypeOK, Npu, History, Copied
<1>4. Placed
  BY <1>3 DEF Follow, Placed, Reliable
<1>5. CASE Now.attr = "enabled"
  <2>1. cps'.pc = "announce" /\ cps'.asked = cps.asked /\ cps'.todo = cps.todo
    BY <1>2, <1>5 DEF Follow, Goto, Cps
  <2> QED BY <1>1, <1>2, <1>4, <2>1, PlacedServes
<1>6. CASE Now.attr = "mtu"
  <2>1. cps'.pc = "walk" /\ cps'.asked = cps.asked /\ cps'.todo = Tail(cps.todo)
    BY <1>2, <1>6 DEF Follow, Onward, Cps
  <2>2. InPlace(Now)
    BY <1>6 DEF InPlace
  <2> QED BY <1>1, <1>2, <1>4, <2>1, <2>2, PlacedServes
<1> QED BY <1>1, <1>5, <1>6 DEF Copied

LEMMA FollowRefusedAnswers ==
  ASSUME IInv, OkInv, NEW f, FollowRefused(f)
  PROVE  OkInv'
<1>1. cps.pc = "npu" /\ TypeOK /\ cps \in Cps
  BY DEF FollowRefused, IInv, ShapeInv, TypeOK
<1>2. UNCHANGED <<kernel, npu, mode>> /\ history'.mixed = history.mixed
  BY <1>1 DEF FollowRefused, Leave, TypeOK, History
<1>3. spent'.creates = spent.creates /\ (spent'.faults = 0 => spent.faults = 0)
  BY <1>1, FaultsCount DEF FollowRefused
<1>4. Placed
  BY <1>2, <1>3 DEF Placed, Reliable
<1>5. \/ cps'.pc = "revert" /\ cps'.todo = cps.todo /\ cps'.asked = cps.asked
      \/ cps'.pc = "idle" /\ ~cps'.ok
  BY <1>1 DEF FollowRefused, Goto, Answer, Cps
<1> QED BY <1>1, <1>4, <1>5, PlacedServes

LEMMA RevertAnswers ==
  ASSUME IInv, OkInv, NEW f, Revert(f)
  PROVE  OkInv'
<1>1. cps.pc = "revert" /\ cps.todo # <<>> /\ Now.attr \in Copied
  BY DEF Revert, IInv, ShapeInv, CpsInv
<1>2. TypeOK /\ cps \in Cps /\ kernel \in Kernel
  BY <1>1, SettingNow DEF TypeOK
<1>3. UNCHANGED <<npu, mode>> /\ history'.mixed = (history.mixed \/ Now.attr = "enabled")
  BY <1>2 DEF Revert, TypeOK, History
<1>4. spent'.creates = spent.creates /\ (spent'.faults = 0 => spent.faults = 0)
  BY <1>2, FaultsCount DEF Revert
<1>5. CASE Now.attr = "enabled"
  BY <1>3, <1>4, <1>5 DEF OkInv, Reliable
<1>6. CASE Now.attr = "mtu"
  <2>1. cps'.pc = "idle" /\ ~cps'.ok
    BY <1>2, <1>6 DEF Revert, Answer, Cps
  <2>2. /\ kernel'.mac = kernel.mac /\ kernel'.learn = kernel.learn
        /\ kernel'.ifindex = kernel.ifindex
    BY <1>2, <1>6 DEF Revert, KernelSet, Kernel
  <2>3. Placed
    BY <1>3, <1>4, <2>2 DEF Placed, Reliable
  <2> QED BY <1>1, <1>2, <2>1, <2>3, PlacedServes
<1> QED BY <1>1, <1>5, <1>6 DEF Copied

LEMMA AnnounceSetAnswers ==
  ASSUME IInv, OkInv, AnnounceSet
  PROVE  OkInv'
<1>1. cps.pc = "announce" /\ cps.todo # <<>> /\ Now.attr = "enabled"
  BY DEF AnnounceSet, IInv, ShapeInv, CpsInv
<1>2. TypeOK /\ cps \in Cps
  BY <1>1, SettingNow
<1>3. history'.mixed = history.mixed
  BY <1>2 DEF AnnounceSet, Announce, TypeOK, History
<1>4. Placed
  BY <1>3 DEF AnnounceSet, Placed, Reliable
<1>5. cps'.pc = "walk" /\ cps'.asked = cps.asked /\ cps'.todo = Tail(cps.todo)
  BY <1>2 DEF AnnounceSet, Onward, Cps
<1>6. InPlace(Now)
  BY <1>1 DEF InPlace
<1> QED BY <1>1, <1>2, <1>4, <1>5, <1>6, PlacedServes

LEMMA ShutDownAnswers ==
  ASSUME IInv, OkInv, ShutDown
  PROVE  OkInv'
<1>1. TypeOK /\ cps \in Cps /\ cps.pc = "down"
  BY DEF ShutDown, IInv, ShapeInv, TypeOK
<1>2. npu'.learn = npu.learn /\ npu'.phy = npu.phy /\ history'.mixed = history.mixed
  BY <1>1 DEF ShutDown, Leave, TypeOK, Npu, History
<1>3. Placed
  BY <1>2 DEF ShutDown, Placed, Reliable
<1>4. cps'.pc = "idle" /\ cps'.asked = cps.asked
  BY <1>1 DEF ShutDown, Answer, Cps
<1>5. LearnInv => LearnInv'
  BY <1>1, <1>3, <1>4 DEF LearnInv, Placed
<1>6. Reliable' => AnswerInv'
  BY <1>1, <1>3, <1>4, ItemsFacts, EmptySeq DEF OkInv, AnswerInv, Placed, Items
<1> QED BY <1>3, <1>5, <1>6 DEF OkInv, Placed

LEMMA EventAnswers ==
  ASSUME IInv, OkInv, HandleEvent \/ Other
  PROVE  OkInv'
<1>1. TypeOK /\ kernel \in Kernel /\ npu \in Npu /\ history \in History
  BY DEF IInv, ShapeInv, TypeOK
<1>2. \A a, differs : Leave(a, differs).mixed = history.mixed
  BY <1>1 DEF Leave, History
<1>3. ASSUME Take \/ CopyAdmin \/ AnnounceCopy \/ CopyMtu PROVE Placed
  <2>1. npu'.learn = npu.learn /\ npu'.phy = npu.phy
    BY <1>1, <1>3 DEF Take, CopyAdmin, AnnounceCopy, CopyMtu, Npu
  <2>2. history'.mixed = history.mixed
    BY <1>1, <1>2, <1>3 DEF Take, CopyAdmin, AnnounceCopy, CopyMtu, Handled, Leave, Announce, History
  <2> QED BY <1>3, <2>1, <2>2 DEF Take, CopyAdmin, AnnounceCopy, CopyMtu, Placed, Reliable
<1>4. ASSUME NEW f, Compare(f) \/ CopyMtuRefused(f) \/ PutBack(f) PROVE Placed
  <2>1. /\ kernel'.mac = kernel.mac /\ kernel'.learn = kernel.learn
        /\ kernel'.ifindex = kernel.ifindex
    BY <1>1, <1>4 DEF Compare, CopyMtuRefused, PutBack, KernelSet, Kernel
  <2>2. history'.mixed = history.mixed
    <3>1. CASE Compare(f)
      BY <1>2, <3>1 DEF Compare, Handled
    <3>2. CASE CopyMtuRefused(f)
      BY <1>2, <3>2 DEF CopyMtuRefused, Handled
    <3>3. CASE PutBack(f)
      BY <1>2, <3>3 DEF PutBack
    <3> QED BY <1>4, <3>1, <3>2, <3>3
  <2>3. spent'.creates = spent.creates /\ (spent'.faults = 0 => spent.faults = 0)
    BY <1>1, <1>4, FaultsCount DEF Compare, CopyMtuRefused, PutBack
  <2> QED BY <1>4, <2>1, <2>2, <2>3 DEF Compare, CopyMtuRefused, PutBack, Placed, Reliable
<1>5. ASSUME Other PROVE Placed
  <2>1. /\ kernel'.mac = kernel.mac /\ kernel'.learn = kernel.learn
        /\ kernel'.ifindex = kernel.ifindex
    BY <1>1, <1>5 DEF Other, OtherSet, KernelSet, Kernel
  <2>2. spent'.creates = spent.creates /\ spent'.faults = spent.faults
    BY <1>1, <1>5 DEF Other, OtherSet, TypeOK
  <2> QED BY <1>5, <2>1, <2>2 DEF Other, OtherSet, Placed, Reliable
<1>6. Placed
  BY <1>3, <1>4, <1>5 DEF HandleEvent
<1>7. UNCHANGED cps
  BY DEF HandleEvent, Take, CopyAdmin, AnnounceCopy, CopyMtu, Compare, CopyMtuRefused, PutBack,
         Other, OtherSet
<1> QED BY <1>6, <1>7, PlacedKeeps

LEMMA NextAnswers ==
  ASSUME RequestsConsistent, IInv, OkInv, [Next]_vars
  PROVE  OkInv'
<1>1. ASSUME Serve PROVE OkInv'
  BY <1>1, RegisterAnswers, EndAnswers, SetNpuAnswers, SetModeAnswers, FollowAnswers,
     AnnounceSetAnswers, ShutDownAnswers, ReadAnswers, SetKernelAnswers, SetLearningAnswers,
     FollowRefusedAnswers, RevertAnswers DEF Serve
<1>2. ASSUME UNCHANGED vars PROVE OkInv'
  BY <1>2, PlacedKeeps DEF vars, Placed, Reliable
<1> QED BY <1>1, <1>2, RequestAnswers, EventAnswers DEF Next
-----------------------------------------------------------------------------
(* Device, NPU, queue, the request being served and the report being        *)
(* handled keep their types however the threads of nas_int_logical_cps.cpp  *)
(* and nas_int_ev_handler interleave and whatever the NPU refuses.          *)
THEOREM TypeCorrect == Spec => []TypeOK
<1>1. IInv => TypeOK
  BY DEF IInv, ShapeInv
<1> QED BY <1>1, InitInv, NextKeeps, PTL DEF Spec

(* The two threads, which no lock orders, leave the NPU with the kernel's   *)
(* admin state and MTU, whatever values are set, refused and put back and   *)
(* however often, but for the cases that apart names.                       *)
THEOREM BothSidesAgree == Spec => []KernelAndNpuAgree
<1>1. IInv => KernelAndNpuAgree
  <2> SUFFICES ASSUME IInv, Quiet, NEW a \in Copied \ history.apart PROVE InKernel(a, npu[a])
    BY DEF KernelAndNpuAgree, Copied
  <2>1. InKernel(a, npu[a]) \/ Awaited(a)
    BY DEF IInv, Accounted
  <2>2. ~Awaited(a)
    BY DEF Quiet, Awaited, EndsCurrent, Busy
  <2> QED BY <2>1, <2>2
<1> QED BY <1>1, InitInv, NextKeeps, PTL DEF Spec

(* The admin state nas_send_admin_state_event announced last is the port's  *)
(* once both threads rest, unless the port did not have it when it was      *)
(* announced, refused or set again by the other thread since, or was        *)
(* changed for an interface that was deleted.                               *)
THEOREM AnnouncementsTrue == Spec => []AnnouncedUnlessLate
<1>1. Init => IInv /\ AnnInv
  BY InitInv DEF Init, AnnInv
<1>2. (IInv /\ AnnInv) /\ [Next]_vars => (IInv /\ AnnInv)'
  BY NextKeeps, NextAnnounces
<1>3. AnnInv => AnnouncedUnlessLate
  BY DEF AnnInv, AnnouncedUnlessLate, Quiet
<1> QED BY <1>1, <1>2, <1>3, PTL DEF Spec

(* While no call has failed and the NPU has refused no admin state, a       *)
(* request is answered OK only when each of its attributes but admin state  *)
(* and MTU has the value asked for in every place that has it, though       *)
(* remove_same_values takes some off the list and the event thread runs     *)
(* between the steps.                                                       *)
THEOREM AnswersTrue ==
  ASSUME RequestsConsistent
  PROVE  Spec => []OkMeansInPlace
<1>1. Init => IInv /\ OkInv
  <2>1. Init => OkInv
    BY DEF Init, OkInv, LearnInv, AnswerInv, Idle
  <2> QED BY <2>1, InitInv
<1>2. (IInv /\ OkInv) /\ [Next]_vars => (IInv /\ OkInv)'
  BY NextKeeps, NextAnswers
<1>3. IInv /\ OkInv => OkMeansInPlace
  <2> SUFFICES ASSUME IInv, OkInv, cps.pc = "idle", cps.ok, Reliable, NEW i \in DOMAIN cps.asked
               PROVE  InPlace(cps.asked[i])
    BY DEF OkMeansInPlace, Reliable
  <2>1. cps.asked \in Seq(Setting)
    BY DEF IInv, ShapeInv, TypeOK, Cps
  <2> QED BY <2>1 DEF OkInv, AnswerInv, Items
<1> QED BY <1>1, <1>2, <1>3, PTL DEF Spec
=============================================================================
