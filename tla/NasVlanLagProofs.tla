-------------------------- MODULE NasVlanLagProofs ---------------------------
(***************************************************************************)
(* Proofs about NasVlanLag, for any ports, LAGs, bridges, VLAN ids,        *)
(* requests and bounds.                                                    *)
(*                                                                         *)
(* The first part is the types.  The second compares lag_list with the LAG *)
(* manager's table: CopyInv says that the publications still to come lead  *)
(* from what the copy was last told to what was published last, and which  *)
(* part of the table that is.                                              *)
(*                                                                         *)
(* The third compares lag_list with the NPU: Matches says that the VLANs   *)
(* have the ports of the LAGs that have their ids, but for what is         *)
(* excused; Follow adds to the excuses what a request that walks the       *)
(* members of a LAG has not got to yet, and FollowInv is the invariant as  *)
(* long as no call has failed.  It needs CopyInv and Marked: a port that   *)
(* lag_list has in two LAGs is one of those that history names.            *)
(*                                                                         *)
(* The fourth compares the table with the kernel: Heard says that what the *)
(* kernel has and the table has not is in an event that is still in the    *)
(* queue, and that the last event of an interface there tells where the    *)
(* interface is.                                                           *)
(***************************************************************************)
EXTENDS NasVlanLag, SequenceTheorems, FiniteSetTheorems, TLAPS

(* What the VLAN manager does leaves the copy of the LAG table alone. *)
VlanOnly(s, t) == t \in VlanState /\ t.entries = s.entries /\ t.mem = s.mem

Served == cps.work # {} \/ cps.item # None => cps.br \in Bridges

TypeInv == TypeOK /\ Served
-----------------------------------------------------------------------------
(* The functions on the tables. *)

LEMMA NpuType ==
  ASSUME NEW s \in VlanState, NEW v, NEW m \in Modes, NEW S \in SUBSET Ports, NEW f
  PROVE  VlanOnly(s, NpuAdd(s, v, m, S, f)) /\ VlanOnly(s, NpuDel(s, v, m, S, f))
<1>1. CASE v \in Vids
  BY <1>1 DEF VlanOnly, VlanState, NpuAdd, NpuDel, Has
<1>2. CASE v \notin Vids
  BY <1>2 DEF VlanOnly, NpuAdd, NpuDel, Has
<1> QED BY <1>1, <1>2

(* The VLAN ids of the LAGs are no part of the copy. *)
LEMMA VlansType ==
  ASSUME NEW s, NEW t, VlanOnly(s, t), NEW u \in [Lags \X Modes -> SUBSET MaybeVid]
  PROVE  VlanOnly(s, [t EXCEPT !.vlans = u])
<1>1. t \in VlanState
  BY DEF VlanOnly
<1>2. [t EXCEPT !.vlans = u] \in VlanState
  BY <1>1 DEF VlanState
<1> QED BY <1>1, <1>2 DEF VlanOnly, VlanState

(* nas_handle_lag_update_for_vlan and nas_base_handle_lag_del. *)
LEMMA LagType ==
  ASSUME NEW s \in VlanState, NEW l \in Lags, NEW v \in MaybeVid, NEW m \in Modes, NEW f
  PROVE  VlanOnly(s, AddLag(s, l, v, m, f)) /\ VlanOnly(s, DelLag(s, l, v, f))
<1>1. s.mem[l] \in SUBSET Ports
  BY DEF VlanState
<1>2. VlanOnly(s, AddLag(s, l, v, m, f))
  <2> DEFINE t == NpuAdd(s, v, m, s.mem[l], f)
  <2>1. VlanOnly(s, t)
    BY <1>1, NpuType
  <2>2. \/ AddLag(s, l, v, m, f) = s
        \/ AddLag(s, l, v, m, f) = [t EXCEPT !.vlans[<<l, m>>] = @ \cup {v}]
    BY DEF AddLag
  <2> HIDE DEF t
  <2>3. <<l, m>> \in Lags \X Modes /\ t.vlans \in [Lags \X Modes -> SUBSET MaybeVid]
    BY <2>1 DEF VlanOnly, VlanState
  <2> DEFINE u == [t.vlans EXCEPT ![<<l, m>>] = @ \cup {v}]
  <2>4. u \in [Lags \X Modes -> SUBSET MaybeVid]
    BY <2>3
  <2>5. AddLag(s, l, v, m, f) = s \/ AddLag(s, l, v, m, f) = [t EXCEPT !.vlans = u]
    BY <2>2
  <2> HIDE DEF u
  <2>6. VlanOnly(s, [t EXCEPT !.vlans = u])
    BY <2>1, <2>4, VlansType
  <2> QED BY <2>5, <2>6 DEF VlanOnly
<1>3. VlanOnly(s, DelLag(s, l, v, f))
  <2> DEFINE k == DelMode(s, l, v)
             t == NpuDel(s, v, k, s.mem[l], f)
  <2>0. k \in Modes
    BY DEF DelMode, Modes
  <2>1. VlanOnly(s, t)
    BY <1>1, <2>0, NpuType
  <2>2. \/ DelLag(s, l, v, f) = s
        \/ DelLag(s, l, v, f) = [t EXCEPT !.vlans[<<l, k>>] = @ \ {v}]
    BY DEF DelLag
  <2> HIDE DEF t, k
  <2>3. <<l, k>> \in Lags \X Modes /\ t.vlans \in [Lags \X Modes -> SUBSET MaybeVid]
    BY <2>0, <2>1 DEF VlanOnly, VlanState
  <2> DEFINE u == [t.vlans EXCEPT ![<<l, k>>] = @ \ {v}]
  <2>4. u \in [Lags \X Modes -> SUBSET MaybeVid]
    BY <2>3
  <2>5. DelLag(s, l, v, f) = s \/ DelLag(s, l, v, f) = [t EXCEPT !.vlans = u]
    BY <2>2
  <2> HIDE DEF u
  <2>6. VlanOnly(s, [t EXCEPT !.vlans = u])
    BY <2>1, <2>4, VlansType
  <2> QED BY <2>5, <2>6 DEF VlanOnly
<1> QED BY <1>2, <1>3

LEMMA BridgeType ==
  ASSUME NEW s \in VlanState, NEW b \in Bridges, NEW f
  PROVE  /\ VlanOnly(s, BridgeInsert(s, b)) /\ VlanOnly(s, BridgeCleanup(s, b, f))
         /\ StaleAfter(s, b) \subseteq Lags \X Modes \X MaybeVid
<1>1. VlanOnly(s, BridgeInsert(s, b))
  BY DEF VlanOnly, VlanState, BridgeInsert, MaybeVid
<1>2. VlanOnly(s, BridgeCleanup(s, b, f))
  BY DEF VlanOnly, VlanState, BridgeCleanup, MaybeVid
<1>3. StaleAfter(s, b) \subseteq Lags \X Modes \X MaybeVid
  BY DEF StaleAfter, VlanState
<1> QED BY <1>1, <1>2, <1>3

LEMMA AddStoredType ==
  ASSUME NEW s \in VlanState, NEW b \in Bridges, NEW f
  PROVE  VlanOnly(s, AddStored(s, b, f))
<1> DEFINE v == s.vid[b]
           new == {l \in s.stored[b] \cap s.entries : v \notin s.vlans[<<l, "untagged">>]}
           S == UNION {s.mem[l] : l \in new}
           t == NpuAdd(s, v, "untagged", S, f)
           u == [x \in Lags \X Modes |->
                  IF x[1] \in new /\ x[2] = "untagged" THEN t.vlans[x] \cup {v}
                  ELSE t.vlans[x]]
<1>1. S \in SUBSET Ports /\ v \in MaybeVid /\ "untagged" \in Modes
  <2>1. \A l \in new : s.mem[l] \in SUBSET Ports
    BY DEF VlanState
  <2>2. v \in MaybeVid /\ "untagged" \in Modes
    BY DEF VlanState, Modes
  <2> HIDE DEF new, v
  <2>3. S \subseteq Ports
    BY <2>1
  <2> QED BY <2>2, <2>3
<1>2. VlanOnly(s, t)
  BY <1>1, NpuType
<1>3. AddStored(s, b, f) = [t EXCEPT !.vlans = u]
  BY DEF AddStored
<1> HIDE DEF t, new, v
<1>4. u \in [Lags \X Modes -> SUBSET MaybeVid]
  <2>1. t.vlans \in [Lags \X Modes -> SUBSET MaybeVid]
    BY <1>2 DEF VlanOnly, VlanState
  <2> QED BY <1>1, <2>1
<1> HIDE DEF u
<1> QED BY <1>2, <1>3, <1>4, VlansType

LEMMA FirstTaggedType ==
  ASSUME NEW s \in VlanState, NEW b \in Bridges, NEW v \in Vids, NEW p \in Members, NEW f
  PROVE  VlanOnly(s, FirstTagged(s, b, v, p, f))
<1> DEFINE named == [s EXCEPT !.vid[b] = v]
           made == [named EXCEPT !.npuVlans = @ \cup {v}]
           joined == IF p = Phys THEN made ELSE AddLag(made, p, v, "tagged", f)
<1>1. VlanOnly(s, named)
  BY DEF VlanOnly, VlanState, MaybeVid
<1>2. VlanOnly(s, made)
  BY DEF VlanOnly, VlanState, MaybeVid
<1> HIDE DEF made, named
<1>3. VlanOnly(s, joined)
  BY <1>2, LagType DEF VlanOnly, Members, MaybeVid, Modes
<1>4. VlanOnly(s, AddStored(joined, b, f))
  BY <1>3, AddStoredType DEF VlanOnly
<1>5. FirstTagged(s, b, v, p, f) \in {named, made, AddStored(joined, b, f)}
  BY DEF FirstTagged, named, made
<1> QED BY <1>1, <1>2, <1>4, <1>5

LEMMA MemberAddType ==
  ASSUME NEW s \in VlanState, NEW b \in Bridges, NEW v \in MaybeVid, NEW p \in Members, NEW f
  PROVE  VlanOnly(s, MemberAdd(s, b, p, v, f))
<1>1. CASE s.vid[b] = 0 /\ v # 0
  BY <1>1, FirstTaggedType DEF MemberAdd, MaybeVid
<1>2. CASE s.vid[b] = 0 /\ v = 0 /\ p # Phys
  BY <1>2 DEF MemberAdd, VlanOnly, VlanState, Members
<1>3. CASE s.vid[b] # 0 /\ p # Phys
  <2>1. s.vid[b] \in MaybeVid /\ ModeOf(v) \in Modes /\ p \in Lags
    BY <1>3 DEF VlanState, ModeOf, Modes, Members
  <2>2. MemberAdd(s, b, p, v, f) = AddLag(s, p, s.vid[b], ModeOf(v), f)
    BY <1>3 DEF MemberAdd
  <2> QED BY <2>1, <2>2, LagType
<1>4. CASE p = Phys /\ ~(s.vid[b] = 0 /\ v # 0)
  BY <1>4 DEF MemberAdd, VlanOnly
<1> QED BY <1>1, <1>2, <1>3, <1>4

(* What the event thread does for a kernel event. *)
LEMMA HandleType ==
  ASSUME NEW s \in VlanState, lags \subseteq Lags, NEW e \in Event, NEW f
  PROVE  VlanOnly(s, Handle(s, e, f))
<1>1. e.br \in Bridges /\ e.vid \in MaybeVid
      /\ e.op \in {"newBridge", "delBridge", "addPort", "delPort"}
  BY DEF Event
<1>2. VlanOnly(s, s)
  BY DEF VlanOnly
<1>3. CASE e.op \in {"newBridge", "delBridge"}
  BY <1>1, <1>2, <1>3, BridgeType DEF Handle
<1>4. CASE e.op = "addPort"
  <2>1. CASE e.port \notin lags \cup {Phys} \/ Mismatch(s, e.br, e.vid)
    BY <1>2, <1>4, <2>1 DEF Handle, OnAddPort
  <2>2. CASE e.port \in lags \cup {Phys} /\ ~Mismatch(s, e.br, e.vid)
    <3>1. e.port \in Members
      BY <2>2 DEF Members
    <3>2. Handle(s, e, f) = MemberAdd(s, e.br, e.port, e.vid, f)
      BY <1>4, <2>2 DEF Handle, OnAddPort
    <3> QED BY <1>1, <3>1, <3>2, MemberAddType
  <2> QED BY <2>1, <2>2
<1>5. CASE e.op = "delPort"
  <2> DEFINE t == DelLag(s, e.port, s.vid[e.br], f)
  <2>1. CASE e.br \notin s.known \/ e.port \notin lags
    BY <1>2, <1>5, <2>1 DEF Handle, OnDelPort
  <2>2. CASE ~(e.br \notin s.known \/ e.port \notin lags)
    <3>1. s.vid[e.br] \in MaybeVid /\ e.port \in Lags
      BY <1>1, <2>2 DEF VlanState
    <3>2. VlanOnly(s, t)
      BY <3>1, LagType DEF Modes
    <3>3. Handle(s, e, f) = [t EXCEPT !.stored[e.br] = @ \ {e.port}]
      BY <1>5, <2>2 DEF Handle, OnDelPort
    <3> HIDE DEF t
    <3>4. [t.stored EXCEPT ![e.br] = @ \ {e.port}] \in [Bridges -> SUBSET Lags]
      BY <1>1, <3>2 DEF VlanOnly, VlanState
    <3> QED BY <3>2, <3>3, <3>4 DEF VlanOnly, VlanState
  <2> QED BY <2>1, <2>2
<1> QED BY <1>1, <1>3, <1>4, <1>5

(* What a LAG event does to lag_list. *)
LEMMA EntryType ==
  ASSUME NEW s \in VlanState, NEW l \in Lags, NEW ports \in SUBSET Ports,
         NEW added \in SUBSET ports, NEW f
  PROVE  /\ EntryCreate(s, l) \in VlanState /\ EntryDelete(s, l) \in VlanState
         /\ MemberUpdate(s, l, ports, added, f) \in VlanState
<1>1. EntryCreate(s, l) \in VlanState
  BY DEF VlanState, EntryCreate
<1>2. EntryDelete(s, l) \in VlanState
  BY DEF VlanState, EntryDelete
<1>3. MemberUpdate(s, l, ports, added, f) \in VlanState
  <2> DEFINE n == [x \in Vids \X Modes |->
                    IF x[1] \in s.vlans[<<l, x[2]>>] /\ Has(s, x[1])
                    THEN (s.npu[x] \ (IF f = "portDel" THEN {} ELSE Departed(s, l, ports)))
                           \cup (IF f = "portAdd" THEN {} ELSE added)
                    ELSE s.npu[x]]
             t == [s EXCEPT !.mem[l] = (@ \cap ports) \cup added, !.npu = n]
  <2>1. n \in [Vids \X Modes -> SUBSET Ports]
    BY DEF VlanState
  <2>2. MemberUpdate(s, l, ports, added, f) \in {s, t}
    BY DEF MemberUpdate
  <2> HIDE DEF n
  <2>3. [s.mem EXCEPT ![l] = (@ \cap ports) \cup added] \in [Lags -> SUBSET Ports]
    BY DEF VlanState
  <2>4. t \in VlanState
    BY <2>1, <2>3 DEF VlanState
  <2> QED BY <2>2, <2>4
<1> QED BY <1>1, <1>2, <1>3
-----------------------------------------------------------------------------
(* The kernel. *)

KernelType ==
  /\ kbridges \subseteq Bridges /\ used \subseteq Lags \cup Bridges
  /\ kmem \in [Members \X MaybeVid -> MaybeBridge]
  /\ queue \in Seq(Event)

LEMMA EventTypes ==
  ASSUME NEW b \in Bridges
  PROVE  /\ BridgeEvent("newBridge", b) \in Event /\ BridgeEvent("delBridge", b) \in Event
         /\ \A p \in Members, v \in MaybeVid :
              PortEvent("addPort", b, p, v) \in Event /\ PortEvent("delPort", b, p, v) \in Event
BY DEF BridgeEvent, PortEvent, Event, MaybeVid

LEMMA KernelCreateType ==
  ASSUME KernelType, NEW b \in Bridges, KernelCreate(b)
  PROVE  KernelType'
BY EventTypes DEF KernelType, KernelCreate

(* The interfaces of S, all in some bridge, leave. *)
LEMMA ReleaseType ==
  ASSUME KernelType, NEW S, S \subseteq {x \in Members \X MaybeVid : kmem[x] # None},
         NEW last \in Seq(Event), Release(S, last)
  PROVE  /\ kmem' \in [Members \X MaybeVid -> MaybeBridge] /\ queue' \in Seq(Event)
         /\ used' = used
<1>1. IsFiniteSet(S)
  <2>1. IsFiniteSet(Members) /\ IsFiniteSet(MaybeVid)
    BY NasVlanLagAssumption, FS_Singleton, FS_Union DEF Members, MaybeVid
  <2>2. IsFiniteSet(Members \X MaybeVid)
    BY <2>1, FS_Product
  <2> QED BY <2>2, FS_Subset
<1>2. Cardinality(S) \in Nat
  BY <1>1, FS_CardinalityType
<1>3. kmem' \in [Members \X MaybeVid -> MaybeBridge] /\ used' = used
  BY DEF Release, KernelType, MaybeBridge
<1>4. PICK order \in SetToSeqs(S) :
        queue' = queue \o [i \in 1..Cardinality(S) |->
                             PortEvent("delPort", kmem[order[i]], order[i][1], order[i][2])]
                       \o last
  BY DEF Release
<1>5. \A i \in 1..Cardinality(S) : order[i] \in S
  BY <1>4 DEF SetToSeqs
<1> DEFINE E == [i \in 1..Cardinality(S) |->
                   PortEvent("delPort", kmem[order[i]], order[i][1], order[i][2])]
<1>6. ASSUME NEW i \in 1..Cardinality(S) PROVE E[i] \in Event
  <2>1. order[i] \in Members \X MaybeVid /\ kmem[order[i]] \in Bridges
    BY <1>5 DEF KernelType, MaybeBridge
  <2> QED BY <2>1, EventTypes
<1>7. E \in Seq(Event)
  BY <1>2, <1>6
<1> HIDE DEF E
<1>8. queue \o E \o last \in Seq(Event)
  BY <1>7, ConcatProperties DEF KernelType
<1> QED BY <1>3, <1>4, <1>8 DEF E

LEMMA KernelDeleteType ==
  ASSUME KernelType, NEW b \in Bridges, KernelDelete(b)
  PROVE  KernelType'
<1>1. <<BridgeEvent("delBridge", b)>> \in Seq(Event)
  BY EventTypes
<1>2. {x \in Members \X MaybeVid : kmem[x] = b} \subseteq
        {x \in Members \X MaybeVid : kmem[x] # None}
  BY NasVlanLagAssumption
<1> QED BY <1>1, <1>2, ReleaseType DEF KernelType, KernelDelete

LEMMA KernelJoinType ==
  ASSUME KernelType, NEW b \in Bridges, NEW p \in Members, NEW v \in MaybeVid, KernelJoin(b, p, v)
  PROVE  KernelType'
<1> DEFINE old == kmem[<<p, v>>]
<1>1. old \in MaybeBridge /\ <<p, v>> \in Members \X MaybeVid
  BY DEF KernelType
<1>2. kmem' \in [Members \X MaybeVid -> MaybeBridge] /\ kbridges' = kbridges /\ used' = used
  BY <1>1 DEF KernelJoin, KernelType, MaybeBridge
<1>3. PortEvent("addPort", b, p, v) \in Event
      /\ (old # None => PortEvent("delPort", old, p, v) \in Event)
  BY <1>1, EventTypes DEF MaybeBridge
<1>4. queue' \in Seq(Event)
  <2>1. CASE old = b
    BY <2>1, NasVlanLagAssumption DEF KernelJoin, KernelType
  <2>2. CASE old # b /\ old = None
    BY <1>3, <2>2, AppendProperties DEF KernelJoin, KernelType
  <2>3. CASE old # b /\ old # None
    <3>1. queue' = queue \o <<PortEvent("delPort", old, p, v), PortEvent("addPort", b, p, v)>>
      BY <2>3 DEF KernelJoin
    <3>2. <<PortEvent("delPort", old, p, v), PortEvent("addPort", b, p, v)>> \in Seq(Event)
      BY <1>3, <2>3
    <3> QED BY <3>1, <3>2, ConcatProperties DEF KernelType
  <2> QED BY <2>1, <2>2, <2>3
<1> QED BY <1>2, <1>4 DEF KernelType

LEMMA KernelLeaveType ==
  ASSUME KernelType, NEW p \in Members, NEW v \in MaybeVid, KernelLeave(p, v)
  PROVE  KernelType'
<1>1. kmem[<<p, v>>] \in MaybeBridge /\ <<p, v>> \in Members \X MaybeVid
  BY DEF KernelType
<1>2. kmem' \in [Members \X MaybeVid -> MaybeBridge] /\ kbridges' = kbridges /\ used' = used
  BY <1>1 DEF KernelLeave, KernelType, MaybeBridge
<1>3. queue' \in Seq(Event)
  BY <1>1, EventTypes DEF KernelLeave, KernelType, MaybeBridge
<1> QED BY <1>2, <1>3 DEF KernelType
-----------------------------------------------------------------------------
(* The types, action by action. *)

ManagerType ==
  /\ lags \subseteq Lags /\ member \in [Ports -> Lags \cup {None}]
  /\ pubs \in Seq(Publication) /\ kbonds \subseteq Lags

ThreadType ==
  nas \in VlanState /\ alive \in BOOLEAN /\ cps \in CpsState /\ history \in History

SpentType == spent \in [{"table", "requests", "external", "faults"} -> Nat]

LEMMA TypeParts ==
  /\ TypeOK <=> ManagerType /\ KernelType /\ ThreadType /\ SpentType
  /\ TypeOK' <=> ManagerType' /\ KernelType' /\ ThreadType' /\ SpentType'
BY DEF TypeOK, ManagerType, KernelType, ThreadType, SpentType

LEMMA InitType == Init => TypeInv
<1> SUFFICES ASSUME Init PROVE TypeInv
  OBVIOUS
<1> USE NasVlanLagAssumption DEF Init
<1>1. ManagerType /\ lags = {} /\ member = [p \in Ports |-> None]
  BY DEF ManagerType
<1>2. KernelType
  BY DEF KernelType, MaybeBridge
<1>3. nas \in VlanState
  BY DEF VlanState, MaybeVid
<1>4. ThreadType
  BY <1>3 DEF ThreadType, CpsState, History, View, Idle, MaybeBridge
<1>5. SpentType
  BY DEF SpentType
<1>6. Served
  BY DEF Served, Idle
<1> QED BY <1>1, <1>2, <1>4, <1>5, <1>6, TypeParts DEF TypeInv

LEMMA SpendType ==
  ASSUME SpentType
  PROVE  /\ \A f : SpendFault(f) => SpentType'
         /\ \A f : SpendRequest(f) => SpentType'
         /\ SpendTable => SpentType'
         /\ SpendExternal => SpentType'
<1>1. \A f : Faults(f) \in Nat
  BY DEF SpentType, Faults
<1>2. \A f : SpendFault(f) => SpentType'
  BY <1>1 DEF SpentType, SpendFault
<1>3. \A f : SpendRequest(f) => SpentType'
  <2> SUFFICES ASSUME NEW f, SpendRequest(f) PROVE SpentType'
    OBVIOUS
  <2>1. spent.requests + 1 \in Nat /\ Faults(f) \in Nat
    BY <1>1 DEF SpentType
  <2> QED BY <2>1 DEF SpentType, SpendRequest
<1>4. SpendTable => SpentType'
  BY DEF SpentType, SpendTable
<1>5. SpendExternal => SpentType'
  BY DEF SpentType, SpendExternal
<1> QED BY <1>2, <1>3, <1>4, <1>5

(* What is published, and what is remembered of it. *)
LEMMA SayingType ==
  ASSUME history \in History, NEW op, NEW l \in Lags, NEW S \in SUBSET Ports
  PROVE  Saying(op, l, S) \in View
<1>1. history.published.lags \in SUBSET Lags /\ history.published.mem \in [Lags -> SUBSET Ports]
  BY DEF History, View
<1>2. [history.published.mem EXCEPT ![l] = S] \in [Lags -> SUBSET Ports]
  BY <1>1
<1> QED BY <1>1, <1>2 DEF Saying, View

LEMMA ChangedType ==
  ASSUME history \in History, NEW told
  PROVE  Changed(told) \in History
<1> DEFINE U == (history.unpublished \cup {l \in Lags : MembersOf(l)' # MembersOf(l)}) \ {told}
           T == history.silent \cup {p \in Ports : member[p] \notin {None, told, member'[p]}}
<1>1. U \in SUBSET Lags /\ T \in SUBSET Ports
  BY DEF History
<1>2. Changed(told) = [history EXCEPT !.unpublished = U, !.silent = T]
  BY DEF Changed
<1> HIDE DEF U, T
<1> QED BY <1>1, <1>2 DEF History

LEMMA PublishType ==
  ASSUME ManagerType, history \in History, NEW op \in {"create", "set", "delete"}, NEW l \in Lags,
         Publish(op, l) \/ Withhold
  PROVE  pubs' \in Seq(Publication) /\ history' \in History
<1>1. CASE Withhold
  BY <1>1, ChangedType DEF Withhold, ManagerType
<1>2. CASE Publish(op, l)
  <2> DEFINE S == IF op = "set" THEN MembersOf(l)' ELSE {}
             pub == [op |-> op, lag |-> l, ports |-> S, view |-> Saying(op, l, S)]
  <2>1. S \in SUBSET Ports
    BY DEF MembersOf
  <2>2. pubs' = Append(pubs, pub) /\ history' = [Changed(l) EXCEPT !.published = Saying(op, l, S)]
    BY <1>2 DEF Publish
  <2> HIDE DEF S
  <2>3. Saying(op, l, S) \in View
    BY <2>1, SayingType
  <2>4. pub \in Publication
    BY <2>1, <2>3 DEF Publication
  <2>5. history' \in History
    BY <2>2, <2>3, ChangedType DEF History
  <2> QED BY <2>2, <2>4, <2>5, AppendProperties DEF ManagerType
<1> QED BY <1>1, <1>2

LEMMA ManagerStepType ==
  ASSUME TypeInv, LagManager
  PROVE  TypeInv'
<1> USE TypeParts DEF TypeInv
<1>0. history \in History /\ lags \subseteq Lags /\ member \in [Ports -> Lags \cup {None}]
      /\ kbonds \subseteq Lags
  BY DEF ManagerType, ThreadType
<1>1. ASSUME NEW l \in Lags, LagAdd(l) PROVE TypeInv'
  <2>1. pubs' \in Seq(Publication) /\ history' \in History
    BY <1>0, <1>1, PublishType DEF LagAdd
  <2>2. ManagerType' /\ KernelType'
    BY <1>0, <1>1, <2>1 DEF LagAdd, ManagerType, KernelType
  <2> QED BY <1>1, <2>1, <2>2 DEF LagAdd, ThreadType, SpentType, Served
<1>2. ASSUME NEW l \in Lags, LagRemove(l) PROVE TypeInv'
  <2>1. pubs' \in Seq(Publication) /\ history' \in History
    BY <1>0, <1>2, PublishType DEF LagRemove
  <2>2. ManagerType' /\ KernelType'
    BY <1>0, <1>2, <2>1 DEF LagRemove, ManagerType, KernelType, kernel
  <2> QED BY <1>2, <2>1, <2>2 DEF LagRemove, ThreadType, SpentType, Served
<1>3. ASSUME NEW l \in Lags, NEW p \in Ports, LagJoin(l, p) PROVE TypeInv'
  <2>1. pubs' \in Seq(Publication) /\ history' \in History
    BY <1>0, <1>3, PublishType DEF LagJoin
  <2>2. ManagerType' /\ KernelType'
    BY <1>0, <1>3, <2>1 DEF LagJoin, ManagerType, KernelType, kernel
  <2> QED BY <1>3, <2>1, <2>2, SpendType DEF LagJoin, ThreadType, Served
<1>4. ASSUME NEW l \in Lags, NEW p \in Ports, LagLeave(l, p) PROVE TypeInv'
  <2>1. pubs' \in Seq(Publication) /\ history' \in History
    BY <1>0, <1>4, PublishType DEF LagLeave
  <2>2. ManagerType' /\ KernelType'
    BY <1>0, <1>4, <2>1 DEF LagLeave, ManagerType, KernelType, kernel
  <2> QED BY <1>4, <2>1, <2>2, SpendType DEF LagLeave, ThreadType, Served
<1>5. ASSUME NEW l \in Lags, NEW S \in SUBSET Ports, NEW adding, NEW ok,
             LagRequest(l, S, adding, ok)
      PROVE TypeInv'
  <2>1. pubs' \in Seq(Publication) /\ history' \in History
    BY <1>0, <1>5, PublishType DEF LagRequest
  <2>2. member' \in [Ports -> Lags \cup {None}]
    BY <1>0, <1>5 DEF LagRequest
  <2>3. ManagerType' /\ KernelType'
    BY <1>0, <1>5, <2>1, <2>2 DEF LagRequest, ManagerType, KernelType, kernel
  <2> QED BY <1>5, <2>1, <2>3, SpendType DEF LagRequest, ThreadType, Served
<1> QED BY <1>1, <1>2, <1>3, <1>4, <1>5 DEF LagManager

LEMMA ServingType ==
  ASSUME NEW b \in Bridges, NEW W \in SUBSET Work
  PROVE  /\ Serving(b, W) \in CpsState /\ Serving(b, W).item = None
         /\ Serving(b, W).work # {} => Serving(b, W).br \in Bridges
BY DEF Serving, Idle, CpsState, MaybeBridge

LEMMA WorkType ==
  ASSUME NEW s, NEW b, NEW want
  PROVE  WorkOf(s, b, want) \in SUBSET Work
BY DEF WorkOf

LEMMA SharingType ==
  ASSUME NEW s \in VlanState
  PROVE  Sharing(s) \subseteq Bridges \X Lags
BY DEF Sharing, VlanState

(* A new request, handled at once or as far as its lists of LAGs. *)
LEMMA RequestType ==
  ASSUME TypeInv, CpsRequest
  PROVE  TypeInv'
<1> USE TypeParts DEF TypeInv
<1>1. ASSUME NEW b \in Bridges, NEW want \in Requests, NEW f, NEW v \in VidsOf[b],
             CpsCreate(b, v, want, f)
      PROVE TypeInv'
  <2> DEFINE s == [BridgeInsert(nas, b) EXCEPT !.vid[b] = v]
             made == IF v = DefaultVlan THEN s ELSE [s EXCEPT !.npuVlans = @ \cup {v}]
  <2>0. v \in Vids /\ KernelType' /\ SpentType' /\ ManagerType'
    BY <1>1, NasVlanLagAssumption, KernelCreateType, SpendType
    DEF CpsCreate, table, ManagerType
  <2>1. BridgeInsert(nas, b) \in VlanState
    BY BridgeType DEF ThreadType, VlanOnly
  <2>2. s \in VlanState
    BY <2>0, <2>1 DEF VlanState, MaybeVid
  <2>3. made \in VlanState
    BY <2>0, <2>2 DEF VlanState
  <2>4. nas' \in {s, made} /\ cps' \in {cps, Idle, Serving(b, WorkOf(made, b, want))}
        /\ history' = [history EXCEPT !.lost = @ \cup Sharing(nas')] /\ alive' = alive
    BY <1>1 DEF CpsCreate
  <2> HIDE DEF s
  <2>5. nas' \in VlanState /\ history' \in History
    BY <2>2, <2>3, <2>4, SharingType DEF ThreadType, History
  <2> HIDE DEF made
  <2>6. cps' \in CpsState /\ Served'
    <3>1. CASE cps' = cps
      BY <3>1 DEF Served, ThreadType
    <3>2. CASE cps' = Idle
      BY <3>2 DEF Served, Idle, CpsState, MaybeBridge
    <3>3. CASE cps' = Serving(b, WorkOf(made, b, want))
      BY <3>3, ServingType, WorkType DEF Served
    <3> QED BY <2>4, <3>1, <3>2, <3>3
  <2> QED BY <2>0, <2>4, <2>5, <2>6 DEF ThreadType
<1>2. ASSUME NEW b \in Bridges, NEW want, CpsSet(b, want) PROVE TypeInv'
  <2>1. cps' \in CpsState /\ Served'
    BY <1>2, ServingType, WorkType DEF CpsSet, Served
  <2> QED BY <1>2, <2>1, SpendType DEF CpsSet, ManagerType, table, KernelType, kernel, ThreadType
<1>3. ASSUME NEW b \in Bridges, NEW f, CpsDelete(b, f) PROVE TypeInv'
  <2>1. KernelType'
    BY <1>3, KernelDeleteType DEF CpsDelete, kernel, KernelType
  <2>2. nas' \in VlanState /\ history' \in History
    BY <1>3, BridgeType DEF CpsDelete, ThreadType, VlanOnly, History
  <2> QED BY <1>3, <2>1, <2>2, SpendType DEF CpsDelete, ManagerType, table, ThreadType, Served
<1> QED BY <1>1, <1>2, <1>3 DEF CpsRequest

(* The steps of a request. *)
LEMMA DoneType ==
  ASSUME TypeInv, NEW w, cps.work # {} \/ cps.item # None
  PROVE  Done(w) \in CpsState /\ Done(w).item = None
         /\ (Done(w).work # {} => Done(w).br \in Bridges)
<1>1. cps.work \ {w} \in SUBSET Work /\ cps.br \in Bridges
  BY DEF TypeInv, TypeOK, CpsState, Served
<1> QED BY <1>1, ServingType DEF Done

LEMMA ServeType ==
  ASSUME TypeInv, Serve
  PROVE  TypeInv'
<1> USE TypeParts DEF TypeInv
<1>0. cps \in CpsState /\ nas \in VlanState
  BY DEF ThreadType
<1>1. ASSUME NEW w \in cps.work, CpsBegin(w) PROVE TypeInv'
  <2>1. w \in Work /\ w.lag \in Lags /\ w.mode \in Modes /\ cps.br \in Bridges
    BY <1>0 DEF CpsState, Work, Served
  <2>2. KernelVid(w) \in MaybeVid /\ nas.mem[w.lag] \in SUBSET Ports
    BY <1>0, <2>1 DEF KernelVid, VlanState, MaybeVid
  <2>3. KernelType'
    BY <1>1, <2>1, <2>2, KernelJoinType DEF CpsBegin, Members, kernel, KernelType
  <2>4. cps' \in CpsState /\ Served'
    BY <1>0, <1>1, <2>1, <2>2 DEF CpsBegin, CpsState, Served
  <2>5. UNCHANGED <<table, pubs, nas, alive, kbonds, history, spent>>
    BY <1>1 DEF CpsBegin
  <2>6. ManagerType' /\ ThreadType' /\ SpentType'
    BY <2>4, <2>5 DEF ManagerType, table, ThreadType, SpentType
  <2> QED BY <2>3, <2>4, <2>6
<1>2. ASSUME NEW w \in cps.work, NEW f, CpsSkip(w, f) PROVE TypeInv'
  <2>1. cps' \in CpsState /\ Served'
    BY <1>2, DoneType DEF CpsSkip, Served
  <2> QED BY <1>2, <2>1, SpendType
      DEF CpsSkip, ManagerType, table, KernelType, kernel, ThreadType
<1>3. ASSUME NEW p \in Ports, NEW f, CpsWalk(p, f) PROVE TypeInv'
  <2>1. cps.item \in Work /\ cps.item.mode \in Modes /\ {p} \in SUBSET Ports
    BY <1>0, <1>3 DEF CpsWalk, CpsState, Work
  <2>2. nas' \in VlanState
    BY <1>0, <1>3, <2>1, NpuType DEF CpsWalk, VlanOnly
  <2>3. cps' \in CpsState /\ Served'
    BY <1>0, <1>3 DEF CpsWalk, CpsState, Served
  <2> QED BY <1>3, <2>2, <2>3, SpendType
      DEF CpsWalk, ManagerType, table, KernelType, kernel, ThreadType
<1>4. ASSUME NEW f, CpsEnd(f) PROVE TypeInv'
  <2> DEFINE w == cps.item
             v == nas.vid[cps.br]
             T == ({v} \cap Vids) \X {w.mode} \X (cps.left \cup cps.touched)
  <2>1. w \in Work /\ w.lag \in Lags /\ w.mode \in Modes /\ cps.br \in Bridges /\ w # None
    BY <1>0, <1>4 DEF CpsEnd, CpsState, Work, Served
  <2>2. v \in MaybeVid /\ KernelVid(w) \in MaybeVid /\ <<w.lag, w.mode>> \in Lags \X Modes
    BY <1>0, <2>1 DEF KernelVid, VlanState, MaybeVid
  <2>3. KernelType'
    BY <1>4, <2>1, <2>2, KernelLeaveType DEF CpsEnd, Members, kernel, KernelType
  <2>4. nas' \in VlanState
    <3>1. Listed(w) \in SUBSET MaybeVid
      BY <1>0, <2>1, <2>2 DEF Listed, VlanState
    <3>2. [nas.vlans EXCEPT ![<<w.lag, w.mode>>] = Listed(w)] \in [Lags \X Modes -> SUBSET MaybeVid]
      BY <1>0, <2>2, <3>1 DEF VlanState
    <3>3. \/ nas' = nas
          \/ nas' = [nas EXCEPT !.vlans = [nas.vlans EXCEPT ![<<w.lag, w.mode>>] = Listed(w)]]
      BY <1>4 DEF CpsEnd
    <3> QED BY <1>0, <3>2, <3>3 DEF VlanState
  <2>5. T \subseteq Vids \X Modes \X Ports
    BY <1>0, <2>1 DEF CpsState
  <2>6. history' = [history EXCEPT !.torn = @ \cup T] /\ alive' = alive
        /\ cps' = Done(w) /\ SpendFault(f)
    BY <1>4 DEF CpsEnd
  <2> HIDE DEF T
  <2>7. history' \in History
    BY <2>5, <2>6 DEF ThreadType, History
  <2>8. cps' \in CpsState /\ Served'
    BY <2>1, <2>6, DoneType DEF Served
  <2> QED BY <1>4, <2>3, <2>4, <2>6, <2>7, <2>8, SpendType
      DEF CpsEnd, ManagerType, table, ThreadType
<1>5. ASSUME CpsWalkCrash PROVE TypeInv'
  BY <1>5 DEF CpsWalkCrash, ManagerType, table, KernelType, kernel, ThreadType, SpentType, Served
<1> QED BY <1>1, <1>2, <1>3, <1>4, <1>5 DEF Serve

LEMMA EventThreadType ==
  ASSUME TypeInv, EventThread
  PROVE  TypeInv'
<1> USE TypeParts DEF TypeInv
<1>0. cps \in CpsState /\ nas \in VlanState /\ history \in History /\ lags \subseteq Lags
      /\ queue \in Seq(Event) /\ pubs \in Seq(Publication)
  BY DEF ThreadType, ManagerType, KernelType
<1>1. ASSUME NEW f, LagEvent(f) PROVE TypeInv'
  <2> DEFINE e == Head(pubs)
  <2>1. e \in Publication /\ pubs' \in Seq(Publication)
    BY <1>0, <1>1, HeadTailProperties DEF LagEvent
  <2>2. e.lag \in Lags /\ e.ports \in SUBSET Ports /\ e.op \in {"create", "set", "delete"}
    BY <2>1 DEF Publication
  <2>3. nas' \in VlanState
    <3>1. CASE e.op = "create"
      BY <1>0, <1>1, <2>2, <3>1, EntryType DEF LagEvent
    <3>2. CASE e.op = "delete"
      BY <1>0, <1>1, <2>2, <3>2, EntryType DEF LagEvent
    <3>3. CASE e.op = "set"
      <4>1. PICK added \in SUBSET Arrived(nas, e.lag, e.ports) :
              nas' = MemberUpdate(nas, e.lag, e.ports, added, f)
        BY <1>1, <3>3 DEF LagEvent
      <4>2. added \in SUBSET e.ports
        BY DEF Arrived
      <4> QED BY <1>0, <2>2, <4>1, <4>2, EntryType
    <3> QED BY <2>2, <3>1, <3>2, <3>3
  <2>4. Moved(e) \in SUBSET Ports
    BY <1>0, <2>2 DEF Moved, Departed, Arrived, VlanState
  <2>5. Race(e) \in CpsState /\ (Served => (Race(e).work # {} \/ Race(e).item # None => Race(e).br \in Bridges))
    BY <1>0, <2>2, <2>4 DEF Race, CpsState, Served, Arrived
  <2>6. Orphans(e.lag) \subseteq Vids \X Modes \X Ports /\ Doubled(nas') \subseteq Ports
    BY DEF Orphans, Doubled
  <2>7. history' \in History /\ cps' = Race(e)
    BY <1>0, <1>1, <2>6 DEF LagEvent, History
  <2> QED BY <1>1, <2>1, <2>3, <2>5, <2>7, SpendType
      DEF LagEvent, ManagerType, table, KernelType, kernel, ThreadType, Served
<1>2. ASSUME queue # <<>> PROVE Head(queue) \in Event /\ Tail(queue) \in Seq(Event)
  BY <1>0, <1>2, HeadTailProperties
<1>3. ASSUME NEW f, VlanEvent(f) PROVE TypeInv'
  <2> DEFINE e == Head(queue)
  <2>1. e \in Event /\ KernelType' /\ SpentType' /\ ManagerType' /\ cps' = cps
    BY <1>2, <1>3, SpendType DEF VlanEvent, Take, KernelType, ManagerType, table
  <2>2. nas' \in VlanState
    BY <1>0, <1>3, <2>1, HandleType DEF VlanEvent, VlanOnly
  <2>3. LostBy(nas, e) \subseteq Bridges \X Lags
    BY <2>1 DEF LostBy, Event
  <2>4. MisreadBy(nas, e) \subseteq Bridges \X Lags
    BY <2>1 DEF MisreadBy, Event
  <2>5. Sharing(nas') \subseteq Bridges \X Lags
    BY <2>2, SharingType
  <2>6. StaleAfter(nas, e.br) \subseteq Lags \X Modes \X MaybeVid
    BY <1>0, <2>1, BridgeType DEF Event
  <2>7. history' = [history EXCEPT
          !.lost = @ \cup LostBy(nas, e) \cup Sharing(nas'),
          !.misread = @ \cup MisreadBy(nas, e),
          !.stale = @ \cup IF e.op = "delBridge" /\ e.br \in nas.known
                           THEN StaleAfter(nas, e.br) ELSE {}]
    BY <1>3 DEF VlanEvent
  <2>8. history' \in History
    BY <1>0, <2>3, <2>5, <2>6, <2>7, <2>4 DEF History
  <2> QED BY <1>3, <2>1, <2>2, <2>8 DEF VlanEvent, ThreadType, Served
<1>4. ASSUME VlanEventCrash PROVE TypeInv'
  BY <1>2, <1>4, SpendType
  DEF VlanEventCrash, Take, KernelType, ManagerType, table, ThreadType, Served
<1> QED BY <1>1, <1>3, <1>4 DEF EventThread

LEMMA OtherType ==
  ASSUME TypeInv, Other
  PROVE  TypeInv'
<1> USE TypeParts DEF TypeInv
<1> DEFINE Rest == ManagerType' /\ ThreadType' /\ Served'
<1>1. ASSUME NEW b \in Bridges, OtherCreate(b) PROVE TypeInv'
  <2>1. Rest
    BY <1>1 DEF OtherCreate, ManagerType, table, ThreadType, Served
  <2> QED BY <1>1, <2>1, KernelCreateType, SpendType DEF OtherCreate
<1>2. ASSUME NEW b \in Bridges, OtherDelete(b) PROVE TypeInv'
  <2>1. Rest
    BY <1>2 DEF OtherDelete, ManagerType, table, ThreadType, Served
  <2> QED BY <1>2, <2>1, KernelDeleteType, SpendType DEF OtherDelete
<1>3. ASSUME NEW b \in Bridges, NEW p \in Members, NEW v \in VidsOf[b] \cup {0}, OtherJoin(b, p, v)
      PROVE TypeInv'
  <2>1. v \in MaybeVid
    BY NasVlanLagAssumption DEF MaybeVid
  <2>2. Rest
    BY <1>3 DEF OtherJoin, ManagerType, table, ThreadType, Served
  <2> QED BY <1>3, <2>1, <2>2, KernelJoinType, SpendType DEF OtherJoin
<1>4. ASSUME NEW p \in Members, NEW v \in MaybeVid, OtherLeave(p, v) PROVE TypeInv'
  <2>1. Rest
    BY <1>4 DEF OtherLeave, ManagerType, table, ThreadType, Served
  <2> QED BY <1>4, <2>1, KernelLeaveType, SpendType DEF OtherLeave
<1>5. ASSUME NEW l \in Lags, BondGone(l) PROVE TypeInv'
  <2> DEFINE S == {x \in {l} \X MaybeVid : kmem[x] # None}
  <2>1. S \subseteq {x \in Members \X MaybeVid : kmem[x] # None}
    BY DEF Members
  <2>2. Release(S, <<>>) /\ <<>> \in Seq(Event)
    BY <1>5 DEF BondGone
  <2> HIDE DEF S
  <2>3. KernelType'
    BY <1>5, <2>1, <2>2, ReleaseType DEF BondGone, KernelType
  <2>4. Rest /\ SpentType'
    BY <1>5 DEF BondGone, ManagerType, table, ThreadType, Served, SpentType
  <2> QED BY <2>3, <2>4
<1> QED BY <1>1, <1>2, <1>3, <1>4, <1>5 DEF Other

LEMMA TypeNext == TypeInv /\ [Next]_vars => TypeInv'
<1>1. ASSUME TypeInv, UNCHANGED vars PROVE TypeInv'
  BY <1>1, TypeParts
  DEF TypeInv, vars, ManagerType, KernelType, ThreadType, SpentType, Served
<1> QED BY <1>1, ManagerStepType, RequestType, ServeType, EventThreadType, OtherType DEF Next

(* Every variable keeps its type, for any ports, LAGs, bridges, VLAN ids,   *)
(* requests, faults and bounds.                                             *)
THEOREM TypeCorrect == Spec => []TypeOK
<1>1. TypeInv => TypeOK
  BY DEF TypeInv
<1> QED BY <1>1, InitType, TypeNext, PTL DEF Spec
-----------------------------------------------------------------------------
(* The copy of the LAG table. *)

(* Only LAGs have members. *)
Whole(u) == u \in View /\ \A l \in Lags \ u.lags : u.mem[l] = {}

(* No port outside S has two LAGs. *)
Single(u, S) ==
  \A p \in Ports \ S, l \in Lags : \A k \in Lags \ {l} : ~(p \in u.mem[l] /\ p \in u.mem[k])

(* What a publication adds to what was said before. *)
Told(u, e) ==
  /\ e.view.lags = CASE e.op = "create" -> u.lags \cup {e.lag}
                     [] e.op = "delete" -> u.lags \ {e.lag}
                     [] OTHER -> u.lags
  /\ e.view.mem = [u.mem EXCEPT ![e.lag] = e.ports]
  /\ e.op = "create" => e.lag \notin u.lags
  /\ e.op = "set" => e.lag \in u.lags
  /\ e.op # "set" => e.ports = {}

At(u, q, i) == IF i = 1 THEN u ELSE q[i - 1].view

(* The publications q lead from u to t. *)
Story(u, q, t, S) ==
  /\ Whole(u) /\ Single(u, S)
  /\ \A i \in 1..Len(q) : Told(At(u, q, i), q[i]) /\ Whole(q[i].view) /\ Single(q[i].view, S)
  /\ At(u, q, Len(q) + 1) = t

(* lag_list was last told u. *)
Copies(s, u) ==
  /\ s.entries = u.lags /\ \A l \in Lags : s.mem[l] \subseteq u.mem[l]
  /\ "npuPort" \notin FaultKinds => \A l \in Lags : s.mem[l] = u.mem[l]

(* What the LAG manager said of its table, once all of it. *)
SaidOf(u) ==
  /\ u.lags = lags /\ lags \subseteq used /\ \A p \in Ports : member[p] \in lags \cup {None}
  /\ \A l \in lags \ history.unpublished : u.mem[l] = MembersOf(l)
  /\ \A l \in Lags : \A p \in u.mem[l] \ history.silent : member[p] = l

CopyInv ==
  /\ TypeInv /\ SaidOf(history.published)
  /\ \E u \in View : Copies(nas, u) /\ Story(u, pubs, history.published, history.silent)

LEMMA StoryAppend ==
  ASSUME NEW u, NEW q \in Seq(Publication), NEW t, NEW S, Story(u, q, t, S),
         NEW e \in Publication, NEW T, S \subseteq T,
         Told(t, e), Whole(e.view), Single(e.view, T)
  PROVE  Story(u, Append(q, e), e.view, T)
<1> DEFINE r == Append(q, e)
<1>1. /\ Len(q) \in Nat /\ Len(r) = Len(q) + 1 /\ r[Len(q) + 1] = e
      /\ \A i \in 1..Len(q) : r[i] = q[i]
  BY AppendProperties, LenProperties
<1> HIDE DEF r
<1>2. \A i \in 1..Len(q) + 1 : At(u, r, i) = At(u, q, i)
  BY <1>1 DEF At
<1>3. \A v : Single(v, S) => Single(v, T)
  BY DEF Single
<1>4. At(u, r, Len(r) + 1) = e.view
  BY <1>1 DEF At
<1>5. ASSUME NEW i \in 1..Len(r)
      PROVE  Told(At(u, r, i), r[i]) /\ Whole(r[i].view) /\ Single(r[i].view, T)
  <2>1. CASE i \in 1..Len(q)
    <3>1. At(u, r, i) = At(u, q, i) /\ r[i] = q[i]
      BY <1>1, <1>2, <2>1
    <3>2. Told(At(u, q, i), q[i]) /\ Whole(q[i].view) /\ Single(q[i].view, S)
      BY <2>1 DEF Story
    <3> QED BY <1>3, <3>1, <3>2
  <2>2. CASE i = Len(q) + 1
    <3>1. At(u, r, i) = t /\ r[i] = e
      BY <1>1, <1>2, <2>2 DEF Story
    <3> QED BY <3>1
  <2> QED BY <1>1, <2>1, <2>2
<1>6. Whole(u) /\ Single(u, T)
  BY <1>3 DEF Story
<1> QED BY <1>4, <1>5, <1>6 DEF Story, r

LEMMA StoryTail ==
  ASSUME NEW u, NEW q \in Seq(Publication), q # <<>>, NEW t, NEW S, Story(u, q, t, S)
  PROVE  Told(u, Head(q)) /\ Story(Head(q).view, Tail(q), t, S)
<1> DEFINE r == Tail(q)
           v == Head(q).view
<1>1. /\ Len(q) \in Nat /\ Len(q) # 0 /\ Len(r) = Len(q) - 1 /\ Head(q) = q[1]
      /\ \A i \in 1..Len(r) : r[i] = q[i + 1]
  BY HeadTailProperties, LenProperties, EmptySeq
<1>2. Told(u, q[1]) /\ Whole(v) /\ Single(v, S)
  <2>1. 1 \in 1..Len(q) /\ At(u, q, 1) = u
    BY <1>1 DEF At
  <2>2. Told(At(u, q, 1), q[1]) /\ Whole(q[1].view) /\ Single(q[1].view, S)
    BY <2>1 DEF Story
  <2> QED BY <1>1, <2>1, <2>2
<1> HIDE DEF r
<1>3. \A i \in 1..Len(r) + 1 : At(v, r, i) = At(u, q, i + 1)
  <2> TAKE i \in 1..Len(r) + 1
  <2>1. CASE i = 1
    BY <1>1, <2>1 DEF At
  <2>2. CASE i # 1
    <3>1. i - 1 \in 1..Len(r) /\ r[i - 1] = q[i]
      BY <1>1, <2>2
    <3> QED BY <1>1, <2>2, <3>1 DEF At
  <2> QED BY <2>1, <2>2
<1> HIDE DEF v
<1>4. ASSUME NEW i \in 1..Len(r)
      PROVE  Told(At(v, r, i), r[i]) /\ Whole(r[i].view) /\ Single(r[i].view, S)
  <2>1. i + 1 \in 1..Len(q) /\ r[i] = q[i + 1] /\ At(v, r, i) = At(u, q, i + 1)
    BY <1>1, <1>3
  <2>2. Told(At(u, q, i + 1), q[i + 1]) /\ Whole(q[i + 1].view) /\ Single(q[i + 1].view, S)
    BY <2>1 DEF Story
  <2> QED BY <2>1, <2>2
<1>5. At(v, r, Len(r) + 1) = t
  <2>1. Len(r) + 1 \in 1..Len(r) + 1 /\ Len(r) + 1 + 1 = Len(q) + 1
    BY <1>1
  <2>2. At(v, r, Len(r) + 1) = At(u, q, Len(q) + 1)
    BY <1>3, <2>1
  <2> QED BY <2>2 DEF Story
<1> QED BY <1>1, <1>2, <1>4, <1>5 DEF Story, r, v

(* Only LAG events touch the copy. *)
Aside == UNCHANGED <<lags, member, pubs>> /\ nas'.entries = nas.entries /\ nas'.mem = nas.mem

LEMMA AsideSteps ==
  ASSUME TypeInv, CpsRequest \/ Serve \/ VlanEventCrash \/ Other \/ \E f : VlanEvent(f)
  PROVE  Aside
<1>0. nas \in VlanState /\ cps \in CpsState /\ lags \subseteq Lags /\ queue \in Seq(Event)
  BY DEF TypeInv, TypeOK
<1>1. ASSUME NEW b \in Bridges, NEW want, NEW f, NEW v, CpsCreate(b, v, want, f) PROVE Aside
  <2> DEFINE s == [BridgeInsert(nas, b) EXCEPT !.vid[b] = v]
             made == IF v = DefaultVlan THEN s ELSE [s EXCEPT !.npuVlans = @ \cup {v}]
  <2>1. VlanOnly(nas, BridgeInsert(nas, b))
    BY <1>0, BridgeType
  <2>2. s.entries = nas.entries /\ s.mem = nas.mem
        /\ made.entries = s.entries /\ made.mem = s.mem
    BY <2>1 DEF VlanOnly, VlanState
  <2>3. nas' \in {s, made} /\ UNCHANGED <<lags, member, pubs>>
    BY <1>1 DEF CpsCreate, table
  <2> HIDE DEF s
  <2> QED BY <2>2, <2>3 DEF Aside
<1>2. ASSUME NEW b \in Bridges, NEW want, CpsSet(b, want) PROVE Aside
  BY <1>2 DEF CpsSet, Aside, table
<1>3. ASSUME NEW b \in Bridges, NEW f, CpsDelete(b, f) PROVE Aside
  BY <1>0, <1>3, BridgeType DEF CpsDelete, VlanOnly, Aside, table
<1>4. ASSUME NEW w, CpsBegin(w) PROVE Aside
  BY <1>4 DEF CpsBegin, Aside, table
<1>5. ASSUME NEW w, NEW f, CpsSkip(w, f) PROVE Aside
  BY <1>5 DEF CpsSkip, Aside, table
<1>6. ASSUME NEW p \in Ports, NEW f, CpsWalk(p, f) PROVE Aside
  <2>1. cps.item.mode \in Modes /\ {p} \in SUBSET Ports
    BY <1>0, <1>6 DEF CpsWalk, CpsState, Work
  <2> QED BY <1>0, <1>6, <2>1, NpuType DEF CpsWalk, VlanOnly, Aside, table
<1>7. ASSUME NEW f, CpsEnd(f) PROVE Aside
  <2>1. \/ nas' = nas
        \/ nas' = [nas EXCEPT !.vlans = [nas.vlans EXCEPT
                     ![<<cps.item.lag, cps.item.mode>>] = Listed(cps.item)]]
    BY <1>7 DEF CpsEnd
  <2>2. nas'.entries = nas.entries /\ nas'.mem = nas.mem
    BY <1>0, <2>1 DEF VlanState
  <2> QED BY <1>7, <2>2 DEF CpsEnd, Aside, table
<1>8. CpsWalkCrash \/ VlanEventCrash => Aside
  BY DEF CpsWalkCrash, VlanEventCrash, Take, Aside, table
<1>9. ASSUME NEW f, VlanEvent(f) PROVE Aside
  <2>1. Head(queue) \in Event
    BY <1>0, <1>9, HeadTailProperties DEF VlanEvent, Take
  <2>2. VlanOnly(nas, nas')
    BY <1>0, <1>9, <2>1, HandleType DEF VlanEvent
  <2> QED BY <1>9, <2>2 DEF VlanEvent, Take, VlanOnly, Aside, table
<1>10. Other => Aside
  BY DEF Other, OtherCreate, OtherDelete, OtherJoin, OtherLeave, BondGone, Aside, table
<1> QED BY <1>1, <1>2, <1>3, <1>4, <1>5, <1>6, <1>7, <1>8, <1>9, <1>10 DEF CpsRequest, Serve

(* Nor is anything published, or are members of LAGs in the table changed. *)
Silently ==
  /\ used \subseteq used'
  /\ history'.published = history.published /\ history'.unpublished = history.unpublished
  /\ history'.silent = history.silent /\ history'.doubled = history.doubled

LEMMA KernelUses ==
  /\ \A b : KernelCreate(b) => used \subseteq used'
  /\ \A S, last : Release(S, last) => used' = used
  /\ \A b : KernelDelete(b) => used' = used
  /\ \A b, p, v : KernelJoin(b, p, v) => used' = used
  /\ \A p, v : KernelLeave(p, v) => used' = used
BY DEF KernelCreate, Release, KernelDelete, KernelJoin, KernelLeave

LEMMA SilentSteps ==
  ASSUME TypeInv, CpsRequest \/ Serve \/ VlanEventCrash \/ Other \/ \E f : VlanEvent(f)
  PROVE  Silently
<1>0. history \in History
  BY DEF TypeInv, TypeOK
<1>1. ASSUME NEW X, history' = [history EXCEPT !.lost = X] PROVE used \subseteq used' => Silently
  BY <1>0, <1>1 DEF Silently, History
<1>2. ASSUME NEW X, history' = [history EXCEPT !.stale = X] PROVE used \subseteq used' => Silently
  BY <1>0, <1>2 DEF Silently, History
<1>3. ASSUME NEW X, history' = [history EXCEPT !.torn = X] PROVE used \subseteq used' => Silently
  BY <1>0, <1>3 DEF Silently, History
<1>4. ASSUME NEW X, NEW Y, NEW Z,
             history' = [history EXCEPT !.lost = X, !.misread = Y, !.stale = Z]
      PROVE  used \subseteq used' => Silently
  BY <1>0, <1>4 DEF Silently, History
<1>5. history' = history => (used \subseteq used' => Silently)
  BY DEF Silently
<1>6. ASSUME CpsRequest PROVE Silently
  <2>1. ASSUME NEW b, NEW v, NEW want, NEW f, CpsCreate(b, v, want, f) PROVE Silently
    <3>1. used \subseteq used'
      BY <2>1, KernelUses DEF CpsCreate
    <3>2. history' = [history EXCEPT !.lost = history.lost \cup Sharing(nas')]
      BY <2>1 DEF CpsCreate
    <3> QED BY <1>1, <3>1, <3>2
  <2>2. ASSUME NEW b, NEW want, CpsSet(b, want) PROVE Silently
    BY <1>5, <2>2 DEF CpsSet, kernel
  <2>3. ASSUME NEW b, NEW f, CpsDelete(b, f) PROVE Silently
    <3>1. used \subseteq used'
      BY <2>3, KernelUses DEF CpsDelete, kernel
    <3>2. history' = [history EXCEPT !.stale = history.stale \cup StaleAfter(nas, b)]
      BY <2>3 DEF CpsDelete
    <3> QED BY <1>2, <3>1, <3>2
  <2> QED BY <1>6, <2>1, <2>2, <2>3 DEF CpsRequest
<1>7. ASSUME Serve PROVE Silently
  BY <1>3, <1>5, <1>7, KernelUses
  DEF Serve, CpsBegin, CpsSkip, CpsWalk, CpsEnd, CpsWalkCrash, kernel
<1>8. ASSUME NEW f, VlanEvent(f) PROVE Silently
  BY <1>4, <1>8 DEF VlanEvent, Take
<1>9. VlanEventCrash => Silently
  BY <1>5 DEF VlanEventCrash, Take
<1>10. ASSUME Other PROVE Silently
  BY <1>5, <1>10, KernelUses
  DEF Other, OtherCreate, OtherDelete, OtherJoin, OtherLeave, BondGone
<1> QED BY <1>6, <1>7, <1>8, <1>9, <1>10

LEMMA AsideKeeps ==
  ASSUME CopyInv, TypeInv', Aside, Silently
  PROVE  CopyInv'
<1>1. PICK u \in View : Copies(nas, u) /\ Story(u, pubs, history.published, history.silent)
  BY DEF CopyInv
<1>2. Copies(nas', u)
  BY <1>1 DEF Copies, Aside
<1>3. Story(u, pubs', history'.published, history'.silent)
  BY <1>1 DEF Aside, Silently
<1>4. \A l : MembersOf(l)' = MembersOf(l)
  BY DEF MembersOf, Aside
<1>5. SaidOf(history.published)'
  BY <1>4 DEF CopyInv, SaidOf, Aside, Silently
<1> QED BY <1>2, <1>3, <1>5 DEF CopyInv

(* How the members of the table and of what was said of them change. *)
LEMMA ChangedSaid ==
  ASSUME CopyInv, NEW told, history'.silent = Changed(told).silent,
         history'.unpublished = Changed(told).unpublished
  PROVE  /\ history.silent \subseteq history'.silent
         /\ \A l \in Lags \ {told} : \A p \in history.published.mem[l] \ history'.silent :
              p \in Ports => member'[p] = l
         /\ \A l \in (lags \ {told}) \ history'.unpublished :
              history.published.mem[l] = MembersOf(l)'
<1>1. /\ history'.silent = history.silent \cup
           {p \in Ports : member[p] \notin {None, told, member'[p]}}
      /\ history'.unpublished =
           (history.unpublished \cup {l \in Lags : MembersOf(l)' # MembersOf(l)}) \ {told}
  BY DEF CopyInv, TypeInv, TypeOK, History, Changed
<1>2. ASSUME NEW l \in Lags \ {told}, NEW p \in history.published.mem[l] \ history'.silent,
             p \in Ports
      PROVE  member'[p] = l
  <2>1. member[p] = l
    BY <1>1, <1>2 DEF CopyInv, SaidOf
  <2> QED BY <1>1, <1>2, <2>1, NasVlanLagAssumption
<1>3. ASSUME NEW l \in (lags \ {told}) \ history'.unpublished
      PROVE  history.published.mem[l] = MembersOf(l)'
  <2>1. l \in Lags
    BY DEF CopyInv, TypeInv, TypeOK
  <2>2. l \notin history.unpublished /\ MembersOf(l)' = MembersOf(l)
    BY <1>1, <1>3, <2>1
  <2> QED BY <2>2 DEF CopyInv, SaidOf
<1> QED BY <1>1, <1>2, <1>3

(* A change that is not published. *)
LEMMA WithholdKeeps ==
  ASSUME CopyInv, TypeInv', Withhold, UNCHANGED <<lags, nas, used>>,
         \A p \in Ports : member'[p] \in {member[p], None}
                          \/ (member[p] = None /\ member'[p] \in lags)
  PROVE  CopyInv'
<1>1. PICK u \in View : Copies(nas, u) /\ Story(u, pubs, history.published, history.silent)
  BY DEF CopyInv
<1>2. /\ history' = Changed(None) /\ pubs' = pubs /\ history'.published = history.published
      /\ history \in History /\ lags \subseteq Lags /\ pubs \in Seq(Publication)
  BY DEF CopyInv, TypeInv, TypeOK, Withhold, Changed, History
<1>3. None \notin Lags
  BY NasVlanLagAssumption
<1>4. /\ history.silent \subseteq history'.silent
      /\ \A l \in Lags : \A p \in history.published.mem[l] \ history'.silent :
           p \in Ports => member'[p] = l
      /\ \A l \in lags \ history'.unpublished : history.published.mem[l] = MembersOf(l)'
  <2>1. history'.silent = Changed(None).silent /\ history'.unpublished = Changed(None).unpublished
    BY <1>2
  <2> QED BY <1>2, <1>3, <2>1, ChangedSaid
<1>5. \A l \in Lags : history.published.mem[l] \subseteq Ports
  BY <1>2 DEF History, View
<1>6. SaidOf(history.published)'
  <2>1. history.published.lags = lags /\ lags \subseteq used
        /\ \A p \in Ports : member'[p] \in lags \cup {None}
    BY DEF CopyInv, SaidOf
  <2> QED BY <1>2, <1>4, <1>5, <2>1 DEF SaidOf
<1>7. Story(u, pubs', history'.published, history'.silent)
  <2>1. \A v : Single(v, history.silent) => Single(v, history'.silent)
    BY <1>4 DEF Single
  <2> QED BY <1>1, <1>2, <2>1 DEF Story
<1> QED BY <1>1, <1>6, <1>7 DEF CopyInv

(* One that is published. *)
LEMMA PublishKeeps ==
  ASSUME CopyInv, TypeInv', UNCHANGED nas, NEW l \in Lags,
         NEW op \in {"create", "set", "delete"}, Publish(op, l),
         used \subseteq used', lags' \subseteq used',
         op = "create" => l \notin used /\ lags' = lags \cup {l} /\ member' = member,
         op = "delete" => lags' = lags \ {l} /\ \A p \in Ports : member'[p] # l,
         op = "set" => l \in lags /\ lags' = lags,
         \A p \in Ports : member'[p] \in lags' \cup {None}
  PROVE  CopyInv'
<1> DEFINE S == IF op = "set" THEN MembersOf(l)' ELSE {}
           w == Saying(op, l, S)
           e == [op |-> op, lag |-> l, ports |-> S, view |-> w]
           t == history.published
<1>1. PICK u \in View : Copies(nas, u) /\ Story(u, pubs, t, history.silent)
  BY DEF CopyInv
<1>2. /\ history \in History /\ lags \subseteq Lags /\ pubs \in Seq(Publication)
      /\ lags' \subseteq Lags /\ t.mem \in [Lags -> SUBSET Ports] /\ t.lags = lags /\ t \in View
  BY DEF CopyInv, TypeInv, TypeOK, History, View, SaidOf
<1>3. S \in SUBSET Ports /\ None \notin Lags
  BY NasVlanLagAssumption DEF MembersOf
<1>4. pubs' = Append(pubs, e) /\ history' = [Changed(l) EXCEPT !.published = w]
  BY DEF Publish
<1>5. w.lags = lags' /\ w.mem = [t.mem EXCEPT ![l] = S]
  BY <1>2 DEF Saying
<1>6. history'.published = w /\ history'.silent = Changed(l).silent
      /\ history'.unpublished = Changed(l).unpublished
  BY <1>2, <1>4 DEF Changed, History
<1>7. /\ history.silent \subseteq history'.silent
      /\ \A k \in Lags \ {l} : \A p \in t.mem[k] \ history'.silent : p \in Ports => member'[p] = k
      /\ \A k \in (lags \ {l}) \ history'.unpublished : t.mem[k] = MembersOf(k)'
  BY <1>6, ChangedSaid
<1> HIDE DEF S, w
<1>8. w \in View /\ e \in Publication
  <2>1. w \in View
    BY <1>2, <1>3, SayingType DEF w
  <2> QED BY <1>3, <2>1 DEF Publication
<1>9. /\ \A k \in Lags \ {l} : w.mem[k] = t.mem[k]
      /\ w.mem[l] = S
  BY <1>2, <1>5
<1>10. \A k \in Lags : \A p \in w.mem[k] \ history'.silent : p \in Ports /\ member'[p] = k
  <2> SUFFICES ASSUME NEW k \in Lags, NEW p \in w.mem[k] \ history'.silent
               PROVE  p \in Ports /\ member'[p] = k
    OBVIOUS
  <2>1. p \in Ports
    BY <1>8 DEF View
  <2>2. CASE k = l
    BY <1>9, <2>2 DEF S, MembersOf
  <2>3. CASE k # l
    BY <1>7, <1>9, <2>1, <2>3
  <2> QED BY <2>1, <2>2, <2>3
<1>11. Single(w, history'.silent)
  BY <1>10 DEF Single
<1>12. Told(t, e)
  <2>1. e.view = w /\ e.op = op /\ e.lag = l /\ e.ports = S
    OBVIOUS
  <2>2. lags \subseteq used
    BY DEF CopyInv, SaidOf
  <2>3. w.lags = CASE op = "create" -> t.lags \cup {l} [] op = "delete" -> t.lags \ {l}
                   [] OTHER -> t.lags
    BY <1>2, <1>5
  <2>4. op # "set" => S = {}
    BY DEF S
  <2> QED BY <1>2, <1>5, <2>1, <2>2, <2>3, <2>4 DEF Told
<1>13. Whole(w)
  <2>1. Whole(t)
    <3>1. CASE Len(pubs) = 0
      BY <1>1, <3>1 DEF Story, At
    <3>2. CASE Len(pubs) # 0
      <4>1. Len(pubs) \in 1..Len(pubs) /\ Len(pubs) + 1 # 1 /\ Len(pubs) + 1 - 1 = Len(pubs)
        BY <1>2, <3>2, LenProperties
      <4> QED BY <1>1, <4>1 DEF Story, At
    <3> QED BY <3>1, <3>2
  <2>2. ASSUME NEW k \in Lags \ w.lags PROVE w.mem[k] = {}
    <3>1. CASE k = l
      <4>1. op # "set"
        BY <1>5, <2>2, <3>1
      <4> QED BY <1>9, <3>1, <4>1 DEF S
    <3>2. CASE k # l
      <4>1. k \notin lags
        BY <1>5, <2>2, <3>2
      <4> QED BY <1>2, <1>9, <2>1, <3>2, <4>1 DEF Whole
    <3> QED BY <3>1, <3>2
  <2> QED BY <1>8, <2>2 DEF Whole
<1>14. Story(u, pubs', history'.published, history'.silent)
  <2>1. e.view = w
    OBVIOUS
  <2>2. Whole(e.view) /\ Single(e.view, history'.silent)
    BY <1>11, <1>13, <2>1
  <2> HIDE DEF e
  <2>3. Story(u, Append(pubs, e), e.view, history'.silent)
    BY <1>1, <1>2, <1>7, <1>8, <1>12, <2>2, StoryAppend
  <2> QED BY <1>4, <1>6, <2>1, <2>3
<1>15. SaidOf(history.published)'
  <2>1. ASSUME NEW k \in lags' \ history'.unpublished PROVE w.mem[k] = MembersOf(k)'
    <3>1. CASE k = l
      <4>1. CASE op = "set"
        BY <1>9, <3>1, <4>1 DEF S
      <4>2. CASE op = "create"
        <5>1. \A p \in Ports : member'[p] # l
          BY <1>3, <4>2 DEF CopyInv, SaidOf
        <5>2. MembersOf(l)' = {}
          BY <5>1 DEF MembersOf
        <5> QED BY <1>9, <3>1, <4>2, <5>2 DEF S
      <4> QED BY <2>1, <3>1, <4>1, <4>2
    <3>2. CASE k # l
      <4>1. k \in lags
        BY <2>1, <3>2
      <4> QED BY <1>2, <1>7, <1>9, <2>1, <3>2, <4>1
    <3> QED BY <3>1, <3>2
  <2>2. ASSUME NEW k \in Lags, NEW p \in w.mem[k] \ history'.silent PROVE member'[p] = k
    BY <1>10
  <2> QED BY <1>5, <1>6, <2>1, <2>2 DEF SaidOf
<1>16. Copies(nas', u)
  BY <1>1
<1> QED BY <1>14, <1>15, <1>16 DEF CopyInv

LEMMA ManagerKeeps ==
  ASSUME CopyInv, TypeInv', LagManager
  PROVE  CopyInv'
<1>0. /\ lags \subseteq used /\ \A p \in Ports : member[p] \in lags \cup {None}
      /\ member \in [Ports -> Lags \cup {None}] /\ None \notin lags
  BY NasVlanLagAssumption DEF CopyInv, SaidOf, TypeInv, TypeOK
<1>1. ASSUME NEW l \in Lags, LagAdd(l) PROVE CopyInv'
  BY <1>0, <1>1, PublishKeeps DEF LagAdd
<1>2. ASSUME NEW l \in Lags, LagRemove(l) PROVE CopyInv'
  <2>1. \A p \in Ports : member'[p] # l /\ member'[p] \in lags' \cup {None}
    BY <1>0, <1>2 DEF LagRemove
  <2> QED BY <1>0, <1>2, <2>1, PublishKeeps DEF LagRemove, kernel
<1>3. ASSUME NEW l \in Lags, NEW p \in Ports, LagJoin(l, p) PROVE CopyInv'
  <2>1. \A q \in Ports : member'[q] \in lags' \cup {None}
    BY <1>0, <1>3 DEF LagJoin
  <2> QED BY <1>0, <1>3, <2>1, PublishKeeps DEF LagJoin, kernel
<1>4. ASSUME NEW l \in Lags, NEW p \in Ports, LagLeave(l, p) PROVE CopyInv'
  <2>1. \A q \in Ports : member'[q] \in {member[q], None} /\ member'[q] \in lags' \cup {None}
    BY <1>0, <1>4 DEF LagLeave
  <2>2. CASE l \in lags
    BY <1>0, <1>4, <2>1, <2>2, PublishKeeps DEF LagLeave, kernel
  <2>3. CASE l \notin lags
    BY <1>4, <2>1, <2>3, WithholdKeeps DEF LagLeave, kernel
  <2> QED BY <2>2, <2>3
<1>5. ASSUME NEW l \in Lags, NEW S \in SUBSET Ports, NEW adding, NEW ok,
             LagRequest(l, S, adding, ok)
      PROVE CopyInv'
  <2>1. ASSUME NEW q \in Ports
        PROVE  /\ member'[q] \in lags' \cup {None}
               /\ \/ member'[q] \in {member[q], None}
                  \/ member[q] = None /\ member'[q] \in lags
    BY <1>0, <1>5 DEF LagRequest
  <2>2. CASE ok
    BY <1>0, <1>5, <2>1, <2>2, PublishKeeps DEF LagRequest, kernel
  <2>3. CASE ~ok
    BY <1>5, <2>1, <2>3, WithholdKeeps DEF LagRequest, kernel
  <2> QED BY <2>2, <2>3
<1> QED BY <1>1, <1>2, <1>3, <1>4, <1>5 DEF LagManager

(* A LAG event tells the copy what its publication says. *)
LEMMA EventCopies ==
  ASSUME TypeInv, NEW u \in View, Copies(nas, u), Whole(u), NEW f, LagEvent(f),
         Told(u, Head(pubs))
  PROVE  Copies(nas', Head(pubs).view)
<1> DEFINE e == Head(pubs)
           w == e.view
<1>1. nas \in VlanState /\ e \in Publication /\ u.mem \in [Lags -> SUBSET Ports]
  BY HeadTailProperties DEF TypeInv, TypeOK, LagEvent, View
<1>2. e.lag \in Lags /\ e.ports \in SUBSET Ports /\ e.op \in {"create", "set", "delete"}
  BY <1>1 DEF Publication
<1>3. /\ w.lags = CASE e.op = "create" -> u.lags \cup {e.lag} [] e.op = "delete" -> u.lags \ {e.lag}
                    [] OTHER -> u.lags
      /\ w.mem = [u.mem EXCEPT ![e.lag] = e.ports]
      /\ e.op = "create" => e.lag \notin u.lags
      /\ e.op = "set" => e.lag \in u.lags
      /\ e.op # "set" => e.ports = {}
  BY DEF Told
<1>4. nas.mem \in [Lags -> SUBSET Ports] /\ nas.entries = u.lags
  BY <1>1 DEF VlanState, Copies
<1>5. \A l \in Lags \ {e.lag} : w.mem[l] = u.mem[l]
  BY <1>1, <1>2, <1>3
<1>6. w.mem[e.lag] = e.ports
  BY <1>1, <1>2, <1>3
<1>7. f = "npuPort" => "npuPort" \in FaultKinds
  BY DEF LagEvent, SpendFault, Failing
<1> HIDE DEF e, w
<1>8. SUFFICES /\ nas'.entries = w.lags
               /\ \A l \in Lags \ {e.lag} : nas'.mem[l] = nas.mem[l]
               /\ nas'.mem[e.lag] \subseteq e.ports
               /\ f # "npuPort" => nas'.mem[e.lag] = e.ports
  <2>1. Copies(nas', w)
    BY <1>2, <1>5, <1>6, <1>7, <1>8 DEF Copies
  <2> QED BY <2>1 DEF e, w
<1>9. CASE e.op = "create"
  <2>1. nas' = EntryCreate(nas, e.lag)
    BY <1>9 DEF LagEvent, e
  <2>2. e.lag \notin nas.entries /\ e.ports = {} /\ w.lags = u.lags \cup {e.lag}
    BY <1>3, <1>4, <1>9
  <2>3. nas'.entries = nas.entries \cup {e.lag} /\ nas'.mem = [nas.mem EXCEPT ![e.lag] = {}]
    BY <1>1, <2>1, <2>2 DEF EntryCreate, VlanState
  <2> QED BY <1>2, <1>4, <2>2, <2>3
<1>10. CASE e.op = "delete"
  <2>1. nas' = EntryDelete(nas, e.lag)
    BY <1>10 DEF LagEvent, e
  <2>2. e.ports = {} /\ w.lags = u.lags \ {e.lag}
    BY <1>3, <1>10
  <2>3. nas'.entries = nas.entries \ {e.lag} /\ nas'.mem = [nas.mem EXCEPT ![e.lag] = {}]
    BY <1>1, <2>1 DEF EntryDelete, VlanState
  <2> QED BY <1>2, <1>4, <2>2, <2>3
<1>11. CASE e.op = "set"
  <2>1. PICK added \in SUBSET Arrived(nas, e.lag, e.ports) :
          /\ (added = Arrived(nas, e.lag, e.ports)) <=> (f # "npuPort")
          /\ nas' = MemberUpdate(nas, e.lag, e.ports, added, f)
    BY <1>11 DEF LagEvent, e
  <2>2. e.lag \in nas.entries /\ w.lags = u.lags
    BY <1>3, <1>4, <1>11
  <2>3. nas'.entries = nas.entries
        /\ nas'.mem = [nas.mem EXCEPT ![e.lag] = (@ \cap e.ports) \cup added]
    BY <1>1, <2>1, <2>2 DEF MemberUpdate, VlanState
  <2>4. nas'.mem[e.lag] = (nas.mem[e.lag] \cap e.ports) \cup added
    BY <1>2, <1>4, <2>3
  <2>5. added \subseteq e.ports /\ (f # "npuPort" => added = e.ports \ nas.mem[e.lag])
    BY <2>1 DEF Arrived
  <2> QED BY <1>4, <2>2, <2>3, <2>4, <2>5
<1> QED BY <1>2, <1>9, <1>10, <1>11

LEMMA LagEventKeeps ==
  ASSUME CopyInv, TypeInv', NEW f, LagEvent(f)
  PROVE  CopyInv'
<1>1. PICK u \in View : Copies(nas, u) /\ Story(u, pubs, history.published, history.silent)
  BY DEF CopyInv
<1>2. /\ pubs \in Seq(Publication) /\ pubs # <<>> /\ pubs' = Tail(pubs)
      /\ UNCHANGED <<lags, member, used>> /\ history \in History /\ TypeInv
  BY DEF CopyInv, TypeInv, TypeOK, LagEvent, table, kernel
<1>3. Told(u, Head(pubs)) /\ Story(Head(pubs).view, Tail(pubs), history.published, history.silent)
  BY <1>1, <1>2, StoryTail
<1>4. Head(pubs).view \in View
  BY <1>3 DEF Story, Whole
<1>5. Copies(nas', Head(pubs).view)
  BY <1>1, <1>2, <1>3, EventCopies DEF Story
<1>6. UNCHANGED <<history.published, history.silent, history.unpublished>>
  BY <1>2 DEF LagEvent, History
<1>7. \A l : MembersOf(l)' = MembersOf(l)
  BY <1>2 DEF MembersOf
<1>8. SaidOf(history.published)'
  BY <1>2, <1>6, <1>7 DEF CopyInv, SaidOf
<1> QED BY <1>2, <1>3, <1>4, <1>5, <1>6, <1>8 DEF CopyInv

LEMMA CopyInit == Init => CopyInv
<1> SUFFICES ASSUME Init PROVE CopyInv
  OBVIOUS
<1> DEFINE u == [lags |-> {}, mem |-> [l \in Lags |-> {}]]
<1>1. TypeInv
  BY InitType
<1>2. /\ lags = {} /\ member = [p \in Ports |-> None] /\ pubs = <<>>
      /\ nas.entries = {} /\ nas.mem = [l \in Lags |-> {}] /\ history.published = u
  BY DEF Init
<1>3. u \in View /\ u.lags = {} /\ \A l \in Lags : u.mem[l] = {}
  BY DEF View
<1> HIDE DEF u
<1>4. SaidOf(history.published)
  BY <1>2, <1>3 DEF SaidOf
<1>5. Copies(nas, u)
  BY <1>2, <1>3 DEF Copies
<1>6. Len(pubs) = 0 /\ Whole(u) /\ Single(u, history.silent)
  BY <1>2, <1>3 DEF Whole, Single
<1>7. Story(u, pubs, history.published, history.silent)
  BY <1>2, <1>6 DEF Story, At
<1> QED BY <1>1, <1>3, <1>4, <1>5, <1>7 DEF CopyInv

LEMMA CopyNext == CopyInv /\ [Next]_vars => CopyInv'
<1> SUFFICES ASSUME CopyInv, [Next]_vars PROVE CopyInv'
  OBVIOUS
<1>1. TypeInv' /\ TypeInv
  BY TypeNext DEF CopyInv
<1>2. CASE LagManager
  BY <1>1, <1>2, ManagerKeeps
<1>3. ASSUME NEW f, LagEvent(f) PROVE CopyInv'
  BY <1>1, <1>3, LagEventKeeps
<1>4. CASE CpsRequest \/ Serve \/ VlanEventCrash \/ Other \/ \E f : VlanEvent(f)
  BY <1>1, <1>4, AsideSteps, SilentSteps, AsideKeeps
<1>5. CASE UNCHANGED vars
  <2>1. Aside /\ Silently
    BY <1>5 DEF vars, Aside, Silently
  <2> QED BY <1>1, <2>1, AsideKeeps
<1> QED BY <1>2, <1>3, <1>4, <1>5 DEF Next, EventThread

LEMMA CopyCurrent == CopyInv => CopyIsCurrent
<1> SUFFICES ASSUME CopyInv, pubs = <<>>, "npuPort" \notin FaultKinds
             PROVE  nas.entries = lags
                    /\ \A l \in lags \ history.unpublished : nas.mem[l] = MembersOf(l)
  BY DEF CopyIsCurrent
<1>1. PICK u \in View : Copies(nas, u) /\ Story(u, pubs, history.published, history.silent)
  BY DEF CopyInv
<1>2. Len(pubs) = 0
  OBVIOUS
<1>3. u = history.published
  BY <1>1, <1>2 DEF Story, At
<1> QED BY <1>1, <1>3 DEF CopyInv, SaidOf, Copies, TypeInv, TypeOK

(* Once the publications are handled, lag_list has the LAG manager's LAGs   *)
(* and the members of those whose last change was published, whatever       *)
(* requests, kernel events and failures of the NPU or the kernel come in    *)
(* between, unless the lookup of a new member's port can fail.              *)
THEOREM CopyCorrect == Spec => []CopyIsCurrent
BY CopyInit, CopyNext, CopyCurrent, PTL DEF Spec

LEMMA CopyApart == CopyInv => PortsApart
<1> SUFFICES ASSUME CopyInv, NEW p \in Doubled(nas) PROVE p \in history.silent
  BY DEF PortsApart
<1>1. PICK u \in View : Copies(nas, u) /\ Story(u, pubs, history.published, history.silent)
  BY DEF CopyInv
<1>2. PICK l \in nas.entries : \E k \in nas.entries \ {l} : p \in nas.mem[l] \cap nas.mem[k]
  BY DEF Doubled
<1>3. PICK k \in nas.entries \ {l} : p \in nas.mem[l] \cap nas.mem[k]
  BY <1>2
<1>4. l \in Lags /\ k \in Lags \ {l} /\ p \in Ports
  BY <1>3 DEF Doubled, CopyInv, TypeInv, TypeOK, VlanState
<1> QED BY <1>1, <1>3, <1>4 DEF Copies, Story, Single

(* A port is in two LAGs of lag_list only when it once left a LAG of the    *)
(* table whose list was not published then, however far lag_list is behind  *)
(* and whatever failed in between.                                          *)
THEOREM CopyApartCorrect == Spec => []PortsApart
BY CopyInit, CopyNext, CopyApart, PTL DEF Spec
-----------------------------------------------------------------------------
(* The NPU and lag_list, the bridges and LAGs excused being lost, the VLAN   *)
(* ids of LAGs stale, the ports missing in a VLAN torn, those too many stray. *)

(* A port is in one LAG at most, but for those that may be missing. *)
Apart(s, torn) ==
  \A l \in Lags :
    /\ l \notin s.entries => s.mem[l] = {}
    /\ \A k \in Lags \ {l} : \A p \in s.mem[l] \cap s.mem[k], v \in Vids, m \in Modes :
         <<v, m, p>> \in torn

(* Only VLANs that exist have ports. *)
Sound(s) ==
  DefaultVlan \in s.npuVlans /\ \A v \in Vids \ s.npuVlans, m \in Modes : s.npu[<<v, m>>] = {}

(* The VLAN of a bridge exists, unless it shared the VLAN's id. *)
Owned(s, lost) ==
  \A b \in s.known, l \in Lags : s.vid[b] \in Vids \ s.npuVlans => <<b, l>> \in lost

(* A LAG's VLAN id is that of a bridge. *)
Named(s, stale) ==
  \A l \in s.entries, m \in Modes, v \in Vids :
    v \in s.vlans[<<l, m>>] => <<l, m, v>> \in stale \/ \E b \in s.known : s.vid[b] = v

Clean(s, stray) ==
  \A v \in Vids, m \in Modes, p \in Ports :
    p \in s.npu[<<v, m>>] =>
      <<v, m, p>> \in stray \/ \E l \in s.entries : v \in s.vlans[<<l, m>>] /\ p \in s.mem[l]

Full(s, lost, stale, torn) ==
  \A b \in s.known, l \in s.entries, m \in Modes, v \in Vids :
    s.vid[b] = v /\ v \in s.vlans[<<l, m>>] /\ <<b, l>> \notin lost /\ <<l, m, v>> \notin stale =>
      \A p \in s.mem[l] : p \in s.npu[<<v, m>>] \/ <<v, m, p>> \in torn

Matches(s, lost, stale, torn, stray) ==
  /\ Sound(s) /\ Owned(s, lost) /\ Named(s, stale) /\ Sharing(s) \subseteq lost
  /\ Clean(s, stray) /\ Full(s, lost, stale, torn)

LEMMA MatchesMore ==
  ASSUME NEW s, NEW lost, NEW stale, NEW torn, NEW stray, Matches(s, lost, stale, torn, stray),
         NEW lost1, lost \subseteq lost1, NEW stale1, stale \subseteq stale1,
         NEW torn1, torn \subseteq torn1, NEW stray1, stray \subseteq stray1
  PROVE  Matches(s, lost1, stale1, torn1, stray1)
<1>1. Owned(s, lost1)
  BY DEF Matches, Owned
<1>2. Named(s, stale1)
  BY DEF Matches, Named
<1>3. Clean(s, stray1)
  BY DEF Matches, Clean
<1>4. Full(s, lost1, stale1, torn1)
  BY DEF Matches, Full
<1> QED BY <1>1, <1>2, <1>3, <1>4 DEF Matches

-----------------------------------------------------------------------------
(* The functions on the VLANs, when no call fails. *)

Rest(s, t) ==
  /\ t.entries = s.entries /\ t.mem = s.mem /\ t.known = s.known /\ t.vid = s.vid
  /\ t.npuVlans = s.npuVlans

(* The LAGs of new join VLAN v. *)
JoinVlan(s, t, v, m, new) ==
  /\ Rest(s, t)
  /\ \A l \in Lags, n \in Modes, w \in MaybeVid :
       w \in t.vlans[<<l, n>>] <=> w \in s.vlans[<<l, n>>] \/ (l \in new /\ n = m /\ w = v)
  /\ \A w \in Vids, n \in Modes, p \in Ports :
       p \in t.npu[<<w, n>>] <=>
         \/ p \in s.npu[<<w, n>>]
         \/ w = v /\ n = m /\ v \in s.npuVlans /\ \E l \in new : p \in s.mem[l]

(* LAG l leaves VLAN v. *)
LeaveVlan(s, t, v, m, l) ==
  /\ Rest(s, t)
  /\ \A k \in Lags, n \in Modes, w \in MaybeVid :
       w \in t.vlans[<<k, n>>] <=> w \in s.vlans[<<k, n>>] /\ ~(k = l /\ n = m /\ w = v)
  /\ \A w \in Vids, n \in Modes, p \in Ports :
       p \in t.npu[<<w, n>>] <=>
         /\ p \in s.npu[<<w, n>>]
         /\ ~(w = v /\ n = m /\ v \in s.npuVlans /\ p \in s.mem[l])

LEMMA JoinKeeps ==
  ASSUME NEW s \in VlanState, NEW t \in VlanState, NEW b \in s.known, NEW v, v = s.vid[b],
         NEW m \in Modes, NEW new, new \subseteq s.entries, JoinVlan(s, t, v, m, new),
         NEW lost, NEW stale, NEW torn, NEW stray, Matches(s, lost, stale, torn, stray)
  PROVE  Matches(t, lost, stale, torn, stray)
<1>1. s.entries \subseteq Lags /\ s.known \subseteq Bridges /\ Vids \subseteq MaybeVid
      /\ v \in MaybeVid
  BY DEF VlanState, MaybeVid
<1>2. Rest(s, t)
  BY DEF JoinVlan
<1>3. Sound(t)
  <2> SUFFICES ASSUME NEW w \in Vids \ s.npuVlans, NEW n \in Modes PROVE t.npu[<<w, n>>] = {}
    BY <1>2 DEF Sound, Rest, Matches
  <2>1. s.npu[<<w, n>>] = {}
    BY DEF Sound, Matches
  <2>2. t.npu[<<w, n>>] \subseteq Ports
    BY DEF VlanState
  <2> QED BY <2>1, <2>2 DEF JoinVlan
<1>4. Owned(t, lost) /\ Sharing(t) \subseteq lost
  BY <1>2 DEF Owned, Sharing, Rest, Matches
<1>5. Named(t, stale)
  <2> SUFFICES ASSUME NEW l \in s.entries, NEW n \in Modes, NEW w \in Vids, w \in t.vlans[<<l, n>>]
               PROVE  <<l, n, w>> \in stale \/ \E c \in s.known : s.vid[c] = w
    BY <1>2 DEF Named, Rest
  <2>1. w \in s.vlans[<<l, n>>] \/ w = v
    BY <1>1 DEF JoinVlan
  <2> QED BY <2>1 DEF Named, Matches
<1>6. Clean(t, stray)
  <2> SUFFICES ASSUME NEW w \in Vids, NEW n \in Modes, NEW p \in Ports, p \in t.npu[<<w, n>>]
               PROVE  <<w, n, p>> \in stray
                      \/ \E l \in s.entries : w \in t.vlans[<<l, n>>] /\ p \in s.mem[l]
    BY <1>2 DEF Clean, Rest
  <2>1. CASE p \in s.npu[<<w, n>>]
    <3>1. <<w, n, p>> \in stray \/ \E l \in s.entries : w \in s.vlans[<<l, n>>] /\ p \in s.mem[l]
      BY <2>1 DEF Clean, Matches
    <3> QED BY <1>1, <3>1 DEF JoinVlan
  <2>2. CASE w = v /\ n = m /\ \E l \in new : p \in s.mem[l]
    BY <1>1, <2>2 DEF JoinVlan
  <2> QED BY <2>1, <2>2 DEF JoinVlan
<1>7. Full(t, lost, stale, torn)
  <2> SUFFICES ASSUME NEW c \in s.known, NEW l \in s.entries, NEW n \in Modes, NEW w \in Vids,
                      s.vid[c] = w, w \in t.vlans[<<l, n>>], <<c, l>> \notin lost,
                      <<l, n, w>> \notin stale, NEW p \in s.mem[l]
               PROVE  p \in t.npu[<<w, n>>] \/ <<w, n, p>> \in torn
    BY <1>2 DEF Full, Rest
  <2>1. p \in Ports /\ l \in Lags
    BY DEF VlanState
  <2>2. CASE w \in s.vlans[<<l, n>>]
    <3>1. p \in s.npu[<<w, n>>] \/ <<w, n, p>> \in torn
      BY <2>2 DEF Full, Matches
    <3> QED BY <2>1, <3>1 DEF JoinVlan
  <2>3. CASE l \in new /\ n = m /\ w = v
    <3>1. v \in s.npuVlans
      BY <2>1, <2>3 DEF Owned, Matches
    <3> QED BY <2>1, <2>3, <3>1 DEF JoinVlan
  <2> QED BY <1>1, <2>1, <2>2, <2>3 DEF JoinVlan
<1> QED BY <1>3, <1>4, <1>5, <1>6, <1>7 DEF Matches

LEMMA LeaveKeeps ==
  ASSUME NEW s \in VlanState, NEW t \in VlanState, NEW v, NEW m \in Modes,
         NEW l \in s.entries, LeaveVlan(s, t, v, m, l),
         NEW lost, NEW stale, NEW torn, NEW stray, Matches(s, lost, stale, torn, stray),
         Apart(s, torn)
  PROVE  Matches(t, lost, stale, torn, stray)
<1>1. s.entries \subseteq Lags /\ s.known \subseteq Bridges /\ Vids \subseteq MaybeVid
  BY DEF VlanState, MaybeVid
<1>2. Rest(s, t)
  BY DEF LeaveVlan
<1>3. Sound(t)
  <2> SUFFICES ASSUME NEW w \in Vids \ s.npuVlans, NEW n \in Modes PROVE t.npu[<<w, n>>] = {}
    BY <1>2 DEF Sound, Rest, Matches
  <2>1. s.npu[<<w, n>>] = {}
    BY DEF Sound, Matches
  <2>2. t.npu[<<w, n>>] \subseteq Ports
    BY DEF VlanState
  <2> QED BY <2>1, <2>2 DEF LeaveVlan
<1>4. Owned(t, lost) /\ Sharing(t) \subseteq lost
  BY <1>2 DEF Owned, Sharing, Rest, Matches
<1>5. Named(t, stale)
  <2> SUFFICES ASSUME NEW k \in s.entries, NEW n \in Modes, NEW w \in Vids, w \in t.vlans[<<k, n>>]
               PROVE  <<k, n, w>> \in stale \/ \E c \in s.known : s.vid[c] = w
    BY <1>2 DEF Named, Rest
  <2>1. w \in s.vlans[<<k, n>>]
    BY <1>1 DEF LeaveVlan
  <2> QED BY <2>1 DEF Named, Matches
<1>6. Clean(t, stray)
  <2> SUFFICES ASSUME NEW w \in Vids, NEW n \in Modes, NEW p \in Ports, p \in t.npu[<<w, n>>],
                      <<w, n, p>> \notin stray
               PROVE  \E k \in s.entries : w \in t.vlans[<<k, n>>] /\ p \in s.mem[k]
    BY <1>2 DEF Clean, Rest
  <2>1. p \in s.npu[<<w, n>>] /\ ~(w = v /\ n = m /\ v \in s.npuVlans /\ p \in s.mem[l])
    BY DEF LeaveVlan
  <2>2. PICK k \in s.entries : w \in s.vlans[<<k, n>>] /\ p \in s.mem[k]
    BY <2>1 DEF Clean, Matches
  <2>3. w \in s.npuVlans
    BY <2>1 DEF Sound, Matches
  <2>4. w \in t.vlans[<<k, n>>]
    BY <1>1, <2>1, <2>2, <2>3 DEF LeaveVlan
  <2> QED BY <2>2, <2>4
<1>7. Full(t, lost, stale, torn)
  <2> SUFFICES ASSUME NEW c \in s.known, NEW k \in s.entries, NEW n \in Modes, NEW w \in Vids,
                      s.vid[c] = w, w \in t.vlans[<<k, n>>], <<c, k>> \notin lost,
                      <<k, n, w>> \notin stale, NEW p \in s.mem[k]
               PROVE  p \in t.npu[<<w, n>>] \/ <<w, n, p>> \in torn
    BY <1>2 DEF Full, Rest
  <2>1. p \in Ports /\ k \in Lags /\ l \in Lags /\ w \in MaybeVid
    BY <1>1 DEF VlanState
  <2>2. w \in s.vlans[<<k, n>>] /\ ~(k = l /\ n = m /\ w = v)
    BY <2>1 DEF LeaveVlan
  <2>3. p \in s.npu[<<w, n>>] \/ <<w, n, p>> \in torn
    BY <2>2 DEF Full, Matches
  <2>4. k # l => p \notin s.mem[l] \/ <<w, n, p>> \in torn
    BY <2>1 DEF Apart
  <2> QED BY <2>1, <2>2, <2>3, <2>4 DEF LeaveVlan
<1> QED BY <1>3, <1>4, <1>5, <1>6, <1>7 DEF Matches

(* A bridge comes without an id. *)
LEMMA InsertKeeps ==
  ASSUME NEW s \in VlanState, NEW b \in Bridges, NEW t, t = BridgeInsert(s, b),
         NEW lost, NEW stale, NEW torn, NEW stray, Matches(s, lost, stale, torn, stray)
  PROVE  Matches(t, lost, stale, torn, stray) /\ t.known \subseteq s.known \cup {b}
<1>1. CASE b \in s.known
  BY <1>1 DEF BridgeInsert
<1>2. CASE b \notin s.known
  <2>1. /\ t.entries = s.entries /\ t.mem = s.mem /\ t.vlans = s.vlans /\ t.npu = s.npu
        /\ t.npuVlans = s.npuVlans /\ t.known = s.known \cup {b}
        /\ \A c \in s.known : t.vid[c] = s.vid[c]
        /\ t.vid[b] = 0 /\ 0 \notin Vids
    BY <1>2, NasVlanLagAssumption DEF BridgeInsert, VlanState
  <2>2. Sound(t) /\ Clean(t, stray)
    BY <2>1 DEF Sound, Clean, Matches
  <2>3. Owned(t, lost)
    BY <2>1 DEF Owned, Matches
  <2>4. Named(t, stale)
    BY <2>1 DEF Named, Matches
  <2>5. Sharing(t) \subseteq lost
    <3>1. Sharing(t) \subseteq Sharing(s)
      BY <2>1 DEF Sharing
    <3> QED BY <3>1 DEF Matches
  <2>6. Full(t, lost, stale, torn)
    BY <2>1 DEF Full, Matches
  <2>7. Matches(t, lost, stale, torn, stray)
    BY <2>2, <2>3, <2>4, <2>5, <2>6 DEF Matches
  <2> QED BY <2>1, <2>7
<1> QED BY <1>1, <1>2

(* A bridge without an id takes the id of a VLAN, which is made if need be. *)
TakesId(s, t, b, v) ==
  /\ t.entries = s.entries /\ t.mem = s.mem /\ t.known = s.known /\ t.vlans = s.vlans
  /\ t.npu = s.npu /\ t.npuVlans = s.npuVlans \cup {v}
  /\ t.vid[b] = v /\ \A c \in s.known \ {b} : t.vid[c] = s.vid[c]

LEMMA TakeKeeps ==
  ASSUME NEW s \in VlanState, NEW t, NEW b \in s.known, s.vid[b] = 0, NEW v \in Vids,
         TakesId(s, t, b, v),
         NEW lost, NEW stale, NEW torn, NEW stray, Matches(s, lost, stale, torn, stray),
         NEW lost1, lost \cup Sharing(t) \subseteq lost1
  PROVE  Matches(t, lost1, stale, torn, stray)
<1>1. 0 \notin Vids /\ s.entries \subseteq Lags
  BY NasVlanLagAssumption DEF VlanState
<1>2. Sound(t) /\ Clean(t, stray)
  BY DEF Sound, Clean, Matches, TakesId
<1>3. Owned(t, lost1)
  BY DEF Owned, Matches, TakesId
<1>4. Named(t, stale)
  BY <1>1 DEF Named, Matches, TakesId
<1>5. Full(t, lost1, stale, torn)
  <2> SUFFICES ASSUME NEW c \in s.known, NEW l \in s.entries, NEW m \in Modes, NEW w \in Vids,
                      t.vid[c] = w, w \in s.vlans[<<l, m>>], <<c, l>> \notin lost1,
                      <<l, m, w>> \notin stale, NEW p \in s.mem[l]
               PROVE  p \in s.npu[<<w, m>>] \/ <<w, m, p>> \in torn
    BY DEF Full, TakesId
  <2>1. CASE c = b
    <3>1. PICK d \in s.known : s.vid[d] = w
      BY DEF Named, Matches
    <3>2. d \in t.known \ {b} /\ t.vid[d] = w /\ c \in t.known /\ w # 0
      BY <1>1, <2>1, <3>1 DEF TakesId
    <3>3. <<c, l>> \in Sharing(t)
      BY <1>1, <2>1, <3>2 DEF Sharing
    <3> QED BY <3>3
  <2>2. CASE c # b
    BY <2>2 DEF Full, Matches, TakesId
  <2> QED BY <2>1, <2>2
<1> QED BY <1>2, <1>3, <1>4, <1>5 DEF Matches

(* nas_cleanup_bridge *)
LEMMA CleanupKeeps ==
  ASSUME NEW s \in VlanState, NEW b \in s.known, NEW t, t = BridgeCleanup(s, b, "none"),
         NEW lost, NEW stale, NEW torn, NEW stray, Matches(s, lost, stale, torn, stray)
  PROVE  Matches(t, lost, stale \cup StaleAfter(s, b), torn, stray) /\ t.known \subseteq s.known
<1> DEFINE v == s.vid[b]
           gone == v \in s.npuVlans \ {DefaultVlan}
           stale1 == stale \cup StaleAfter(s, b)
<1>1. 0 \notin Vids /\ s.entries \subseteq Lags /\ b \in Bridges /\ v \in MaybeVid
  BY NasVlanLagAssumption DEF VlanState
<1>2. /\ t.entries = s.entries /\ t.mem = s.mem /\ t.vlans = s.vlans
      /\ t.known = s.known \ {b} /\ \A c \in s.known \ {b} : t.vid[c] = s.vid[c]
      /\ t.npuVlans = IF gone THEN s.npuVlans \ {v} ELSE s.npuVlans
      /\ \A w \in Vids, m \in Modes :
           t.npu[<<w, m>>] = IF gone /\ w = v THEN {} ELSE s.npu[<<w, m>>]
  BY DEF BridgeCleanup, VlanState
<1>3. \A l \in Lags, m \in Modes : v \in s.vlans[<<l, m>>] => <<l, m, v>> \in stale1
  BY DEF StaleAfter
<1>4. \A c \in s.known \ {b}, l \in Lags : s.vid[c] = v /\ v # 0 => <<c, l>> \in lost
  BY DEF Sharing, Matches
<1> HIDE DEF v, stale1
<1>5. Sound(t)
  BY <1>2 DEF Sound, Matches
<1>6. Owned(t, lost)
  <2> SUFFICES ASSUME NEW c \in s.known \ {b}, NEW l \in Lags, s.vid[c] \in Vids \ t.npuVlans
               PROVE  <<c, l>> \in lost
    BY <1>2 DEF Owned
  <2>1. s.vid[c] = v \/ s.vid[c] \notin s.npuVlans
    BY <1>2
  <2> QED BY <1>1, <1>4, <2>1 DEF Owned, Matches
<1>7. Named(t, stale1)
  <2> SUFFICES ASSUME NEW l \in s.entries, NEW m \in Modes, NEW w \in Vids, w \in s.vlans[<<l, m>>],
                      <<l, m, w>> \notin stale1
               PROVE  \E c \in t.known : t.vid[c] = w
    BY <1>2 DEF Named
  <2>1. PICK c \in s.known : s.vid[c] = w
    BY DEF Named, Matches, stale1
  <2>2. w # v
    BY <1>1, <1>3
  <2> QED BY <1>2, <2>1, <2>2 DEF v
<1>8. Sharing(t) \subseteq lost
  <2>1. Sharing(t) \subseteq Sharing(s)
    BY <1>2 DEF Sharing
  <2> QED BY <2>1 DEF Matches
<1>9. Clean(t, stray)
  BY <1>2 DEF Clean, Matches
<1>10. Full(t, lost, stale1, torn)
  <2> SUFFICES ASSUME NEW c \in s.known \ {b}, NEW l \in s.entries, NEW m \in Modes, NEW w \in Vids,
                      s.vid[c] = w, w \in s.vlans[<<l, m>>], <<c, l>> \notin lost,
                      <<l, m, w>> \notin stale1, NEW p \in s.mem[l]
               PROVE  p \in t.npu[<<w, m>>] \/ <<w, m, p>> \in torn
    BY <1>2 DEF Full
  <2>1. w # v
    BY <1>1, <1>3
  <2>2. p \in s.npu[<<w, m>>] \/ <<w, m, p>> \in torn
    BY DEF Full, Matches, stale1
  <2> QED BY <1>2, <2>1, <2>2
<1>11. Matches(t, lost, stale1, torn, stray)
  BY <1>5, <1>6, <1>7, <1>8, <1>9, <1>10 DEF Matches
<1> QED BY <1>2, <1>11 DEF stale1

-----------------------------------------------------------------------------
(* The functions of nas_vlan_lag_api.cpp and nas_int_vlan.cpp as those steps. *)

(* nas_add_or_del_port_to_vlan, when no call fails. *)
PortsJoin(s, t, v, m, S) ==
  /\ t \in VlanState /\ Rest(s, t) /\ t.vlans = s.vlans
  /\ \A w \in Vids, n \in Modes, p \in Ports :
       p \in t.npu[<<w, n>>] <=>
         p \in s.npu[<<w, n>>] \/ (w = v /\ n = m /\ v \in s.npuVlans /\ p \in S)

PortsLeave(s, t, v, m, S) ==
  /\ t \in VlanState /\ Rest(s, t) /\ t.vlans = s.vlans
  /\ \A w \in Vids, n \in Modes, p \in Ports :
       p \in t.npu[<<w, n>>] <=>
         p \in s.npu[<<w, n>>] /\ ~(w = v /\ n = m /\ v \in s.npuVlans /\ p \in S)

LEMMA NpuEffect ==
  ASSUME NEW s \in VlanState, NEW v, NEW m \in Modes, NEW S \in SUBSET Ports
  PROVE  /\ PortsJoin(s, NpuAdd(s, v, m, S, "none"), v, m, S)
         /\ PortsLeave(s, NpuDel(s, v, m, S, "none"), v, m, S)
<1> DEFINE a == NpuAdd(s, v, m, S, "none")
           d == NpuDel(s, v, m, S, "none")
<1>1. a \in VlanState /\ d \in VlanState
  BY NpuType DEF VlanOnly
<1>2. CASE ~Has(s, v)
  <2>1. a = s /\ d = s
    BY <1>2 DEF NpuAdd, NpuDel
  <2>2. \A w \in Vids : ~(w = v /\ v \in s.npuVlans)
    BY <1>2 DEF Has
  <2>3. PortsJoin(s, s, v, m, S) /\ PortsLeave(s, s, v, m, S)
    BY <2>2 DEF Rest, PortsJoin, PortsLeave
  <2> QED BY <2>1, <2>3
<1>3. CASE Has(s, v)
  <2>1. v \in Vids /\ v \in s.npuVlans /\ <<v, m>> \in Vids \X Modes
    BY <1>3 DEF Has
  <2>2. a = [s EXCEPT !.npu[<<v, m>>] = @ \cup S] /\ d = [s EXCEPT !.npu[<<v, m>>] = @ \ S]
    BY <1>3 DEF NpuAdd, NpuDel
  <2> HIDE DEF a, d
  <2>3. s.npu \in [Vids \X Modes -> SUBSET Ports]
    BY DEF VlanState
  <2>4. /\ Rest(s, a) /\ a.vlans = s.vlans /\ a.npu = [s.npu EXCEPT ![<<v, m>>] = @ \cup S]
        /\ Rest(s, d) /\ d.vlans = s.vlans /\ d.npu = [s.npu EXCEPT ![<<v, m>>] = @ \ S]
    BY <2>2 DEF VlanState, Rest
  <2>5. \A w \in Vids, n \in Modes :
          /\ a.npu[<<w, n>>] =
               IF w = v /\ n = m THEN s.npu[<<w, n>>] \cup S ELSE s.npu[<<w, n>>]
          /\ d.npu[<<w, n>>] = IF w = v /\ n = m THEN s.npu[<<w, n>>] \ S ELSE s.npu[<<w, n>>]
    BY <2>1, <2>3, <2>4
  <2> QED BY <1>1, <2>1, <2>4, <2>5 DEF PortsJoin, PortsLeave, a, d
<1> QED BY <1>2, <1>3

(* The id of VLAN v is added to those of a LAG or taken from them. *)
IdJoins(r, t, l, m, v) ==
  /\ Rest(r, t) /\ t.npu = r.npu
  /\ \A k \in Lags, n \in Modes, w \in MaybeVid :
       w \in t.vlans[<<k, n>>] <=> w \in r.vlans[<<k, n>>] \/ (k = l /\ n = m /\ w = v)

IdLeaves(r, t, l, m, v) ==
  /\ Rest(r, t) /\ t.npu = r.npu
  /\ \A k \in Lags, n \in Modes, w \in MaybeVid :
       w \in t.vlans[<<k, n>>] <=> w \in r.vlans[<<k, n>>] /\ ~(k = l /\ n = m /\ w = v)

LEMMA VlansEffect ==
  ASSUME NEW r \in VlanState, NEW l \in Lags, NEW m \in Modes, NEW v
  PROVE  /\ IdJoins(r, [r EXCEPT !.vlans[<<l, m>>] = @ \cup {v}], l, m, v)
         /\ IdLeaves(r, [r EXCEPT !.vlans[<<l, m>>] = @ \ {v}], l, m, v)
<1>1. r.vlans \in [Lags \X Modes -> SUBSET MaybeVid] /\ <<l, m>> \in Lags \X Modes
  BY DEF VlanState
<1>2. PICK u : u = r.vlans
  OBVIOUS
<1> DEFINE x == [u EXCEPT ![<<l, m>>] = @ \cup {v}]
           y == [u EXCEPT ![<<l, m>>] = @ \ {v}]
           a == [r EXCEPT !.vlans = x]
           d == [r EXCEPT !.vlans = y]
<1>3. \A k \in Lags, n \in Modes :
        /\ x[<<k, n>>] = IF k = l /\ n = m THEN u[<<k, n>>] \cup {v} ELSE u[<<k, n>>]
        /\ y[<<k, n>>] = IF k = l /\ n = m THEN u[<<k, n>>] \ {v} ELSE u[<<k, n>>]
  BY <1>1, <1>2
<1>4. /\ a = [r EXCEPT !.vlans[<<l, m>>] = @ \cup {v}]
      /\ d = [r EXCEPT !.vlans[<<l, m>>] = @ \ {v}]
  BY <1>2
<1> HIDE DEF x, y
<1>5. /\ Rest(r, a) /\ a.npu = r.npu /\ a.vlans = x
      /\ Rest(r, d) /\ d.npu = r.npu /\ d.vlans = y
  BY DEF VlanState, Rest
<1> HIDE DEF a, d
<1>6. IdJoins(r, a, l, m, v) /\ IdLeaves(r, d, l, m, v)
  BY <1>2, <1>3, <1>5 DEF IdJoins, IdLeaves
<1> QED BY <1>4, <1>6

LEMMA AddLagJoins ==
  ASSUME NEW s \in VlanState, NEW l \in Lags, NEW v \in MaybeVid, NEW m \in Modes,
         NEW t, t = AddLag(s, l, v, m, "none")
  PROVE  \E new \in SUBSET s.entries : JoinVlan(s, t, v, m, new)
<1>1. CASE l \notin s.entries \/ v \in s.vlans[<<l, m>>]
  <2>1. t = s
    BY <1>1 DEF AddLag
  <2>2. JoinVlan(s, t, v, m, {})
    BY <2>1 DEF JoinVlan, Rest
  <2> QED BY <2>2
<1>2. CASE ~(l \notin s.entries \/ v \in s.vlans[<<l, m>>])
  <2>1. PICK S : S = s.mem[l]
    OBVIOUS
  <2>2. PICK r : r = NpuAdd(s, v, m, S, "none")
    OBVIOUS
  <2>3. S \in SUBSET Ports
    BY <2>1 DEF VlanState
  <2>4. PortsJoin(s, r, v, m, S)
    BY <2>2, <2>3, NpuEffect
  <2>5. t = [r EXCEPT !.vlans[<<l, m>>] = @ \cup {v}]
    BY <1>2, <2>1, <2>2 DEF AddLag
  <2>6. r \in VlanState
    BY <2>4 DEF PortsJoin
  <2>7. IdJoins(r, t, l, m, v)
    BY <2>5, <2>6, VlansEffect, ZenonT(40)
  <2>8. JoinVlan(s, t, v, m, {l})
    BY <2>1, <2>4, <2>7 DEF JoinVlan, PortsJoin, IdJoins, Rest
  <2> QED BY <1>2, <2>8
<1> QED BY <1>1, <1>2

LEMMA DelLagLeaves ==
  ASSUME NEW s \in VlanState, NEW l \in Lags, NEW v \in MaybeVid,
         NEW t, t = DelLag(s, l, v, "none")
  PROVE  t = s \/ (l \in s.entries /\ \E m \in Modes : LeaveVlan(s, t, v, m, l))
<1>1. PICK m : m = DelMode(s, l, v)
  OBVIOUS
<1>2. m \in Modes
  BY <1>1 DEF DelMode, Modes
<1>3. CASE l \notin s.entries \/ v \notin s.vlans[<<l, m>>]
  BY <1>1, <1>3 DEF DelLag
<1>4. CASE ~(l \notin s.entries \/ v \notin s.vlans[<<l, m>>])
  <2>1. PICK S : S = s.mem[l]
    OBVIOUS
  <2>2. PICK r : r = NpuDel(s, v, m, S, "none")
    OBVIOUS
  <2>3. S \in SUBSET Ports
    BY <2>1 DEF VlanState
  <2>4. PortsLeave(s, r, v, m, S)
    BY <1>2, <2>2, <2>3, NpuEffect
  <2>5. t = [r EXCEPT !.vlans[<<l, m>>] = @ \ {v}]
    BY <1>1, <1>4, <2>1, <2>2 DEF DelLag
  <2>6. r \in VlanState
    BY <2>4 DEF PortsLeave
  <2>7. IdLeaves(r, t, l, m, v)
    BY <1>2, <2>5, <2>6, VlansEffect, ZenonT(40)
  <2>8. LeaveVlan(s, t, v, m, l)
    BY <2>1, <2>4, <2>7 DEF LeaveVlan, PortsLeave, IdLeaves, Rest
  <2> QED BY <1>2, <1>4, <2>8
<1> QED BY <1>3, <1>4

LEMMA AddStoredJoins ==
  ASSUME NEW s \in VlanState, NEW b \in Bridges, NEW v, v = s.vid[b],
         NEW t, t = AddStored(s, b, "none")
  PROVE  \E new \in SUBSET s.entries : JoinVlan(s, t, v, "untagged", new)
<1> DEFINE new == {l \in s.stored[b] \cap s.entries : v \notin s.vlans[<<l, "untagged">>]}
           S == UNION {s.mem[l] : l \in new}
           r == NpuAdd(s, v, "untagged", S, "none")
           u == [x \in Lags \X Modes |->
                  IF x[1] \in new /\ x[2] = "untagged" THEN r.vlans[x] \cup {v} ELSE r.vlans[x]]
<1>1. "untagged" \in Modes /\ v \in MaybeVid /\ new \subseteq s.entries
  BY DEF Modes, VlanState
<1>2. t = [r EXCEPT !.vlans = u]
  BY DEF AddStored
<1> HIDE DEF new
<1>3. S \in SUBSET Ports /\ \A p : p \in S <=> \E l \in new : p \in s.mem[l]
  <2>1. \A l \in new : s.mem[l] \in SUBSET Ports
    BY <1>1 DEF VlanState
  <2> QED BY <2>1
<1> HIDE DEF S
<1>4. PortsJoin(s, r, v, "untagged", S)
  BY <1>1, <1>3, NpuEffect
<1> HIDE DEF r
<1>5. r \in VlanState /\ Rest(s, r) /\ r.vlans = s.vlans
  BY <1>4 DEF PortsJoin
<1>6. \A k \in Lags, n \in Modes, w \in MaybeVid :
        w \in u[<<k, n>>] <=> w \in s.vlans[<<k, n>>] \/ (k \in new /\ n = "untagged" /\ w = v)
  BY <1>5
<1> HIDE DEF u
<1>7. Rest(r, t) /\ t.npu = r.npu /\ t.vlans = u
  BY <1>2, <1>5 DEF VlanState, Rest
<1>8. JoinVlan(s, t, v, "untagged", new)
  BY <1>3, <1>4, <1>5, <1>6, <1>7 DEF JoinVlan, PortsJoin, Rest
<1> QED BY <1>1, <1>8

LEMMA SameMatches ==
  ASSUME NEW s, NEW t, Rest(s, t), t.vlans = s.vlans, t.npu = s.npu,
         NEW lost, NEW stale, NEW torn, NEW stray, Matches(s, lost, stale, torn, stray)
  PROVE  Matches(t, lost, stale, torn, stray)
<1>1. Sound(t) /\ Owned(t, lost) /\ Named(t, stale)
  BY DEF Rest, Matches, Sound, Owned, Named
<1>2. Sharing(t) = Sharing(s)
  BY DEF Rest, Sharing
<1>3. Clean(t, stray) /\ Full(t, lost, stale, torn)
  BY DEF Rest, Matches, Clean, Full
<1> QED BY <1>1, <1>2, <1>3 DEF Matches

(* nas_process_member_addition_to_vlan *)
LEMMA FirstTaggedKeeps ==
  ASSUME NEW s \in VlanState, NEW b \in s.known, s.vid[b] = 0, NEW v \in Vids, NEW p \in Members,
         NEW t, t = FirstTagged(s, b, v, p, "none"),
         NEW lost, NEW stale, NEW torn, NEW stray, Matches(s, lost, stale, torn, stray),
         NEW lost1, lost \cup Sharing(t) \subseteq lost1
  PROVE  Matches(t, lost1, stale, torn, stray) /\ t.known = s.known
<1> DEFINE named == [s EXCEPT !.vid[b] = v]
           made == [named EXCEPT !.npuVlans = @ \cup {v}]
<1>1. b \in Bridges /\ v \in MaybeVid
  BY DEF VlanState, MaybeVid
<1>2. named \in VlanState /\ named.vid[b] = v /\ b \in named.known
  BY <1>1 DEF VlanState
<1>3. made \in VlanState /\ made.vid[b] = v /\ b \in made.known
  BY <1>1 DEF VlanState
<1>4. TakesId(s, made, b, v) /\ (v \in s.npuVlans => TakesId(s, named, b, v))
  BY <1>1 DEF TakesId, VlanState
<1> HIDE DEF made, named
<1>5. CASE v \in s.npuVlans
  <2>1. t = named
    BY <1>5 DEF FirstTagged, named
  <2> QED BY <1>4, <1>5, <2>1, TakeKeeps DEF TakesId
<1>6. CASE v \notin s.npuVlans
  <2>1. PICK r : r = IF p = Phys THEN made ELSE AddLag(made, p, v, "tagged", "none")
    OBVIOUS
  <2>2. t = AddStored(r, b, "none")
    BY <1>6, <2>1 DEF FirstTagged, named, made
  <2>3. "tagged" \in Modes /\ "untagged" \in Modes
    BY DEF Modes
  <2>4. r \in VlanState /\ r.known = made.known /\ r.vid = made.vid
        /\ (r = made \/ \E new \in SUBSET made.entries : JoinVlan(made, r, v, "tagged", new))
    <3>1. CASE p = Phys
      BY <1>3, <2>1, <3>1
    <3>2. CASE p # Phys
      <4>1. p \in Lags /\ r = AddLag(made, p, v, "tagged", "none")
        BY <2>1, <3>2 DEF Members
      <4>2. \E new \in SUBSET made.entries : JoinVlan(made, r, v, "tagged", new)
        BY <1>1, <1>3, <2>3, <4>1, AddLagJoins
      <4>3. r \in VlanState
        BY <1>1, <1>3, <2>3, <4>1, LagType DEF VlanOnly
      <4> QED BY <4>2, <4>3 DEF JoinVlan, Rest
    <3> QED BY <3>1, <3>2
  <2>5. r.vid[b] = v /\ b \in r.known
    BY <1>3, <2>4
  <2>6. PICK new \in SUBSET r.entries : JoinVlan(r, t, v, "untagged", new)
    BY <1>1, <2>2, <2>4, <2>5, AddStoredJoins
  <2>7. t \in VlanState
    BY <1>1, <2>2, <2>4, AddStoredType DEF VlanOnly
  <2>8. Sharing(t) = Sharing(made)
    <3>1. t.known = made.known /\ t.vid = made.vid
      BY <2>4, <2>6 DEF JoinVlan, Rest
    <3> QED BY <3>1 DEF Sharing
  <2>9. Matches(made, lost1, stale, torn, stray)
    BY <1>4, <2>8, TakeKeeps
  <2>10. Matches(r, lost1, stale, torn, stray)
    BY <1>3, <2>3, <2>4, <2>9, JoinKeeps
  <2>11. t.known = s.known
    BY <1>4, <2>4, <2>6 DEF TakesId, JoinVlan, Rest
  <2>12. Matches(t, lost1, stale, torn, stray)
    BY <2>3, <2>4, <2>5, <2>6, <2>7, <2>10, JoinKeeps
  <2> QED BY <2>11, <2>12
<1> QED BY <1>5, <1>6

LEMMA MemberAddKeeps ==
  ASSUME NEW s \in VlanState, NEW b \in s.known, NEW v \in MaybeVid, NEW p \in Members,
         NEW t, t = MemberAdd(s, b, p, v, "none"),
         NEW lost, NEW stale, NEW torn, NEW stray, Matches(s, lost, stale, torn, stray),
         NEW lost1, lost \cup Sharing(t) \subseteq lost1
  PROVE  Matches(t, lost1, stale, torn, stray) /\ t.known = s.known
<1>0. Matches(s, lost1, stale, torn, stray)
  BY MatchesMore
<1>1. CASE s.vid[b] = 0 /\ v # 0
  <2>1. v \in Vids /\ t = FirstTagged(s, b, v, p, "none")
    BY <1>1 DEF MaybeVid, MemberAdd
  <2> QED BY <1>1, <2>1, FirstTaggedKeeps
<1>2. CASE s.vid[b] = 0 /\ v = 0 /\ p # Phys
  <2>1. t = [s EXCEPT !.stored[b] = @ \cup {p}]
    BY <1>2 DEF MemberAdd
  <2>2. Rest(s, t) /\ t.vlans = s.vlans /\ t.npu = s.npu
    BY <2>1 DEF VlanState, Rest
  <2> QED BY <1>0, <2>2, SameMatches DEF Rest
<1>3. CASE s.vid[b] # 0 /\ p # Phys
  <2>1. PICK w : w = s.vid[b]
    OBVIOUS
  <2>2. PICK m : m = ModeOf(v)
    OBVIOUS
  <2>3. w \in MaybeVid /\ m \in Modes /\ p \in Lags
    BY <1>3, <2>1, <2>2 DEF VlanState, ModeOf, Modes, Members
  <2>4. t = AddLag(s, p, w, m, "none")
    BY <1>3, <2>1, <2>2 DEF MemberAdd
  <2>5. PICK new \in SUBSET s.entries : JoinVlan(s, t, w, m, new)
    BY <2>3, <2>4, AddLagJoins
  <2>6. t \in VlanState
    BY <2>3, <2>4, LagType DEF VlanOnly
  <2>7. Matches(t, lost1, stale, torn, stray)
    BY <1>0, <2>1, <2>3, <2>5, <2>6, JoinKeeps
  <2> QED BY <2>5, <2>7 DEF JoinVlan, Rest
<1>4. CASE p = Phys /\ ~(s.vid[b] = 0 /\ v # 0)
  <2>1. t = s
    BY <1>4 DEF MemberAdd
  <2> QED BY <1>0, <2>1
<1> QED BY <1>1, <1>2, <1>3, <1>4

(* What the event thread does for a kernel event. *)
Handled(s, e, t, lost, stale, torn, stray) ==
  /\ Matches(t, lost, stale, torn, stray)
  /\ \A b \in t.known : b \in s.known \/ (e.op = "newBridge" /\ b = e.br)

LEMMA HandleKeeps ==
  ASSUME NEW s \in VlanState, lags \subseteq Lags, NEW e \in Event, ~Fatal(s, e),
         NEW t, t = Handle(s, e, "none"),
         NEW lost, NEW stale, NEW torn, NEW stray, Matches(s, lost, stale, torn, stray),
         Apart(s, torn),
         NEW lost1, lost \cup Sharing(t) \subseteq lost1, NEW stale1, stale \subseteq stale1,
         e.op = "delBridge" /\ e.br \in s.known => StaleAfter(s, e.br) \subseteq stale1
  PROVE  Handled(s, e, t, lost1, stale1, torn, stray)
<1> USE DEF Handled
<1>0. Matches(s, lost1, stale1, torn, stray)
  BY MatchesMore
<1>1. e.br \in Bridges /\ e.vid \in MaybeVid
      /\ e.op \in {"newBridge", "delBridge", "addPort", "delPort"}
  BY DEF Event
<1>2. CASE e.op = "newBridge"
  <2>1. t = BridgeInsert(s, e.br)
    BY <1>2 DEF Handle
  <2>2. Matches(t, lost1, stale1, torn, stray) /\ t.known \subseteq s.known \cup {e.br}
    BY <1>0, <1>1, <2>1, InsertKeeps
  <2> QED BY <1>2, <2>2
<1>3. CASE e.op = "delBridge"
  <2>1. CASE e.br \in s.known
    <3>1. t = BridgeCleanup(s, e.br, "none")
      BY <1>3, <2>1 DEF Handle
    <3>2. Matches(t, lost1, stale1 \cup StaleAfter(s, e.br), torn, stray)
          /\ t.known \subseteq s.known
      BY <1>0, <2>1, <3>1, CleanupKeeps
    <3>3. stale1 \cup StaleAfter(s, e.br) = stale1
      BY <1>3, <2>1
    <3> QED BY <3>2, <3>3
  <2>2. CASE e.br \notin s.known
    BY <1>0, <1>3, <2>2 DEF Handle
  <2> QED BY <2>1, <2>2
<1>4. CASE e.op = "addPort"
  <2>1. e.br \in s.known /\ t = OnAddPort(s, e.br, e.port, e.vid, "none")
    BY <1>4 DEF Fatal, Handle
  <2>2. CASE e.port \in lags \cup {Phys} /\ ~Mismatch(s, e.br, e.vid)
    <3>1. e.port \in Members
      BY <2>2 DEF Members
    <3>2. t = MemberAdd(s, e.br, e.port, e.vid, "none")
      BY <2>1, <2>2 DEF OnAddPort
    <3>3. PICK b \in s.known, v \in MaybeVid, p \in Members :
            b = e.br /\ v = e.vid /\ p = e.port
      BY <1>1, <2>1, <3>1
    <3>4. t = MemberAdd(s, b, p, v, "none") /\ lost1 \cup Sharing(t) \subseteq lost1
      BY <3>2, <3>3
    <3>5. Matches(t, lost1, stale1, torn, stray) /\ t.known = s.known
      BY <1>0, <3>4, MemberAddKeeps
    <3> QED BY <3>5
  <2>3. CASE ~(e.port \in lags \cup {Phys} /\ ~Mismatch(s, e.br, e.vid))
    BY <1>0, <2>1, <2>3 DEF OnAddPort
  <2> QED BY <2>2, <2>3
<1>5. CASE e.op = "delPort"
  <2>1. t = OnDelPort(s, e.br, e.port, "none")
    BY <1>5 DEF Handle
  <2>2. CASE e.br \notin s.known \/ e.port \notin lags
    BY <1>0, <2>1, <2>2 DEF OnDelPort
  <2>3. CASE ~(e.br \notin s.known \/ e.port \notin lags)
    <3>1. PICK v : v = s.vid[e.br]
      OBVIOUS
    <3>2. PICK r : r = DelLag(s, e.port, v, "none")
      OBVIOUS
    <3>3. v \in MaybeVid /\ e.port \in Lags
      BY <1>1, <2>3, <3>1 DEF VlanState
    <3>4. r \in VlanState
      BY <3>2, <3>3, LagType DEF VlanOnly, Modes
    <3>5. r = s \/ (e.port \in s.entries /\ \E m \in Modes : LeaveVlan(s, r, v, m, e.port))
      BY <3>2, <3>3, DelLagLeaves
    <3>6. Matches(r, lost1, stale1, torn, stray)
      BY <1>0, <3>4, <3>5, LeaveKeeps
    <3>7. t = [r EXCEPT !.stored[e.br] = @ \ {e.port}]
      BY <2>1, <2>3, <3>1, <3>2 DEF OnDelPort
    <3>8. Rest(r, t) /\ t.vlans = r.vlans /\ t.npu = r.npu
      BY <3>4, <3>7 DEF VlanState, Rest
    <3>9. t.known = s.known
      BY <3>5, <3>8 DEF LeaveVlan, Rest
    <3> QED BY <3>6, <3>8, <3>9, SameMatches
  <2> QED BY <2>2, <2>3
<1> QED BY <1>1, <1>2, <1>3, <1>4, <1>5

-----------------------------------------------------------------------------
(* A request that walks the members of a LAG, and what may happen meanwhile. *)

(* The ports of S in the VLAN and the mode of the walk. *)
Walk(s, c, S) == IF c.item = None THEN {} ELSE {s.vid[c.br]} \X {c.item.mode} \X S

(* A walk leaves torn what it was touched in, ports that have joined before *)
(* their LAG has the id, and the id of a LAG whose ports are leaving.  A    *)
(* port that was in two LAGs may be missing in any VLAN.                    *)
Torn(s, c, h) == h.torn \cup Walk(s, c, c.touched)

Lacking(h) == h.torn \cup Vids \X Modes \X h.doubled
Missing(s, c, h) == Lacking(h) \cup Walk(s, c, c.touched)

Joining(s, c) ==
  IF c.item # None /\ c.item.op = "add" THEN Walk(s, c, s.mem[c.item.lag] \ c.left) ELSE {}

Parting(s, c) ==
  IF c.item # None /\ c.item.op = "del"
  THEN {<<c.item.lag, c.item.mode, s.vid[c.br]>>} ELSE {}

Stray(s, c, h) == Torn(s, c, h) \cup h.orphaned \cup Joining(s, c)

(* What the walk has visited is done; a port that should leave the VLAN may *)
(* be in it for another LAG.                                                *)
Elsewhere(s, l, m, v, p) ==
  \E k \in s.entries \ {l} : v \in s.vlans[<<k, m>>] /\ p \in s.mem[k]

Visited(s, l, m, op, v, left, touched, torn, stray) ==
  /\ left \subseteq s.mem[l] \cup touched
  /\ v \in Vids =>
       \A p \in s.mem[l] : p \in left \/ p \in touched \/
         /\ op = "add" /\ v \in s.npuVlans => p \in s.npu[<<v, m>>] \/ <<v, m, p>> \in torn
         /\ op = "del" /\ p \in s.npu[<<v, m>>] =>
              <<v, m, p>> \in stray \/ Elsewhere(s, l, m, v, p)

Walked(s, c, torn, stray) ==
  c.item # None =>
    Visited(s, c.item.lag, c.item.mode, c.item.op, s.vid[c.br], c.left, c.touched, torn, stray)

Follow(s, c, h) ==
  /\ c.br # None => c.br \in s.known
  /\ Walked(s, c, Missing(s, c, h), Stray(s, c, h))
  /\ Matches(s, h.lost, h.stale \cup Parting(s, c), Missing(s, c, h), Stray(s, c, h))

LEMMA MatchesOn ==
  ASSUME NEW s \in VlanState,
         NEW lost, NEW stale, NEW torn, NEW stray, Matches(s, lost, stale, torn, stray),
         NEW stale1, \A l \in s.entries, m \in Modes, v \in Vids :
                       <<l, m, v>> \in stale => <<l, m, v>> \in stale1,
         NEW torn1, \A v \in Vids, m \in Modes, p \in Ports :
                      <<v, m, p>> \in torn => <<v, m, p>> \in torn1,
         NEW stray1, \A v \in Vids, m \in Modes, p \in Ports :
                       <<v, m, p>> \in stray => <<v, m, p>> \in stray1
  PROVE  Matches(s, lost, stale1, torn1, stray1)
<1>1. Named(s, stale1)
  BY DEF Matches, Named
<1>2. Clean(s, stray1)
  BY DEF Matches, Clean
<1>3. Full(s, lost, stale1, torn1)
  <2>1. \A l \in s.entries : s.mem[l] \subseteq Ports
    BY DEF VlanState
  <2> QED BY <2>1 DEF Matches, Full
<1> QED BY <1>1, <1>2, <1>3 DEF Matches

(* One step of a walk. *)
LEMMA PortJoinKeeps ==
  ASSUME NEW s \in VlanState, NEW t, NEW v, NEW m \in Modes, NEW q \in Ports,
         PortsJoin(s, t, v, m, {q}),
         NEW lost, NEW stale, NEW torn, NEW stray, Matches(s, lost, stale, torn, stray),
         <<v, m, q>> \in stray
  PROVE  Matches(t, lost, stale, torn, stray)
<1>1. Rest(s, t) /\ t.vlans = s.vlans /\ t \in VlanState
  BY DEF PortsJoin
<1>2. Sound(t)
  <2> SUFFICES ASSUME NEW w \in Vids \ s.npuVlans, NEW n \in Modes PROVE t.npu[<<w, n>>] = {}
    BY <1>1 DEF Sound, Rest, Matches
  <2>1. s.npu[<<w, n>>] = {}
    BY DEF Sound, Matches
  <2>2. t.npu[<<w, n>>] \subseteq Ports
    BY <1>1 DEF VlanState
  <2> QED BY <2>1, <2>2 DEF PortsJoin
<1>3. Owned(t, lost) /\ Named(t, stale) /\ Sharing(t) \subseteq lost
  BY <1>1 DEF Owned, Named, Sharing, Rest, Matches
<1>4. Clean(t, stray)
  BY <1>1 DEF Clean, PortsJoin, Rest, Matches
<1>5. Full(t, lost, stale, torn)
  <2>1. \A l \in s.entries : s.mem[l] \subseteq Ports
    BY DEF VlanState
  <2> QED BY <1>1, <2>1 DEF Full, PortsJoin, Rest, Matches
<1> QED BY <1>2, <1>3, <1>4, <1>5 DEF Matches

LEMMA PortLeaveKeeps ==
  ASSUME NEW s \in VlanState, NEW t, NEW v, NEW m \in Modes, NEW q \in Ports,
         PortsLeave(s, t, v, m, {q}),
         NEW lost, NEW stale, NEW torn, NEW stray, Matches(s, lost, stale, torn, stray),
         v \in Vids => \A l \in s.entries : q \in s.mem[l] =>
           <<l, m, v>> \in stale \/ <<v, m, q>> \in torn
  PROVE  Matches(t, lost, stale, torn, stray)
<1>1. Rest(s, t) /\ t.vlans = s.vlans /\ t \in VlanState
  BY DEF PortsLeave
<1>2. Sound(t)
  <2> SUFFICES ASSUME NEW w \in Vids \ s.npuVlans, NEW n \in Modes PROVE t.npu[<<w, n>>] = {}
    BY <1>1 DEF Sound, Rest, Matches
  <2>1. s.npu[<<w, n>>] = {}
    BY DEF Sound, Matches
  <2>2. t.npu[<<w, n>>] \subseteq Ports
    BY <1>1 DEF VlanState
  <2> QED BY <2>1, <2>2 DEF PortsLeave
<1>3. Owned(t, lost) /\ Named(t, stale) /\ Sharing(t) \subseteq lost
  BY <1>1 DEF Owned, Named, Sharing, Rest, Matches
<1>4. Clean(t, stray)
  BY <1>1 DEF Clean, PortsLeave, Rest, Matches
<1>5. Full(t, lost, stale, torn)
  <2> SUFFICES ASSUME NEW c \in s.known, NEW k \in s.entries, NEW n \in Modes, NEW w \in Vids,
                      s.vid[c] = w, w \in s.vlans[<<k, n>>], <<c, k>> \notin lost,
                      <<k, n, w>> \notin stale, NEW p \in s.mem[k]
               PROVE  p \in t.npu[<<w, n>>] \/ <<w, n, p>> \in torn
    BY <1>1 DEF Full, Rest
  <2>1. p \in Ports
    BY DEF VlanState
  <2>2. p \in s.npu[<<w, n>>] \/ <<w, n, p>> \in torn
    BY DEF Full, Matches
  <2> QED BY <2>1, <2>2 DEF PortsLeave
<1> QED BY <1>2, <1>3, <1>4, <1>5 DEF Matches

(* The end of a walk: the LAG takes the id of the VLAN its ports are in. *)
Filled(s, l, m, v, torn) ==
  v \in Vids /\ v \in s.npuVlans =>
    \A p \in s.mem[l] : p \in s.npu[<<v, m>>] \/ <<v, m, p>> \in torn

Settles(s, l, m, v, stray, stray1) ==
  \A w \in Vids, n \in Modes, p \in Ports :
    <<w, n, p>> \in stray => <<w, n, p>> \in stray1 \/ (w = v /\ n = m /\ p \in s.mem[l])

LEMMA IdJoinKeeps ==
  ASSUME NEW s \in VlanState, NEW t, NEW b \in s.known, NEW v, v = s.vid[b], NEW m \in Modes,
         NEW l \in s.entries, IdJoins(s, t, l, m, v),
         NEW lost, NEW stale, NEW torn, NEW stray, Matches(s, lost, stale, torn, stray),
         Filled(s, l, m, v, torn), NEW stray1, Settles(s, l, m, v, stray, stray1)
  PROVE  Matches(t, lost, stale, torn, stray1)
<1>1. Rest(s, t) /\ t.npu = s.npu /\ s.entries \subseteq Lags /\ Vids \subseteq MaybeVid
  BY DEF IdJoins, VlanState, MaybeVid
<1>2. \A k \in s.entries, n \in Modes, w \in Vids :
        w \in t.vlans[<<k, n>>] <=> w \in s.vlans[<<k, n>>] \/ (k = l /\ n = m /\ w = v)
  BY <1>1 DEF IdJoins
<1>3. Sound(t) /\ Owned(t, lost) /\ Sharing(t) \subseteq lost
  BY <1>1 DEF Sound, Owned, Sharing, Rest, Matches
<1>4. Named(t, stale)
  BY <1>1, <1>2 DEF Named, Rest, Matches
<1>5. Clean(t, stray1)
  <2> SUFFICES ASSUME NEW w \in Vids, NEW n \in Modes, NEW p \in Ports, p \in s.npu[<<w, n>>],
                      <<w, n, p>> \notin stray1
               PROVE  \E k \in s.entries : w \in t.vlans[<<k, n>>] /\ p \in s.mem[k]
    BY <1>1 DEF Clean, Rest
  <2>1. <<w, n, p>> \in stray \/ \E k \in s.entries : w \in s.vlans[<<k, n>>] /\ p \in s.mem[k]
    BY DEF Clean, Matches
  <2> QED BY <1>2, <2>1 DEF Settles
<1>6. Full(t, lost, stale, torn)
  <2> SUFFICES ASSUME NEW c \in s.known, NEW k \in s.entries, NEW n \in Modes, NEW w \in Vids,
                      s.vid[c] = w, w \in t.vlans[<<k, n>>], <<c, k>> \notin lost,
                      <<k, n, w>> \notin stale, NEW p \in s.mem[k]
               PROVE  p \in s.npu[<<w, n>>] \/ <<w, n, p>> \in torn
    BY <1>1 DEF Full, Rest
  <2>1. CASE w \in s.vlans[<<k, n>>]
    BY <2>1 DEF Full, Matches
  <2>2. CASE k = l /\ n = m /\ w = v
    <3>1. w \in s.npuVlans
      BY <1>1 DEF Owned, Matches
    <3> QED BY <2>2, <3>1 DEF Filled
  <2> QED BY <1>2, <2>1, <2>2
<1> QED BY <1>3, <1>4, <1>5, <1>6 DEF Matches

(* Or it gives up the id of the VLAN they left. *)
LEMMA IdLeaveKeeps ==
  ASSUME NEW s \in VlanState, NEW t, NEW v, NEW m \in Modes, NEW l \in s.entries,
         IdLeaves(s, t, l, m, v),
         NEW lost, NEW stale, NEW torn, NEW stray,
         Matches(s, lost, stale \cup {<<l, m, v>>}, torn, stray),
         v \in Vids => \A p \in s.mem[l] : p \in s.npu[<<v, m>>] =>
           <<v, m, p>> \in stray \/ Elsewhere(s, l, m, v, p)
  PROVE  Matches(t, lost, stale, torn, stray)
<1>1. Rest(s, t) /\ t.npu = s.npu /\ s.entries \subseteq Lags /\ Vids \subseteq MaybeVid
  BY DEF IdLeaves, VlanState, MaybeVid
<1>2. \A k \in s.entries, n \in Modes, w \in Vids :
        w \in t.vlans[<<k, n>>] <=> w \in s.vlans[<<k, n>>] /\ ~(k = l /\ n = m /\ w = v)
  BY <1>1 DEF IdLeaves
<1>3. Sound(t) /\ Owned(t, lost) /\ Sharing(t) \subseteq lost
  BY <1>1 DEF Sound, Owned, Sharing, Rest, Matches
<1>4. Named(t, stale)
  BY <1>1, <1>2 DEF Named, Rest, Matches
<1>5. Clean(t, stray)
  <2> SUFFICES ASSUME NEW w \in Vids, NEW n \in Modes, NEW p \in Ports, p \in s.npu[<<w, n>>],
                      <<w, n, p>> \notin stray
               PROVE  \E k \in s.entries : w \in t.vlans[<<k, n>>] /\ p \in s.mem[k]
    BY <1>1 DEF Clean, Rest
  <2>1. PICK k \in s.entries : w \in s.vlans[<<k, n>>] /\ p \in s.mem[k]
    BY DEF Clean, Matches
  <2>2. CASE k = l /\ n = m /\ w = v
    <3>1. PICK o \in s.entries \ {l} : v \in s.vlans[<<o, m>>] /\ p \in s.mem[o]
      BY <2>1, <2>2 DEF Elsewhere
    <3> QED BY <1>2, <2>2, <3>1
  <2> QED BY <1>2, <2>1, <2>2
<1>6. Full(t, lost, stale, torn)
  BY <1>1, <1>2 DEF Full, Rest, Matches
<1> QED BY <1>3, <1>4, <1>5, <1>6 DEF Matches

-----------------------------------------------------------------------------
(* The LAG events.                                                           *)

(* LAG l of s has the members P in t; those that change are touched when a   *)
(* request walks it.                                                         *)
MembersTo(s, t, l, P) ==
  /\ t.known = s.known /\ t.vid = s.vid /\ t.npuVlans = s.npuVlans
  /\ t.mem[l] = P /\ \A k \in Lags \ {l} : t.mem[k] = s.mem[k]

Seen(c, d, l, old, P) ==
  /\ d.br = c.br /\ d.item = c.item
  /\ IF c.item # None /\ c.item.lag = l
     THEN d.touched = c.touched \cup (old \ P) \cup (P \ old) /\ d.left = c.left \cup (P \ old)
     ELSE d.touched = c.touched /\ d.left = c.left

(* The NPU changes for the ports that do. *)
NpuTo(s, t, old, P) ==
  \A v \in Vids, m \in Modes, p \in Ports :
    /\ p \in t.npu[<<v, m>>] => p \in s.npu[<<v, m>>] \/ p \in P \ old
    /\ p \in s.npu[<<v, m>>] => p \in t.npu[<<v, m>>] \/ p \in old \ P

(* A port that is in a VLAN for other LAGs than k stays so, and one that     *)
(* joins does for l.                                                         *)
KeepsElsewhere(s, t, l, stray) ==
  \A k \in Lags, m \in Modes, v \in Vids, p \in Ports :
    /\ p \in t.npu[<<v, m>>] /\ (k = l => p \in s.npu[<<v, m>>])
    /\ p \in s.npu[<<v, m>>] => <<v, m, p>> \in stray \/ Elsewhere(s, k, m, v, p)
    => <<v, m, p>> \in stray \/ Elsewhere(t, k, m, v, p)

(* What a walk has done is not undone. *)
LEMMA EventWalked ==
  ASSUME NEW s \in VlanState, NEW t \in VlanState, NEW c \in CpsState, NEW d,
         NEW l \in Lags, NEW P \in SUBSET Ports, NEW old, old = s.mem[l],
         MembersTo(s, t, l, P), NpuTo(s, t, old, P), Seen(c, d, l, old, P),
         NEW torn, NEW stray, Walked(s, c, torn, stray), Apart(s, torn),
         NEW torn1, \A x : x \in torn => x \in torn1,
         NEW stray1, \A x : x \in stray => x \in stray1, KeepsElsewhere(s, t, l, stray1)
  PROVE  Walked(t, d, torn1, stray1)
<1> SUFFICES ASSUME c.item # None
             PROVE  Visited(t, c.item.lag, c.item.mode, c.item.op, s.vid[c.br], d.left, d.touched,
                            torn1, stray1)
  BY DEF Walked, Seen, MembersTo
<1>1. PICK k, m, op, v : k = c.item.lag /\ m = c.item.mode /\ op = c.item.op /\ v = s.vid[c.br]
  OBVIOUS
<1>2. k \in Lags /\ m \in Modes
  BY <1>1 DEF CpsState, Work
<1>3. Visited(s, k, m, op, v, c.left, c.touched, torn, stray)
  BY <1>1 DEF Walked
<1>4. old \subseteq Ports
  BY DEF VlanState
<1>5. CASE k = l
  <2>1. d.touched = c.touched \cup (old \ P) \cup (P \ old) /\ d.left = c.left \cup (P \ old)
        /\ t.mem[k] = P /\ s.mem[k] = old /\ t.npuVlans = s.npuVlans
    BY <1>1, <1>5 DEF Seen, MembersTo
  <2>2. d.left \subseteq t.mem[k] \cup d.touched
    BY <1>3, <2>1 DEF Visited
  <2>3. ASSUME NEW p \in t.mem[k], p \notin d.left, p \notin d.touched, v \in Vids
        PROVE  /\ op = "add" /\ v \in t.npuVlans =>
                    p \in t.npu[<<v, m>>] \/ <<v, m, p>> \in torn1
               /\ op = "del" /\ p \in t.npu[<<v, m>>] =>
                    <<v, m, p>> \in stray1 \/ Elsewhere(t, k, m, v, p)
    <3>1. p \in s.mem[k] /\ p \notin c.left /\ p \notin c.touched /\ p \in Ports
          /\ p \notin P \ old /\ p \notin old \ P
      BY <1>4, <2>1, <2>3
    <3>2. /\ op = "add" /\ v \in s.npuVlans =>
               p \in s.npu[<<v, m>>] \/ <<v, m, p>> \in torn
          /\ op = "del" /\ p \in s.npu[<<v, m>>] =>
               <<v, m, p>> \in stray \/ Elsewhere(s, k, m, v, p)
      BY <1>3, <2>3, <3>1 DEF Visited
    <3>3. op = "add" /\ v \in t.npuVlans => p \in t.npu[<<v, m>>] \/ <<v, m, p>> \in torn1
      BY <1>2, <2>1, <2>3, <3>1, <3>2 DEF NpuTo
    <3>4. op = "del" /\ p \in t.npu[<<v, m>>] =>
            <<v, m, p>> \in stray1 \/ Elsewhere(t, k, m, v, p)
      <4>1. p \in t.npu[<<v, m>>] => p \in s.npu[<<v, m>>]
        BY <1>2, <2>3, <3>1 DEF NpuTo
      <4> QED BY <1>2, <2>3, <3>1, <3>2, <4>1 DEF KeepsElsewhere
    <3> QED BY <3>3, <3>4
  <2> QED BY <1>1, <2>2, <2>3 DEF Visited
<1>6. CASE k # l
  <2>1. d.touched = c.touched /\ d.left = c.left /\ t.mem[k] = s.mem[k]
        /\ t.npuVlans = s.npuVlans /\ t.mem[l] = P
    BY <1>1, <1>2, <1>6 DEF Seen, MembersTo
  <2>2. ASSUME NEW p \in t.mem[k], p \notin d.left, p \notin d.touched, v \in Vids
        PROVE  /\ op = "add" /\ v \in t.npuVlans =>
                    p \in t.npu[<<v, m>>] \/ <<v, m, p>> \in torn1
               /\ op = "del" /\ p \in t.npu[<<v, m>>] =>
                    <<v, m, p>> \in stray1 \/ Elsewhere(t, k, m, v, p)
    <3>1. p \in Ports /\ (p \in old => <<v, m, p>> \in torn)
      BY <1>2, <1>6, <2>1, <2>2 DEF Apart, VlanState
    <3>2. /\ op = "add" /\ v \in s.npuVlans =>
               p \in s.npu[<<v, m>>] \/ <<v, m, p>> \in torn
          /\ op = "del" /\ p \in s.npu[<<v, m>>] =>
               <<v, m, p>> \in stray \/ Elsewhere(s, k, m, v, p)
      BY <1>3, <2>1, <2>2 DEF Visited
    <3>3. op = "add" /\ v \in t.npuVlans => p \in t.npu[<<v, m>>] \/ <<v, m, p>> \in torn1
      BY <1>2, <2>1, <2>2, <3>1, <3>2 DEF NpuTo
    <3>4. op = "del" /\ p \in t.npu[<<v, m>>] =>
            <<v, m, p>> \in stray1 \/ Elsewhere(t, k, m, v, p)
      BY <1>2, <1>6, <2>2, <3>1, <3>2 DEF KeepsElsewhere
    <3> QED BY <3>3, <3>4
  <2> QED BY <1>1, <1>3, <2>1, <2>2 DEF Visited
<1> QED BY <1>5, <1>6

(* What was excused still is. *)
Excused(s, t, c, d, h, g) ==
  /\ Parting(t, d) = Parting(s, c)
  /\ \A x : x \in Missing(s, c, h) => x \in Missing(t, d, g)
  /\ \A x : x \in Stray(s, c, h) => x \in Stray(t, d, g)

LEMMA EventExcused ==
  ASSUME NEW s \in VlanState, NEW t, NEW c \in CpsState, NEW d, NEW h, NEW g,
         NEW l \in Lags, NEW P \in SUBSET Ports, NEW old, old = s.mem[l],
         MembersTo(s, t, l, P), Seen(c, d, l, old, P),
         g.torn = h.torn, h.doubled \subseteq g.doubled, h.orphaned \subseteq g.orphaned
  PROVE  Excused(s, t, c, d, h, g)
<1>1. Parting(t, d) = Parting(s, c)
  BY DEF Parting, Seen, MembersTo
<1>2. c.touched \subseteq d.touched
  BY DEF Seen
<1>3. \A S, T : S \subseteq T => Walk(s, c, S) \subseteq Walk(t, d, T)
  BY DEF Walk, Seen, MembersTo
<1>4. Torn(s, c, h) \subseteq Torn(t, d, g)
  BY <1>2, <1>3 DEF Torn
<1>5. Missing(s, c, h) \subseteq Missing(t, d, g)
  <2>1. Vids \X Modes \X h.doubled \subseteq Vids \X Modes \X g.doubled
    OBVIOUS
  <2> QED BY <1>2, <1>3, <2>1 DEF Missing, Lacking
<1>6. ASSUME c.item # None, c.item.op = "add"
      PROVE  Joining(s, c) \subseteq Torn(t, d, g) \cup Joining(t, d)
  <2>1. PICK k : k = c.item.lag
    OBVIOUS
  <2>2. k \in Lags
    BY <1>6, <2>1 DEF CpsState, Work
  <2> DEFINE A == s.mem[k] \ c.left
             B == t.mem[k] \ d.left
  <2>3. A \subseteq d.touched \cup B
    <3>1. CASE k = l
      <4>1. d.touched = c.touched \cup (old \ P) \cup (P \ old) /\ d.left = c.left \cup (P \ old)
            /\ t.mem[k] = P /\ s.mem[k] = old
        BY <1>6, <2>1, <3>1 DEF Seen, MembersTo
      <4> QED BY <4>1
    <3>2. CASE k # l
      BY <2>1, <2>2, <3>2 DEF Seen, MembersTo
    <3> QED BY <3>1, <3>2
  <2>4. Joining(s, c) = Walk(s, c, A) /\ Joining(t, d) = Walk(t, d, B)
    BY <1>6, <2>1 DEF Joining, Seen
  <2> HIDE DEF A, B
  <2>5. Walk(s, c, A) \subseteq Walk(t, d, d.touched \cup B)
    BY <1>3, <2>3
  <2>6. Walk(t, d, d.touched \cup B) \subseteq Walk(t, d, d.touched) \cup Walk(t, d, B)
    BY DEF Walk
  <2> QED BY <2>4, <2>5, <2>6 DEF Torn
<1>7. ~(c.item # None /\ c.item.op = "add") => Joining(s, c) = {}
  BY DEF Joining
<1>8. \A x : x \in Stray(s, c, h) => x \in Stray(t, d, g)
  BY <1>1, <1>4, <1>6, <1>7 DEF Stray
<1> QED BY <1>1, <1>8, <1>5 DEF Excused

(* nas_vlan_lag_event_func_cb *)
LEMMA CreateEvent ==
  ASSUME NEW s \in VlanState, NEW l \in Lags, NEW t, t = EntryCreate(s, l),
         NEW lost, NEW stale, NEW torn, NEW stray, Matches(s, lost, stale, torn, stray),
         Apart(s, torn)
  PROVE  /\ MembersTo(s, t, l, s.mem[l]) /\ NpuTo(s, t, s.mem[l], s.mem[l])
         /\ Matches(t, lost, stale, torn, stray) /\ KeepsElsewhere(s, t, l, stray)
<1>1. CASE l \in s.entries
  BY <1>1 DEF EntryCreate, MembersTo, NpuTo, KeepsElsewhere
<1>2. CASE l \notin s.entries
  <2>1. /\ t.entries = s.entries \cup {l} /\ t.mem[l] = {}
        /\ \A k \in Lags \ {l} : t.mem[k] = s.mem[k]
        /\ t.known = s.known /\ t.vid = s.vid /\ t.npuVlans = s.npuVlans /\ t.npu = s.npu
        /\ \A k \in Lags, m \in Modes :
             t.vlans[<<k, m>>] = IF k = l THEN {} ELSE s.vlans[<<k, m>>]
    BY <1>2 DEF EntryCreate, VlanState
  <2>2. s.mem[l] = {} /\ s.entries \subseteq Lags
    BY <1>2 DEF Apart, VlanState
  <2>3. Sound(t) /\ Owned(t, lost) /\ Sharing(t) \subseteq lost
    BY <2>1 DEF Sound, Owned, Sharing, Matches
  <2>4. Named(t, stale)
    BY <2>1, <2>2 DEF Named, Matches
  <2>5. Clean(t, stray)
    <3> SUFFICES ASSUME NEW v \in Vids, NEW m \in Modes, NEW p \in Ports, p \in s.npu[<<v, m>>],
                        <<v, m, p>> \notin stray
                 PROVE  \E k \in t.entries : v \in t.vlans[<<k, m>>] /\ p \in t.mem[k]
      BY <2>1 DEF Clean
    <3>1. PICK k \in s.entries : v \in s.vlans[<<k, m>>] /\ p \in s.mem[k]
      BY DEF Clean, Matches
    <3> QED BY <1>2, <2>1, <2>2, <3>1
  <2>6. Full(t, lost, stale, torn)
    BY <2>1, <2>2 DEF Full, Matches
  <2>7. MembersTo(s, t, l, s.mem[l]) /\ NpuTo(s, t, s.mem[l], s.mem[l])
    BY <2>1, <2>2 DEF MembersTo, NpuTo
  <2>8. KeepsElsewhere(s, t, l, stray)
    <3>1. \A k \in Lags, m \in Modes, v \in Vids, p \in Ports :
            Elsewhere(s, k, m, v, p) => Elsewhere(t, k, m, v, p)
      BY <1>2, <2>1, <2>2 DEF Elsewhere
    <3> QED BY <2>1, <3>1 DEF KeepsElsewhere
  <2> QED BY <2>3, <2>4, <2>5, <2>6, <2>7, <2>8 DEF Matches
<1> QED BY <1>1, <1>2

LEMMA DeleteEvent ==
  ASSUME NEW s \in VlanState, NEW l \in Lags, NEW t, t = EntryDelete(s, l),
         NEW lost, NEW stale, NEW torn, NEW stray, Matches(s, lost, stale, torn, stray),
         \A v \in Vids, m \in Modes, p \in Ports :
           v \in s.vlans[<<l, m>>] /\ p \in s.mem[l] => <<v, m, p>> \in stray
  PROVE  /\ MembersTo(s, t, l, {}) /\ NpuTo(s, t, s.mem[l], {})
         /\ Matches(t, lost, stale, torn, stray) /\ KeepsElsewhere(s, t, l, stray)
<1>1. /\ t.entries = s.entries \ {l} /\ t.mem[l] = {}
      /\ \A k \in Lags \ {l} : t.mem[k] = s.mem[k]
      /\ t.known = s.known /\ t.vid = s.vid /\ t.npuVlans = s.npuVlans /\ t.npu = s.npu
      /\ \A k \in Lags, m \in Modes :
           t.vlans[<<k, m>>] = IF k = l THEN {} ELSE s.vlans[<<k, m>>]
  BY DEF EntryDelete, VlanState
<1>2. s.entries \subseteq Lags
  BY DEF VlanState
<1>3. Sound(t) /\ Owned(t, lost) /\ Sharing(t) \subseteq lost
  BY <1>1 DEF Sound, Owned, Sharing, Matches
<1>4. Named(t, stale)
  BY <1>1, <1>2 DEF Named, Matches
<1>5. Clean(t, stray)
  <2> SUFFICES ASSUME NEW v \in Vids, NEW m \in Modes, NEW p \in Ports, p \in s.npu[<<v, m>>],
                      <<v, m, p>> \notin stray
               PROVE  \E k \in t.entries : v \in t.vlans[<<k, m>>] /\ p \in t.mem[k]
    BY <1>1 DEF Clean
  <2>1. PICK k \in s.entries : v \in s.vlans[<<k, m>>] /\ p \in s.mem[k]
    BY DEF Clean, Matches
  <2> QED BY <1>1, <1>2, <2>1
<1>6. Full(t, lost, stale, torn)
  BY <1>1, <1>2 DEF Full, Matches
<1>7. MembersTo(s, t, l, {}) /\ NpuTo(s, t, s.mem[l], {})
  BY <1>1 DEF MembersTo, NpuTo
<1>8. KeepsElsewhere(s, t, l, stray)
  <2> SUFFICES ASSUME NEW k \in Lags, NEW m \in Modes, NEW v \in Vids, NEW p \in Ports,
                      <<v, m, p>> \notin stray, Elsewhere(s, k, m, v, p)
               PROVE  Elsewhere(t, k, m, v, p)
    BY <1>1 DEF KeepsElsewhere
  <2>1. PICK o \in s.entries \ {k} : v \in s.vlans[<<o, m>>] /\ p \in s.mem[o]
    BY DEF Elsewhere
  <2>2. o # l
    BY <2>1
  <2> QED BY <1>1, <1>2, <2>1, <2>2 DEF Elsewhere
<1> QED BY <1>3, <1>4, <1>5, <1>6, <1>7, <1>8 DEF Matches

(* nas_process_lag_mem_updates_for_vlan *)
Fields(s, t) ==
  /\ t.entries = s.entries /\ t.known = s.known /\ t.vid = s.vid /\ t.vlans = s.vlans
  /\ t.npuVlans = s.npuVlans

SetsMembers(s, t, l, old, P) ==
  /\ Fields(s, t) /\ t.mem[l] = P /\ \A k \in Lags \ {l} : t.mem[k] = s.mem[k]
  /\ \A v \in Vids, m \in Modes, p \in Ports :
       p \in t.npu[<<v, m>>] <=>
         IF v \in s.vlans[<<l, m>>] /\ v \in s.npuVlans
         THEN (p \in s.npu[<<v, m>>] /\ ~(p \in old /\ p \notin P)) \/ (p \in P /\ p \notin old)
         ELSE p \in s.npu[<<v, m>>]

LEMMA UpdateSets ==
  ASSUME NEW s \in VlanState, NEW l \in s.entries, NEW P \in SUBSET Ports, NEW old, old = s.mem[l]
  PROVE  SetsMembers(s, MemberUpdate(s, l, P, P \ old, "none"), l, old, P)
<1>1. PICK t : t = MemberUpdate(s, l, P, P \ old, "none")
  OBVIOUS
<1>2. l \in Lags /\ old \subseteq Ports
  BY DEF VlanState
<1> DEFINE n == [x \in Vids \X Modes |->
                   IF x[1] \in s.vlans[<<l, x[2]>>] /\ Has(s, x[1])
                   THEN (s.npu[x] \ (old \ P)) \cup (P \ old) ELSE s.npu[x]]
<1>3. t = [s EXCEPT !.mem[l] = (@ \cap P) \cup (P \ old), !.npu = n]
  BY <1>1 DEF MemberUpdate, Departed
<1>4. \A v \in Vids, m \in Modes, p \in Ports :
        p \in n[<<v, m>>] <=>
          IF v \in s.vlans[<<l, m>>] /\ v \in s.npuVlans
          THEN (p \in s.npu[<<v, m>>] /\ ~(p \in old /\ p \notin P)) \/ (p \in P /\ p \notin old)
          ELSE p \in s.npu[<<v, m>>]
  BY DEF Has
<1> HIDE DEF n
<1>5. Fields(s, t) /\ t.npu = n
  BY <1>3 DEF VlanState, Fields
<1>6. t.mem[l] = P /\ \A k \in Lags \ {l} : t.mem[k] = s.mem[k]
  <2>1. t.mem = [s.mem EXCEPT ![l] = (@ \cap P) \cup (P \ old)]
    BY <1>3 DEF VlanState
  <2>2. s.mem \in [Lags -> SUBSET Ports]
    BY DEF VlanState
  <2>3. t.mem[l] = (old \cap P) \cup (P \ old) /\ \A k \in Lags \ {l} : t.mem[k] = s.mem[k]
    BY <1>2, <2>1, <2>2
  <2>4. (old \cap P) \cup (P \ old) = P
    OBVIOUS
  <2> QED BY <2>3, <2>4
<1>7. SetsMembers(s, t, l, old, P)
  BY <1>4, <1>5, <1>6 DEF SetsMembers
<1> QED BY <1>1, <1>7

LEMMA SetKeeps ==
  ASSUME NEW s \in VlanState, NEW t \in VlanState, NEW l \in s.entries,
         NEW P \in SUBSET Ports, NEW old, old = s.mem[l], SetsMembers(s, t, l, old, P),
         NEW lost, NEW stale, NEW torn, NEW stray, Matches(s, lost, stale, torn, stray),
         Apart(s, torn)
  PROVE  Matches(t, lost, stale, torn, stray) /\ KeepsElsewhere(s, t, l, stray)
<1>1. l \in Lags /\ old \subseteq Ports /\ s.entries \subseteq Lags
  BY DEF VlanState
<1>2. Fields(s, t) /\ t.mem[l] = P /\ \A k \in Lags \ {l} : t.mem[k] = s.mem[k]
  BY DEF SetsMembers
<1>3. Sound(t)
  <2> SUFFICES ASSUME NEW v \in Vids \ s.npuVlans, NEW m \in Modes PROVE t.npu[<<v, m>>] = {}
    BY <1>2 DEF Sound, Matches, Fields
  <2>1. s.npu[<<v, m>>] = {}
    BY DEF Sound, Matches
  <2>2. t.npu[<<v, m>>] \subseteq Ports
    BY DEF VlanState
  <2> QED BY <2>1, <2>2 DEF SetsMembers
<1>4. Owned(t, lost) /\ Named(t, stale)
  BY <1>2 DEF Owned, Named, Matches, Fields
<1>5. Sharing(t) = Sharing(s)
  BY <1>2 DEF Sharing, Fields
<1>6. Clean(t, stray)
  <2> SUFFICES ASSUME NEW v \in Vids, NEW m \in Modes, NEW p \in Ports, p \in t.npu[<<v, m>>],
                      <<v, m, p>> \notin stray
               PROVE  \E k \in s.entries : v \in s.vlans[<<k, m>>] /\ p \in t.mem[k]
    BY <1>2 DEF Clean, Fields
  <2>1. CASE p \in s.npu[<<v, m>>]
    <3>1. PICK k \in s.entries : v \in s.vlans[<<k, m>>] /\ p \in s.mem[k]
      BY <2>1 DEF Clean, Matches
    <3>2. v \in s.npuVlans
      BY <2>1 DEF Sound, Matches
    <3>3. p \in t.mem[k]
      <4>1. CASE k = l
        BY <1>2, <3>1, <3>2, <4>1 DEF SetsMembers
      <4>2. CASE k # l
        BY <1>1, <1>2, <3>1, <4>2
      <4> QED BY <4>1, <4>2
    <3> QED BY <3>1, <3>3
  <2>2. CASE p \notin s.npu[<<v, m>>]
    BY <1>2, <2>2 DEF SetsMembers
  <2> QED BY <2>1, <2>2
<1>7. Full(t, lost, stale, torn)
  <2> SUFFICES ASSUME NEW b \in s.known, NEW k \in s.entries, NEW m \in Modes, NEW v \in Vids,
                      s.vid[b] = v, v \in s.vlans[<<k, m>>], <<b, k>> \notin lost,
                      <<k, m, v>> \notin stale, NEW p \in t.mem[k], <<v, m, p>> \notin torn
               PROVE  p \in t.npu[<<v, m>>]
    BY <1>2 DEF Full, Fields
  <2>1. v \in s.npuVlans /\ k \in Lags
    BY <1>1 DEF Owned, Matches
  <2>2. p \in s.mem[k] => p \in s.npu[<<v, m>>]
    BY DEF Full, Matches
  <2>3. CASE k = l
    BY <1>2, <2>1, <2>2, <2>3 DEF SetsMembers
  <2>4. CASE k # l
    <3>1. p \in s.mem[k]
      BY <1>2, <2>1, <2>4
    <3>2. p \in Ports /\ p \notin old
      BY <1>1, <2>1, <2>4, <3>1 DEF Apart, VlanState
    <3> QED BY <2>2, <3>1, <3>2 DEF SetsMembers
  <2> QED BY <2>3, <2>4
<1>8. KeepsElsewhere(s, t, l, stray)
  <2> SUFFICES ASSUME NEW k \in Lags, NEW m \in Modes, NEW v \in Vids, NEW p \in Ports,
                      p \in t.npu[<<v, m>>], k = l => p \in s.npu[<<v, m>>],
                      p \in s.npu[<<v, m>>] => Elsewhere(s, k, m, v, p)
               PROVE  Elsewhere(t, k, m, v, p)
    BY DEF KeepsElsewhere
  <2>1. CASE p \in s.npu[<<v, m>>]
    <3>1. PICK o \in s.entries \ {k} : v \in s.vlans[<<o, m>>] /\ p \in s.mem[o]
      BY <2>1 DEF Elsewhere
    <3>2. v \in s.npuVlans
      BY <2>1 DEF Sound, Matches
    <3>3. p \in t.mem[o]
      <4>1. CASE o = l
        BY <1>2, <3>1, <3>2, <4>1 DEF SetsMembers
      <4>2. CASE o # l
        BY <1>1, <1>2, <3>1, <4>2
      <4> QED BY <4>1, <4>2
    <3> QED BY <1>2, <3>1, <3>3 DEF Elsewhere, Fields
  <2>2. CASE p \notin s.npu[<<v, m>>]
    <3>1. v \in s.vlans[<<l, m>>] /\ p \in t.mem[l] /\ l \in t.entries /\ k # l
      BY <1>2, <2>2 DEF SetsMembers, Fields
    <3> QED BY <1>2, <3>1 DEF Elsewhere, Fields
  <2> QED BY <2>1, <2>2
<1> QED BY <1>3, <1>4, <1>5, <1>6, <1>7, <1>8 DEF Matches

LEMMA SetEvent ==
  ASSUME NEW s \in VlanState, NEW l \in s.entries, NEW P \in SUBSET Ports,
         NEW t \in VlanState, t = MemberUpdate(s, l, P, P \ s.mem[l], "none"),
         NEW lost, NEW stale, NEW torn, NEW stray, Matches(s, lost, stale, torn, stray),
         Apart(s, torn)
  PROVE  /\ MembersTo(s, t, l, P) /\ NpuTo(s, t, s.mem[l], P)
         /\ Matches(t, lost, stale, torn, stray) /\ KeepsElsewhere(s, t, l, stray)
<1>1. PICK old : old = s.mem[l]
  OBVIOUS
<1>2. SetsMembers(s, t, l, old, P)
  BY <1>1, UpdateSets
<1>3. Matches(t, lost, stale, torn, stray) /\ KeepsElsewhere(s, t, l, stray)
  BY <1>1, <1>2, SetKeeps
<1>4. MembersTo(s, t, l, P) /\ NpuTo(s, t, old, P)
  BY <1>2 DEF SetsMembers, Fields, MembersTo, NpuTo
<1> QED BY <1>1, <1>3, <1>4

-----------------------------------------------------------------------------
(* The steps.                                                                *)

(* A bridge comes once. *)
Announced == \A i \in 1..Len(queue) : queue[i].op = "newBridge" => queue[i].br \in used

Once == nas.known \subseteq used /\ Announced

Tracked == Once /\ Follow(nas, cps, history)

FollowInv == spent.faults = 0 => Tracked

(* The ports that lag_list has in two LAGs have been noted. *)
Marked == Doubled(nas) \subseteq history.doubled

(* The LAG manager notes only what it publishes and what it does not. *)
SaysOnly ==
  /\ history'.torn = history.torn /\ history'.orphaned = history.orphaned
  /\ history'.stale = history.stale /\ history'.lost = history.lost
  /\ history'.misread = history.misread /\ history'.doubled = history.doubled

LEMMA ManagerSays ==
  ASSUME TypeInv, LagManager
  PROVE  UNCHANGED <<nas, cps, queue>> /\ used \subseteq used' /\ SaysOnly
<1>0. history \in History
  BY DEF TypeInv, TypeOK
<1>1. UNCHANGED <<nas, cps, queue>> /\ used \subseteq used'
  BY DEF LagManager, LagAdd, LagJoin, LagLeave, LagRequest, LagRemove, kernel
<1>2. ASSUME NEW op, NEW l, Publish(op, l) PROVE SaysOnly
  <2>1. PICK X, Y, Z : history' = [[history EXCEPT !.unpublished = X, !.silent = Y]
                                     EXCEPT !.published = Z]
    BY <1>2 DEF Publish, Changed
  <2> QED BY <1>0, <2>1 DEF History, SaysOnly
<1>3. ASSUME Withhold PROVE SaysOnly
  <2>1. PICK X, Y : history' = [history EXCEPT !.unpublished = X, !.silent = Y]
    BY <1>3 DEF Withhold, Changed
  <2> QED BY <1>0, <2>1 DEF History, SaysOnly
<1>4. SaysOnly
  BY <1>2, <1>3 DEF LagManager, LagAdd, LagJoin, LagLeave, LagRequest, LagRemove
<1> QED BY <1>1, <1>4

LEMMA NowApart ==
  ASSUME CopyInv, Marked, NEW T, Vids \X Modes \X history.doubled \subseteq T
  PROVE  Apart(nas, T)
<1>1. PICK u \in View : Copies(nas, u) /\ Whole(u)
  BY DEF CopyInv, Story
<1>2. \A l \in Lags : l \notin nas.entries => nas.mem[l] = {}
  BY <1>1 DEF Copies, Whole
<1>3. \A l \in Lags : nas.mem[l] \subseteq Ports
  BY DEF CopyInv, TypeInv, TypeOK, VlanState
<1>4. ASSUME NEW l \in Lags, NEW k \in Lags \ {l}, NEW p \in nas.mem[l] \cap nas.mem[k],
             NEW v \in Vids, NEW m \in Modes
      PROVE  <<v, m, p>> \in T
  <2>1. p \in Doubled(nas)
    BY <1>2, <1>3, <1>4 DEF Doubled
  <2> QED BY <2>1 DEF Marked
<1> QED BY <1>2, <1>4 DEF Apart

LEMMA SetKnown ==
  ASSUME CopyInv, pubs # <<>>, Head(pubs).op = "set"
  PROVE  Head(pubs).lag \in nas.entries
<1>1. PICK u \in View : Copies(nas, u) /\ Story(u, pubs, history.published, history.silent)
  BY DEF CopyInv
<1>2. pubs \in Seq(Publication)
  BY DEF CopyInv, TypeInv, TypeOK
<1>3. Told(u, Head(pubs))
  BY <1>1, <1>2, StoryTail
<1> QED BY <1>1, <1>3 DEF Told, Copies

LEMMA MarkedNext == CopyInv /\ Marked /\ [Next]_vars => Marked'
<1> SUFFICES ASSUME CopyInv, Marked, [Next]_vars PROVE Marked'
  OBVIOUS
<1>1. TypeInv /\ history \in History
  BY DEF CopyInv, TypeInv, TypeOK
<1>2. Aside /\ Silently => Marked'
  BY DEF Aside, Silently, Marked, Doubled
<1>3. CASE LagManager
  <2>1. nas' = nas /\ history'.doubled = history.doubled
    BY <1>1, <1>3, ManagerSays DEF SaysOnly
  <2> QED BY <2>1 DEF Marked
<1>4. ASSUME NEW f, LagEvent(f) PROVE Marked'
  BY <1>1, <1>4 DEF LagEvent, History, Marked
<1>5. CASE CpsRequest \/ Serve \/ VlanEventCrash \/ Other \/ \E f : VlanEvent(f)
  BY <1>1, <1>2, <1>5, AsideSteps, SilentSteps
<1>6. CASE UNCHANGED vars
  <2>1. Aside /\ Silently
    BY <1>6 DEF vars, Aside, Silently
  <2> QED BY <1>2, <2>1
<1> QED BY <1>3, <1>4, <1>5, <1>6 DEF Next, EventThread

LEMMA FaultFree ==
  ASSUME SpentType, spent'.faults = 0
  PROVE  /\ \A f : SpendFault(f) => f = "none" /\ spent.faults = 0
         /\ \A f : SpendRequest(f) => f = "none" /\ spent.faults = 0
         /\ SpendTable \/ SpendExternal \/ UNCHANGED spent => spent.faults = 0
<1>1. spent.faults \in Nat
  BY DEF SpentType
<1>2. \A f : SpendFault(f) => f = "none" /\ spent.faults = 0
  BY <1>1 DEF SpentType, SpendFault, Faults
<1>3. \A f : SpendRequest(f) => f = "none" /\ spent.faults = 0
  BY <1>1 DEF SpentType, SpendRequest, Faults
<1>4. SpendTable \/ SpendExternal \/ UNCHANGED spent => spent.faults = 0
  BY DEF SpentType, SpendTable, SpendExternal
<1> QED BY <1>2, <1>3, <1>4

(* The events that the kernel appends. *)
LEMMA AnnouncedGrows ==
  ASSUME Announced, queue \in Seq(Event), NEW a \in Seq(Event), queue' = queue \o a,
         \A i \in 1..Len(a) : a[i].op = "newBridge" => a[i].br \in used', used \subseteq used'
  PROVE  Announced'
<1> SUFFICES ASSUME NEW i \in 1..Len(queue'), queue'[i].op = "newBridge"
             PROVE  queue'[i].br \in used'
  BY DEF Announced
<1>1. /\ Len(queue) \in Nat /\ Len(a) \in Nat /\ Len(queue') = Len(queue) + Len(a)
      /\ queue'[i] = IF i <= Len(queue) THEN queue[i] ELSE a[i - Len(queue)]
  BY ConcatProperties
<1>2. CASE i <= Len(queue)
  BY <1>1, <1>2 DEF Announced
<1>3. CASE ~(i <= Len(queue))
  <2>1. i - Len(queue) \in 1..Len(a)
    BY <1>1, <1>3
  <2> QED BY <1>1, <1>3, <2>1
<1> QED BY <1>2, <1>3

LEMMA AnnouncedTaken ==
  ASSUME Announced, queue \in Seq(Event), queue # <<>>
  PROVE  /\ Head(queue) \in Event
         /\ Head(queue).op = "newBridge" => Head(queue).br \in used
         /\ queue' = Tail(queue) /\ used' = used => Announced'
<1>1. /\ Len(queue) \in Nat \ {0} /\ Head(queue) = queue[1] /\ Head(queue) \in Event
      /\ Len(Tail(queue)) = Len(queue) - 1
      /\ \A i \in 1..Len(Tail(queue)) : Tail(queue)[i] = queue[i + 1]
  BY HeadTailProperties, EmptySeq
<1>2. \A i \in 1..Len(Tail(queue)) : i + 1 \in 1..Len(queue)
  BY <1>1
<1> QED BY <1>1, <1>2 DEF Announced

LEMMA ReleaseAnnounced ==
  ASSUME KernelType, Announced, NEW S, S \subseteq {x \in Members \X MaybeVid : kmem[x] # None},
         NEW last \in Seq(Event), \A i \in 1..Len(last) : last[i].op # "newBridge",
         Release(S, last)
  PROVE  Announced' /\ used' = used
<1>1. IsFiniteSet(S)
  <2>1. IsFiniteSet(Members) /\ IsFiniteSet(MaybeVid)
    BY NasVlanLagAssumption, FS_Singleton, FS_Union DEF Members, MaybeVid
  <2>2. IsFiniteSet(Members \X MaybeVid)
    BY <2>1, FS_Product
  <2> QED BY <2>2, FS_Subset
<1>2. Cardinality(S) \in Nat
  BY <1>1, FS_CardinalityType
<1>3. PICK order \in SetToSeqs(S) :
        queue' = queue \o [i \in 1..Cardinality(S) |->
                             PortEvent("delPort", kmem[order[i]], order[i][1], order[i][2])]
                       \o last
  BY DEF Release
<1>4. \A i \in 1..Cardinality(S) : order[i] \in S
  BY <1>3 DEF SetToSeqs
<1> DEFINE E == [i \in 1..Cardinality(S) |->
                   PortEvent("delPort", kmem[order[i]], order[i][1], order[i][2])]
<1>5. ASSUME NEW i \in 1..Cardinality(S) PROVE E[i] \in Event /\ E[i].op = "delPort"
  <2>1. order[i] \in Members \X MaybeVid /\ kmem[order[i]] \in Bridges
    BY <1>4 DEF KernelType, MaybeBridge
  <2>2. E[i] \in Event
    BY <2>1, EventTypes
  <2> QED BY <2>2 DEF PortEvent
<1>6. E \in Seq(Event) /\ Len(E) = Cardinality(S)
  BY <1>2, <1>5
<1>7. queue' = queue \o E \o last
  BY <1>3
<1> HIDE DEF E
<1>8. PICK a : a = E \o last
  OBVIOUS
<1>9. /\ a \in Seq(Event) /\ Len(a) = Len(E) + Len(last) /\ Len(E) \in Nat /\ Len(last) \in Nat
      /\ \A i \in 1..Len(a) : a[i] = IF i <= Len(E) THEN E[i] ELSE last[i - Len(E)]
  <2>1. E \o last \in Seq(Event) /\ Len(E \o last) = Len(E) + Len(last)
        /\ \A i \in 1..Len(E) + Len(last) :
             (E \o last)[i] = IF i <= Len(E) THEN E[i] ELSE last[i - Len(E)]
    BY <1>6, ConcatProperties
  <2>2. Len(E) \in Nat /\ Len(last) \in Nat
    BY <1>6, LenProperties
  <2> QED BY <1>8, <2>1, <2>2
<1>10. ASSUME NEW i \in 1..Len(a) PROVE a[i].op # "newBridge"
  <2>1. CASE i <= Len(E)
    <3>1. i \in 1..Cardinality(S) /\ a[i] = E[i]
      BY <1>6, <1>9, <2>1
    <3> QED BY <1>5, <3>1
  <2>2. CASE ~(i <= Len(E))
    <3>1. i - Len(E) \in 1..Len(last) /\ a[i] = last[i - Len(E)]
      BY <1>9, <2>2
    <3> QED BY <3>1
  <2> QED BY <2>1, <2>2
<1>11. queue' = queue \o a
  BY <1>6, <1>7, <1>8, ConcatAssociative, SMTT(20) DEF KernelType
<1>12. used' = used
  BY DEF Release
<1>13. queue \in Seq(Event)
  BY DEF KernelType
<1>14. Announced'
  BY <1>9, <1>10, <1>11, <1>12, <1>13, AnnouncedGrows
<1> QED BY <1>12, <1>14

LEMMA KernelAnnounced ==
  ASSUME KernelType, Announced
  PROVE  /\ \A b \in Bridges : KernelCreate(b) => Announced' /\ used' = used \cup {b}
         /\ \A b \in Bridges : KernelDelete(b) => Announced' /\ used' = used
         /\ \A b \in Bridges, p \in Members, v \in MaybeVid :
              KernelJoin(b, p, v) => Announced' /\ used' = used
         /\ \A p \in Members, v \in MaybeVid : KernelLeave(p, v) => Announced' /\ used' = used
         /\ UNCHANGED kernel => Announced' /\ used' = used
<1>0. queue \in Seq(Event)
  BY DEF KernelType
<1>1. ASSUME NEW b \in Bridges, KernelCreate(b) PROVE Announced' /\ used' = used \cup {b}
  <2>1. PICK a : a = <<BridgeEvent("newBridge", b)>>
    OBVIOUS
  <2>2. a \in Seq(Event) /\ Len(a) = 1 /\ a[1].br = b
    <3>1. PICK e : e = BridgeEvent("newBridge", b)
      OBVIOUS
    <3>2. e \in Event /\ e.br = b
      BY <3>1, EventTypes DEF BridgeEvent
    <3>3. a = <<e>>
      BY <2>1, <3>1
    <3> QED BY <3>2, <3>3
  <2>3. queue' = queue \o a /\ used' = used \cup {b}
    BY <1>0, <1>1, <2>1, EventTypes, AppendProperties, AppendIsConcat DEF KernelCreate
  <2>4. \A i \in 1..Len(a) : a[i].br \in used'
    BY <2>2, <2>3
  <2> QED BY <1>0, <2>2, <2>3, <2>4, AnnouncedGrows
<1>2. ASSUME NEW b \in Bridges, KernelDelete(b) PROVE Announced' /\ used' = used
  <2>1. PICK a : a = <<BridgeEvent("delBridge", b)>>
    OBVIOUS
  <2>2. a \in Seq(Event) /\ \A i \in 1..Len(a) : a[i].op # "newBridge"
    <3>1. PICK e : e = BridgeEvent("delBridge", b)
      OBVIOUS
    <3>2. e \in Event /\ e.op = "delBridge"
      BY <3>1, EventTypes DEF BridgeEvent
    <3>3. a = <<e>>
      BY <2>1, <3>1
    <3> QED BY <3>2, <3>3
  <2>3. {x \in Members \X MaybeVid : kmem[x] = b} \subseteq
          {x \in Members \X MaybeVid : kmem[x] # None}
    BY NasVlanLagAssumption
  <2>4. Release({x \in Members \X MaybeVid : kmem[x] = b}, a)
    BY <1>2, <2>1 DEF KernelDelete
  <2> QED BY <2>2, <2>3, <2>4, ReleaseAnnounced
<1>3. ASSUME NEW b \in Bridges, NEW p \in Members, NEW v \in MaybeVid, KernelJoin(b, p, v)
      PROVE  Announced' /\ used' = used
  <2> DEFINE old == kmem[<<p, v>>]
  <2>1. old \in MaybeBridge /\ <<p, v>> \in Members \X MaybeVid
    BY DEF KernelType
  <2>2. PICK d, j : d = PortEvent("delPort", old, p, v) /\ j = PortEvent("addPort", b, p, v)
    OBVIOUS
  <2>3. /\ j \in Event /\ (old # None => d \in Event)
        /\ d.op # "newBridge" /\ j.op # "newBridge"
    BY <2>1, <2>2, EventTypes DEF MaybeBridge, PortEvent
  <2>4. used' = used
    BY <1>3 DEF KernelJoin
  <2>5. CASE old = b
    <3>1. queue' = queue
      BY <1>3, <2>5, NasVlanLagAssumption DEF KernelJoin
    <3> QED BY <2>4, <3>1 DEF Announced
  <2>6. CASE old # b /\ old = None
    <3>1. queue' = queue \o <<j>>
      BY <1>0, <1>3, <2>2, <2>3, <2>6, AppendIsConcat DEF KernelJoin
    <3>2. <<j>> \in Seq(Event) /\ \A i \in 1..Len(<<j>>) : <<j>>[i].op # "newBridge"
      BY <2>3
    <3> QED BY <1>0, <2>4, <3>1, <3>2, AnnouncedGrows
  <2>7. CASE old # b /\ old # None
    <3>1. queue' = queue \o <<d, j>>
      BY <1>3, <2>2, <2>7 DEF KernelJoin
    <3>2. <<d, j>> \in Seq(Event) /\ \A i \in 1..Len(<<d, j>>) : <<d, j>>[i].op # "newBridge"
      BY <2>3, <2>7
    <3> QED BY <1>0, <2>4, <3>1, <3>2, AnnouncedGrows
  <2> QED BY <2>5, <2>6, <2>7
<1>4. ASSUME NEW p \in Members, NEW v \in MaybeVid, KernelLeave(p, v)
      PROVE  Announced' /\ used' = used
  <2> DEFINE old == kmem[<<p, v>>]
  <2>1. old \in MaybeBridge
    BY DEF KernelType
  <2>2. PICK d : d = PortEvent("delPort", old, p, v)
    OBVIOUS
  <2>3. used' = used
    BY <1>4 DEF KernelLeave
  <2>4. CASE old = None
    <3>1. queue' = queue
      BY <1>4, <2>4 DEF KernelLeave
    <3> QED BY <2>3, <3>1 DEF Announced
  <2>5. CASE old # None
    <3>1. d \in Event /\ d.op # "newBridge"
      BY <2>1, <2>2, <2>5, EventTypes DEF MaybeBridge, PortEvent
    <3>2. queue' = queue \o <<d>>
      BY <1>0, <1>4, <2>2, <2>5, <3>1, AppendIsConcat DEF KernelLeave
    <3>3. <<d>> \in Seq(Event) /\ \A i \in 1..Len(<<d>>) : <<d>>[i].op # "newBridge"
      BY <3>1
    <3> QED BY <1>0, <2>3, <3>2, <3>3, AnnouncedGrows
  <2> QED BY <2>4, <2>5
<1>5. UNCHANGED kernel => Announced' /\ used' = used
  BY DEF kernel, Announced
<1> QED BY <1>1, <1>2, <1>3, <1>4, <1>5

(* Without a walk only the history is excused. *)
LEMMA IdleFollow ==
  ASSUME NEW s, NEW c, c.item = None, NEW h
  PROVE  /\ Follow(s, c, h) =>
              Matches(s, h.lost, h.stale, Lacking(h), h.torn \cup h.orphaned)
         /\ (c.br # None => c.br \in s.known)
            /\ Matches(s, h.lost, h.stale, Lacking(h), h.torn \cup h.orphaned) => Follow(s, c, h)
<1>1. Parting(s, c) = {} /\ Joining(s, c) = {} /\ \A S : Walk(s, c, S) = {}
  BY DEF Parting, Joining, Walk
<1>2. h.stale \cup Parting(s, c) = h.stale /\ Torn(s, c, h) = h.torn
      /\ Missing(s, c, h) = Lacking(h)
  BY <1>1 DEF Torn, Missing
<1>3. Stray(s, c, h) = h.torn \cup h.orphaned
  BY <1>1, <1>2 DEF Stray
<1> QED BY <1>2, <1>3 DEF Follow, Walked

LEMMA IdleCps ==
  ASSUME TypeInv, cps.br = None
  PROVE  cps.item = None
BY NasVlanLagAssumption DEF TypeInv, Served

LEMMA ServingIdle ==
  ASSUME NEW b, NEW W
  PROVE  Serving(b, W).item = None /\ Serving(b, W).br \in {None, b}
BY DEF Serving, Idle

(* The requests. *)
LEMMA CreateTracks ==
  ASSUME TypeInv, Tracked, NEW b \in Bridges, NEW v \in VidsOf[b], NEW want,
         CpsCreate(b, v, want, "none")
  PROVE  Tracked'
<1>0. /\ nas \in VlanState /\ KernelType /\ v \in Vids /\ None \notin Bridges
      /\ history \in History
  BY TypeParts, NasVlanLagAssumption DEF TypeInv, ThreadType
<1>1. cps.br = None /\ KernelCreate(b) /\ b \notin used
  BY DEF CpsCreate, SpendRequest, KernelCreate
<1>2. cps.item = None
  BY <1>1, IdleCps
<1>3. Matches(nas, history.lost, history.stale, Lacking(history), history.torn \cup history.orphaned)
  BY <1>2, IdleFollow DEF Tracked
<1>4. b \notin nas.known
  BY <1>1 DEF Tracked, Once
<1>5. PICK r : r = BridgeInsert(nas, b)
  OBVIOUS
<1>6. r \in VlanState
  BY <1>0, <1>5, BridgeType DEF VlanOnly
<1>7. Matches(r, history.lost, history.stale, Lacking(history), history.torn \cup history.orphaned)
  BY <1>0, <1>3, <1>5, InsertKeeps
<1>8. r.known = nas.known \cup {b} /\ r.vid[b] = 0
  BY <1>0, <1>4, <1>5 DEF BridgeInsert, VlanState
<1>9. PICK s : s = [r EXCEPT !.vid[b] = v]
  OBVIOUS
<1>10. /\ s.entries = r.entries /\ s.mem = r.mem /\ s.known = r.known /\ s.vlans = r.vlans
       /\ s.npu = r.npu /\ s.npuVlans = r.npuVlans
       /\ s.vid = [r.vid EXCEPT ![b] = v]
  BY <1>6, <1>9 DEF VlanState
<1>11. s.vid[b] = v /\ \A c \in r.known \ {b} : s.vid[c] = r.vid[c]
  BY <1>6, <1>10 DEF VlanState
<1>12. PICK made : made = [s EXCEPT !.npuVlans = @ \cup {v}]
  OBVIOUS
<1>13. /\ made.entries = r.entries /\ made.mem = r.mem /\ made.known = r.known
       /\ made.vlans = r.vlans /\ made.npu = r.npu /\ made.npuVlans = r.npuVlans \cup {v}
       /\ made.vid = s.vid
  <2>1. s \in VlanState
    BY <1>0, <1>6, <1>9 DEF VlanState, MaybeVid
  <2> QED BY <1>10, <1>12, <2>1 DEF VlanState
<1>14. DefaultVlan \in r.npuVlans
  BY <1>7 DEF Matches, Sound
<1>15. /\ nas' \in {s, made} /\ (nas' = s => v \in s.npuVlans)
       /\ history' = [history EXCEPT !.lost = @ \cup Sharing(nas')]
       /\ cps' \in {cps, Idle} \/ \E W : cps' = Serving(b, W)
  <2>1. s = [BridgeInsert(nas, b) EXCEPT !.vid[b] = v]
    BY <1>5, <1>9
  <2>2. history' = [history EXCEPT !.lost = @ \cup Sharing(nas')]
    BY DEF CpsCreate
  <2>3. CASE v = DefaultVlan
    <3>1. nas' = s /\ cps' = Serving(b, WorkOf(s, b, want))
      BY <2>1, <2>3 DEF CpsCreate
    <3> QED BY <1>10, <1>14, <2>2, <2>3, <3>1
  <2>4. CASE v # DefaultVlan /\ v \notin s.npuVlans
    <3>1. nas' = made /\ cps' = Serving(b, WorkOf(made, b, want))
      BY <1>12, <2>1, <2>4 DEF CpsCreate
    <3>2. nas' = s => v \in s.npuVlans
      BY <1>10, <1>13, <2>4, <3>1
    <3> QED BY <2>2, <3>1, <3>2
  <2>5. CASE v # DefaultVlan /\ v \in s.npuVlans
    <3>1. nas' = s /\ cps' = cps
      BY <2>1, <2>5 DEF CpsCreate
    <3> QED BY <2>2, <2>5, <3>1
  <2> QED BY <2>3, <2>4, <2>5
<1>16. TakesId(r, nas', b, v)
  <2>1. TakesId(r, made, b, v)
    BY <1>11, <1>13 DEF TakesId
  <2>2. v \in s.npuVlans => TakesId(r, s, b, v)
    BY <1>10, <1>11 DEF TakesId
  <2> QED BY <1>15, <2>1, <2>2
<1>17. /\ history'.lost = history.lost \cup Sharing(nas') /\ history'.stale = history.stale
       /\ history'.torn = history.torn /\ history'.orphaned = history.orphaned
       /\ Lacking(history') = Lacking(history)
  BY <1>0, <1>15 DEF History, Lacking
<1>18. b \in r.known
  BY <1>8
<1>19. Matches(nas', history'.lost, history.stale, Lacking(history),
               history.torn \cup history.orphaned)
  BY <1>0, <1>6, <1>7, <1>8, <1>16, <1>17, <1>18, TakeKeeps
<1>20. nas'.known = nas.known \cup {b}
  BY <1>8, <1>16 DEF TakesId
<1>21. cps'.item = None /\ cps'.br \in {None, b}
  BY <1>1, <1>2, <1>15, ServingIdle DEF Idle
<1>22. Follow(nas', cps', history')
  BY <1>17, <1>19, <1>20, <1>21, IdleFollow
<1>23. Announced' /\ used' = used \cup {b}
  BY <1>0, <1>1, KernelAnnounced DEF Tracked, Once
<1>24. Once'
  BY <1>20, <1>23 DEF Tracked, Once
<1> QED BY <1>22, <1>24 DEF Tracked

LEMMA SetTracks ==
  ASSUME TypeInv, Tracked, NEW b \in Bridges, NEW want, CpsSet(b, want)
  PROVE  Tracked'
<1>1. cps.br = None /\ b \in nas.known /\ cps' = Serving(b, WorkOf(nas, b, want))
      /\ UNCHANGED <<nas, kernel, history>>
  BY DEF CpsSet, SpendRequest
<1>2. cps.item = None
  BY <1>1, IdleCps
<1>3. Matches(nas, history.lost, history.stale, Lacking(history), history.torn \cup history.orphaned)
  BY <1>2, IdleFollow DEF Tracked
<1>4. cps'.item = None /\ cps'.br \in {None, b}
  BY <1>1, ServingIdle
<1>5. Follow(nas', cps', history')
  BY <1>1, <1>3, <1>4, IdleFollow
<1>6. Once'
  BY <1>1 DEF Tracked, Once, Announced, kernel
<1> QED BY <1>5, <1>6 DEF Tracked

LEMMA DeleteTracks ==
  ASSUME TypeInv, Tracked, NEW b \in Bridges, CpsDelete(b, "none")
  PROVE  Tracked'
<1>0. nas \in VlanState /\ KernelType /\ history \in History
  BY TypeParts DEF TypeInv, ThreadType
<1>1. /\ cps.br = None /\ b \in nas.known /\ nas' = BridgeCleanup(nas, b, "none")
      /\ history' = [history EXCEPT !.stale = @ \cup StaleAfter(nas, b)] /\ cps' = cps
      /\ KernelDelete(b) \/ UNCHANGED kernel
  BY DEF CpsDelete, SpendRequest
<1>2. cps.item = None
  BY <1>1, IdleCps
<1>3. Matches(nas, history.lost, history.stale, Lacking(history), history.torn \cup history.orphaned)
  BY <1>2, IdleFollow DEF Tracked
<1>4. /\ Matches(nas', history.lost, history.stale \cup StaleAfter(nas, b), Lacking(history),
                 history.torn \cup history.orphaned)
      /\ nas'.known \subseteq nas.known
  <2>1. PICK t : t = nas'
    OBVIOUS
  <2>2. PICK T : T = history.torn \cup history.orphaned
    OBVIOUS
  <2>3. Matches(nas, history.lost, history.stale, Lacking(history), T)
    BY <1>3, <2>2
  <2>4. t = BridgeCleanup(nas, b, "none") /\ b \in nas.known
    BY <1>1, <2>1
  <2>5. /\ Matches(t, history.lost, history.stale \cup StaleAfter(nas, b), Lacking(history), T)
        /\ t.known \subseteq nas.known
    BY <1>0, <2>3, <2>4, CleanupKeeps
  <2> QED BY <2>1, <2>2, <2>5
<1>5. /\ history'.lost = history.lost /\ history'.stale = history.stale \cup StaleAfter(nas, b)
      /\ history'.torn = history.torn /\ history'.orphaned = history.orphaned
      /\ Lacking(history') = Lacking(history)
  BY <1>0, <1>1 DEF History, Lacking
<1>6. Follow(nas', cps', history')
  BY <1>1, <1>2, <1>4, <1>5, IdleFollow
<1>7. Announced' /\ used' = used
  BY <1>0, <1>1, KernelAnnounced DEF Tracked, Once
<1>8. Once'
  BY <1>4, <1>7 DEF Tracked, Once
<1> QED BY <1>6, <1>8 DEF Tracked

(* The work of a request. *)
LEMMA SkipTracks ==
  ASSUME Tracked, NEW w, CpsSkip(w, "none")
  PROVE  Tracked'
<1>1. cps.item = None /\ cps' = Serving(cps.br, cps.work \ {w})
      /\ UNCHANGED <<nas, kernel, history>>
  BY DEF CpsSkip, Done
<1>2. Matches(nas, history.lost, history.stale, Lacking(history), history.torn \cup history.orphaned)
      /\ (cps.br # None => cps.br \in nas.known)
  BY <1>1, IdleFollow DEF Tracked, Follow
<1>3. cps'.item = None /\ cps'.br \in {None, cps.br}
  BY <1>1, ServingIdle
<1>4. Follow(nas', cps', history')
  BY <1>1, <1>2, <1>3, IdleFollow
<1>5. Once'
  BY <1>1 DEF Tracked, Once, Announced, kernel
<1> QED BY <1>4, <1>5 DEF Tracked

LEMMA BeginTracks ==
  ASSUME TypeInv, Tracked, NEW w \in cps.work, CpsBegin(w)
  PROVE  Tracked'
<1>0. nas \in VlanState /\ KernelType /\ cps \in CpsState /\ Served
  BY TypeParts DEF TypeInv, ThreadType
<1>1. /\ cps.item = None /\ cps' = [cps EXCEPT !.item = w, !.left = nas.mem[w.lag]]
      /\ UNCHANGED <<nas, history>>
      /\ KernelJoin(cps.br, w.lag, KernelVid(w)) \/ UNCHANGED kernel
  BY DEF CpsBegin
<1>2. w \in Work /\ w.lag \in Members /\ cps.br \in Bridges
  BY <1>0 DEF CpsState, Work, Served, Members
<1>3. KernelVid(w) \in MaybeVid
  BY <1>0, <1>2 DEF KernelVid, VlanState, MaybeVid
<1>4. Announced' /\ used' = used
  BY <1>0, <1>1, <1>2, <1>3, KernelAnnounced DEF Tracked, Once
<1>5. Once'
  BY <1>1, <1>4 DEF Tracked, Once
<1>6. cps'.br = cps.br /\ cps'.item = w /\ cps'.left = nas.mem[w.lag]
  BY <1>0, <1>1 DEF CpsState
<1>7. Walked(nas, cps', Missing(nas, cps', history), Stray(nas, cps', history))
  BY <1>6 DEF Walked, Visited
<1>8. Matches(nas, history.lost, history.stale, Lacking(history), history.torn \cup history.orphaned)
      /\ (cps.br # None => cps.br \in nas.known)
  BY <1>1, IdleFollow DEF Tracked, Follow
<1>9. Matches(nas, history.lost, history.stale \cup Parting(nas, cps'),
              Missing(nas, cps', history), Stray(nas, cps', history))
  <2>1. /\ history.lost \subseteq history.lost
        /\ history.stale \subseteq history.stale \cup Parting(nas, cps')
        /\ Lacking(history) \subseteq Missing(nas, cps', history)
        /\ history.torn \cup history.orphaned \subseteq Stray(nas, cps', history)
    BY DEF Torn, Missing, Stray
  <2> QED BY <1>8, <2>1, MatchesMore
<1>10. Follow(nas', cps', history')
  BY <1>1, <1>6, <1>7, <1>8, <1>9 DEF Follow
<1> QED BY <1>5, <1>10 DEF Tracked

(* One member of the walk. *)
WalkStep(s, t, c, d, p) ==
  /\ d.br = c.br /\ d.item = c.item /\ d.left = c.left \ {p} /\ d.touched = c.touched
  /\ IF c.item.op = "add" THEN PortsJoin(s, t, s.vid[c.br], c.item.mode, {p})
                          ELSE PortsLeave(s, t, s.vid[c.br], c.item.mode, {p})

LEMMA WalkFollows ==
  ASSUME NEW s \in VlanState, NEW t, NEW c \in CpsState, NEW d, NEW h,
         NEW p \in c.left, c.item # None, WalkStep(s, t, c, d, p), Follow(s, c, h),
         Apart(s, Missing(s, c, h))
  PROVE  Follow(t, d, h)
<1>1. PICK l, m, op, v : l = c.item.lag /\ m = c.item.mode /\ op = c.item.op /\ v = s.vid[c.br]
  OBVIOUS
<1>2. l \in Lags /\ m \in Modes /\ op \in {"add", "del"} /\ p \in Ports
  BY <1>1 DEF CpsState, Work
<1>3. /\ d.br = c.br /\ d.item = c.item /\ d.left = c.left \ {p} /\ d.touched = c.touched
      /\ op = "add" => PortsJoin(s, t, v, m, {p})
      /\ op = "del" => PortsLeave(s, t, v, m, {p})
  BY <1>1, <1>2 DEF WalkStep
<1>4. Rest(s, t) /\ t.vlans = s.vlans /\ t \in VlanState
  BY <1>2, <1>3 DEF PortsJoin, PortsLeave
<1>5. Parting(t, d) = Parting(s, c) /\ Torn(t, d, h) = Torn(s, c, h)
      /\ Missing(t, d, h) = Missing(s, c, h)
  BY <1>3, <1>4 DEF Parting, Torn, Missing, Walk, Rest
<1>6. PICK lost, stale, torn, stray :
        /\ lost = h.lost /\ stale = h.stale \cup Parting(s, c) /\ torn = Missing(s, c, h)
        /\ stray = Stray(s, c, h)
  OBVIOUS
<1>7. Visited(s, l, m, op, v, c.left, c.touched, torn, stray)
  BY <1>1, <1>6 DEF Follow, Walked
<1>8. Matches(s, lost, stale, torn, stray)
  BY <1>6 DEF Follow
<1>9. \A x \in c.touched : <<v, m, x>> \in torn /\ <<v, m, x>> \in stray
  BY <1>1, <1>6 DEF Torn, Missing, Stray, Walk
<1>10. p \in s.mem[l] \/ (<<v, m, p>> \in torn /\ <<v, m, p>> \in stray)
  BY <1>7, <1>9 DEF Visited
<1>11. CASE op = "add"
  <2>1. PortsJoin(s, t, v, m, {p})
    BY <1>3, <1>11
  <2>2. PICK stray1 : stray1 = Stray(t, d, h)
    OBVIOUS
  <2>3. stray \subseteq stray1
    BY <1>1, <1>3, <1>4, <1>5, <1>6, <2>2 DEF Stray, Joining, Walk, Rest
  <2>4. <<v, m, p>> \in stray1
    <3>1. CASE p \in s.mem[l]
      <4>1. <<v, m, p>> \in Joining(t, d)
        BY <1>1, <1>3, <1>4, <1>11, <3>1 DEF Joining, Walk, Rest
      <4> QED BY <2>2, <4>1 DEF Stray
    <3>2. CASE <<v, m, p>> \in stray
      BY <2>3, <3>2
    <3> QED BY <1>10, <3>1, <3>2
  <2>5. Matches(s, lost, stale, torn, stray1)
    BY <1>8, <2>3, MatchesMore
  <2>6. Matches(t, lost, stale, torn, stray1)
    BY <1>2, <2>1, <2>4, <2>5, PortJoinKeeps
  <2>7. Visited(t, l, m, op, v, d.left, d.touched, torn, stray1)
    BY <1>2, <1>3, <1>4, <1>7, <1>11, <2>1 DEF Visited, PortsJoin, Rest, VlanState
  <2>8. Walked(t, d, torn, stray1)
    BY <1>1, <1>3, <1>4, <2>7 DEF Walked, Rest
  <2> QED BY <1>3, <1>4, <1>5, <1>6, <2>2, <2>6, <2>8 DEF Follow, Rest
<1>12. CASE op = "del"
  <2>1. PortsLeave(s, t, v, m, {p})
    BY <1>3, <1>12
  <2>2. Stray(t, d, h) = stray
    BY <1>1, <1>3, <1>5, <1>6, <1>12 DEF Stray, Joining
  <2>3. <<l, m, v>> \in stale
    BY <1>1, <1>6, <1>12 DEF Parting
  <2>4. v \in Vids => \A k \in s.entries : p \in s.mem[k] =>
          <<k, m, v>> \in stale \/ <<v, m, p>> \in torn
    <3>1. \A k \in s.entries : p \in s.mem[k] /\ p \in s.mem[l] =>
            k = l \/ v \notin Vids \/ <<v, m, p>> \in torn
      BY <1>2, <1>6 DEF Apart, VlanState
    <3> QED BY <1>10, <2>3, <3>1
  <2>5. Matches(t, lost, stale, torn, stray)
    BY <1>2, <1>8, <2>1, <2>4, PortLeaveKeeps
  <2>6. v \in Vids /\ v \notin s.npuVlans => p \notin s.npu[<<v, m>>]
    BY <1>2, <1>8 DEF Matches, Sound
  <2>7. Visited(t, l, m, op, v, d.left, d.touched, torn, stray)
    <3>1. \A x : Elsewhere(s, l, m, v, x) => Elsewhere(t, l, m, v, x)
      BY <1>4 DEF Elsewhere, Rest
    <3> QED BY <1>2, <1>3, <1>4, <1>7, <1>12, <2>1, <2>6, <3>1
            DEF Visited, PortsLeave, Rest, VlanState
  <2>8. Walked(t, d, torn, stray)
    BY <1>1, <1>3, <1>4, <2>7 DEF Walked, Rest
  <2> QED BY <1>3, <1>4, <1>5, <1>6, <2>2, <2>5, <2>8 DEF Follow, Rest
<1> QED BY <1>2, <1>11, <1>12

LEMMA WalkTracks ==
  ASSUME CopyInv, Marked, Tracked, NEW p \in Ports, CpsWalk(p, "none")
  PROVE  Tracked'
<1>0. nas \in VlanState /\ cps \in CpsState
  BY TypeParts DEF CopyInv, TypeInv, ThreadType
<1>1. /\ cps.item # None /\ p \in cps.left /\ cps' = [cps EXCEPT !.left = @ \ {p}]
      /\ UNCHANGED <<kernel, history>>
  BY DEF CpsWalk
<1>2. PICK v, m, op : v = nas.vid[cps.br] /\ m = cps.item.mode /\ op = cps.item.op
  OBVIOUS
<1>3. m \in Modes /\ {p} \in SUBSET Ports
  BY <1>0, <1>1, <1>2 DEF CpsState, Work
<1>4. nas' = IF op = "add" THEN NpuAdd(nas, v, m, {p}, "none") ELSE NpuDel(nas, v, m, {p}, "none")
  BY <1>2 DEF CpsWalk
<1>5. /\ PortsJoin(nas, NpuAdd(nas, v, m, {p}, "none"), v, m, {p})
      /\ PortsLeave(nas, NpuDel(nas, v, m, {p}, "none"), v, m, {p})
  BY <1>0, <1>3, NpuEffect
<1>6. PICK t : t = nas'
  OBVIOUS
<1>7. IF op = "add" THEN PortsJoin(nas, t, v, m, {p}) ELSE PortsLeave(nas, t, v, m, {p})
  BY <1>4, <1>5, <1>6
<1>8. PICK d : d = cps'
  OBVIOUS
<1>9. d.br = cps.br /\ d.item = cps.item /\ d.left = cps.left \ {p} /\ d.touched = cps.touched
  BY <1>0, <1>1, <1>8 DEF CpsState
<1>10. WalkStep(nas, t, cps, d, p)
  BY <1>2, <1>7, <1>9 DEF WalkStep
<1>11. Apart(nas, Missing(nas, cps, history))
  BY NowApart DEF Missing, Lacking
<1>12. Follow(t, d, history)
  BY <1>0, <1>1, <1>10, <1>11, WalkFollows DEF Tracked
<1>13. t.known = nas.known
  BY <1>7 DEF PortsJoin, PortsLeave, Rest
<1>14. Once'
  BY <1>1, <1>6, <1>13 DEF Tracked, Once, Announced, kernel
<1> QED BY <1>1, <1>6, <1>8, <1>12, <1>14 DEF Tracked

(* The end of the walk: what it did not visit is torn. *)
EndStep(s, t, c, h, g) ==
  LET l == c.item.lag
      m == c.item.mode
      v == s.vid[c.br]
  IN /\ g.lost = h.lost /\ g.stale = h.stale /\ g.orphaned = h.orphaned /\ g.doubled = h.doubled
     /\ g.torn = h.torn \cup ({v} \cap Vids) \X {m} \X (c.left \cup c.touched)
     /\ \/ l \notin s.entries /\ t = s
        \/ l \in s.entries /\ c.item.op = "add" /\ IdJoins(s, t, l, m, v)
        \/ l \in s.entries /\ c.item.op = "del" /\ IdLeaves(s, t, l, m, v)

LEMMA EndFollows ==
  ASSUME NEW s \in VlanState, NEW t, NEW c \in CpsState, NEW h, NEW g,
         c.item # None, c.br # None, EndStep(s, t, c, h, g), Follow(s, c, h),
         Apart(s, Missing(s, c, h))
  PROVE  Matches(t, g.lost, g.stale, Lacking(g), g.torn \cup g.orphaned) /\ t.known = s.known
<1>1. PICK l, m, op, v : l = c.item.lag /\ m = c.item.mode /\ op = c.item.op /\ v = s.vid[c.br]
  OBVIOUS
<1>2. l \in Lags /\ m \in Modes /\ op \in {"add", "del"} /\ c.br \in s.known
  BY <1>1 DEF CpsState, Work, Follow
<1>3. /\ g.lost = h.lost /\ g.stale = h.stale /\ g.orphaned = h.orphaned /\ g.doubled = h.doubled
      /\ g.torn = h.torn \cup ({v} \cap Vids) \X {m} \X (c.left \cup c.touched)
      /\ \/ l \notin s.entries /\ t = s
         \/ l \in s.entries /\ op = "add" /\ IdJoins(s, t, l, m, v)
         \/ l \in s.entries /\ op = "del" /\ IdLeaves(s, t, l, m, v)
  BY <1>1 DEF EndStep
<1>4. PICK lost, stale, torn, gone : lost = g.lost /\ stale = g.stale
                                     /\ torn = Lacking(g) /\ gone = g.torn \cup g.orphaned
  OBVIOUS
<1>5. Matches(s, lost, stale \cup Parting(s, c), Missing(s, c, h), Stray(s, c, h))
  BY <1>3, <1>4 DEF Follow
<1>6. Visited(s, l, m, op, v, c.left, c.touched, Missing(s, c, h), Stray(s, c, h))
  BY <1>1, <1>2 DEF Follow, Walked
<1>7. \A w \in Vids, n \in Modes, p \in Ports :
        /\ <<w, n, p>> \in Missing(s, c, h) => <<w, n, p>> \in torn
        /\ <<w, n, p>> \in Torn(s, c, h) => <<w, n, p>> \in gone
  BY <1>1, <1>3, <1>4 DEF Torn, Missing, Lacking, Walk
<1>8. v \in Vids => \A p \in c.left \cup c.touched : <<v, m, p>> \in torn /\ <<v, m, p>> \in gone
  BY <1>3, <1>4 DEF Lacking
<1>9. PICK stray : stray = gone \cup Joining(s, c)
  OBVIOUS
<1>10. \A w \in Vids, n \in Modes, p \in Ports :
         <<w, n, p>> \in Stray(s, c, h) => <<w, n, p>> \in stray
  BY <1>3, <1>4, <1>7, <1>9 DEF Stray
<1>11. Matches(s, lost, stale \cup Parting(s, c), torn, stray)
  BY <1>5, <1>7, <1>10, MatchesOn
<1>12. \A w, n, p : <<w, n, p>> \in Joining(s, c) => w = v /\ n = m /\ p \in s.mem[l] /\ op = "add"
  BY <1>1 DEF Joining, Walk
<1>13. CASE l \notin s.entries
  <2>1. s.mem[l] = {} /\ t = s
    BY <1>2, <1>3, <1>13 DEF Apart
  <2>2. \A k \in s.entries, n \in Modes, w \in Vids :
          <<k, n, w>> \in stale \cup Parting(s, c) => <<k, n, w>> \in stale
    BY <1>1, <1>13 DEF Parting
  <2>3. \A w \in Vids, n \in Modes, p \in Ports : <<w, n, p>> \in stray => <<w, n, p>> \in gone
    BY <1>9, <1>12, <2>1
  <2>4. Matches(s, lost, stale, torn, gone)
    BY <1>11, <2>2, <2>3, MatchesOn
  <2> QED BY <1>4, <2>1, <2>4
<1>14. CASE l \in s.entries /\ op = "add"
  <2>1. IdJoins(s, t, l, m, v) /\ l \in s.entries
    BY <1>3, <1>14
  <2>2. Matches(s, lost, stale, torn, stray)
    <3>1. stale \cup Parting(s, c) = stale
      BY <1>1, <1>14 DEF Parting
    <3> QED BY <1>11, <3>1
  <2>3. s.mem[l] \subseteq Ports
    BY <1>2 DEF VlanState
  <2>4. Filled(s, l, m, v, torn)
    BY <1>2, <1>6, <1>7, <1>8, <1>14, <2>3 DEF Filled, Visited
  <2>5. Settles(s, l, m, v, stray, gone)
    BY <1>9, <1>12 DEF Settles
  <2>6. PICK b \in s.known : v = s.vid[b]
    BY <1>1, <1>2
  <2>7. Matches(t, lost, stale, torn, gone)
    BY <1>2, <2>1, <2>2, <2>4, <2>5, <2>6, IdJoinKeeps
  <2> QED BY <1>4, <2>1, <2>7 DEF IdJoins, Rest
<1>15. CASE l \in s.entries /\ op = "del"
  <2>1. IdLeaves(s, t, l, m, v) /\ l \in s.entries
    BY <1>3, <1>15
  <2>2. Matches(s, lost, stale \cup {<<l, m, v>>}, torn, gone)
    <3>1. Parting(s, c) = {<<l, m, v>>}
      BY <1>1, <1>15 DEF Parting, Work, CpsState
    <3>2. \A w \in Vids, n \in Modes, p \in Ports : <<w, n, p>> \in stray => <<w, n, p>> \in gone
      BY <1>9, <1>12, <1>15
    <3>3. Matches(s, lost, stale \cup Parting(s, c), torn, gone)
      BY <1>11, <3>2, MatchesOn
    <3> QED BY <3>1, <3>3
  <2>3. v \in Vids => \A p \in s.mem[l] : p \in s.npu[<<v, m>>] =>
          <<v, m, p>> \in gone \/ Elsewhere(s, l, m, v, p)
    <3>1. s.mem[l] \subseteq Ports
      BY <1>2 DEF VlanState
    <3>2. \A p \in Ports : v \in Vids /\ <<v, m, p>> \in Stray(s, c, h) => <<v, m, p>> \in gone
      BY <1>2, <1>9, <1>10, <1>12, <1>15
    <3> QED BY <1>6, <1>8, <1>15, <3>1, <3>2 DEF Visited
  <2>4. Matches(t, lost, stale, torn, gone)
    BY <1>2, <2>1, <2>2, <2>3, IdLeaveKeeps
  <2> QED BY <1>4, <2>1, <2>4 DEF IdLeaves, Rest
<1> QED BY <1>2, <1>13, <1>14, <1>15

LEMMA EndTracks ==
  ASSUME CopyInv, Marked, Tracked, CpsEnd("none")
  PROVE  Tracked'
<1>0. nas \in VlanState /\ cps \in CpsState /\ KernelType /\ Served /\ history \in History
      /\ None \notin Bridges
  BY TypeParts, NasVlanLagAssumption DEF CopyInv, TypeInv, ThreadType
<1>1. PICK w, l, m, v : w = cps.item /\ l = w.lag /\ m = w.mode /\ v = nas.vid[cps.br]
  OBVIOUS
<1>2. /\ w # None
      /\ nas' = IF l \in nas.entries THEN [nas EXCEPT !.vlans[<<l, m>>] = Listed(w)] ELSE nas
      /\ KernelLeave(l, KernelVid(w)) \/ UNCHANGED kernel
      /\ cps' = Serving(cps.br, cps.work \ {w})
  BY <1>1 DEF CpsEnd, Done
<1>3. /\ l \in Lags /\ l \in Members /\ m \in Modes /\ w.op \in {"add", "del"} /\ cps.br \in Bridges
      /\ cps.br # None
  BY <1>0, <1>1, <1>2 DEF CpsState, Work, Served, Members
<1>4. KernelVid(w) \in MaybeVid
  BY <1>0, <1>3 DEF KernelVid, VlanState, MaybeVid
<1>5. Announced' /\ used' = used
  BY <1>0, <1>2, <1>3, <1>4, KernelAnnounced DEF Tracked, Once
<1>6. history' = [history EXCEPT
                    !.torn = @ \cup ({v} \cap Vids) \X {m} \X (cps.left \cup cps.touched)]
  BY <1>1 DEF CpsEnd
<1>7. /\ history'.lost = history.lost /\ history'.stale = history.stale
      /\ history'.orphaned = history.orphaned /\ history'.doubled = history.doubled
      /\ history'.torn = history.torn \cup ({v} \cap Vids) \X {m} \X (cps.left \cup cps.touched)
  <2>1. PICK T : T = ({v} \cap Vids) \X {m} \X (cps.left \cup cps.touched)
    OBVIOUS
  <2>2. history' = [history EXCEPT !.torn = @ \cup T]
    BY <1>6, <2>1
  <2>3. /\ history'.lost = history.lost /\ history'.stale = history.stale
        /\ history'.orphaned = history.orphaned /\ history'.doubled = history.doubled
        /\ history'.torn = history.torn \cup T
    BY <1>0, <2>2 DEF History
  <2> QED BY <2>1, <2>3
<1>8. PICK t : t = nas'
  OBVIOUS
<1>9. \/ l \notin nas.entries /\ t = nas
      \/ l \in nas.entries /\ w.op = "add" /\ IdJoins(nas, t, l, m, v)
      \/ l \in nas.entries /\ w.op = "del" /\ IdLeaves(nas, t, l, m, v)
  <2>1. CASE l \notin nas.entries
    BY <1>2, <1>8, <2>1
  <2>2. CASE l \in nas.entries /\ w.op = "add"
    <3>1. Listed(w) = nas.vlans[<<l, m>>] \cup {v}
      BY <1>1, <2>2 DEF Listed
    <3>2. t = [nas EXCEPT !.vlans[<<l, m>>] = @ \cup {v}]
      BY <1>2, <1>8, <2>2, <3>1
    <3> QED BY <1>0, <1>3, <2>2, <3>2, VlansEffect
  <2>3. CASE l \in nas.entries /\ w.op = "del"
    <3>1. Listed(w) = nas.vlans[<<l, m>>] \ {v}
      BY <1>1, <2>3 DEF Listed
    <3>2. t = [nas EXCEPT !.vlans[<<l, m>>] = @ \ {v}]
      BY <1>2, <1>8, <2>3, <3>1
    <3> QED BY <1>0, <1>3, <2>3, <3>2, VlansEffect
  <2> QED BY <1>3, <2>1, <2>2, <2>3
<1>10. PICK g : g = history'
  OBVIOUS
<1>11. EndStep(nas, t, cps, history, g)
  BY <1>1, <1>7, <1>9, <1>10 DEF EndStep
<1>12. Apart(nas, Missing(nas, cps, history))
  BY NowApart DEF Missing, Lacking
<1>13. Matches(t, g.lost, g.stale, Lacking(g), g.torn \cup g.orphaned) /\ t.known = nas.known
  BY <1>0, <1>1, <1>2, <1>3, <1>11, <1>12, EndFollows DEF Tracked
<1>14. cps'.item = None /\ cps'.br \in {None, cps.br} /\ cps.br \in nas.known
  BY <1>2, <1>3, ServingIdle DEF Tracked, Follow
<1>15. Follow(nas', cps', history')
  BY <1>8, <1>10, <1>13, <1>14, IdleFollow
<1>16. Once'
  BY <1>5, <1>8, <1>13 DEF Tracked, Once
<1> QED BY <1>15, <1>16 DEF Tracked

(* What a LAG event leaves of a request and of what is excused. *)
LEMMA EventFollows ==
  ASSUME NEW s \in VlanState, NEW t \in VlanState, NEW c \in CpsState, NEW d,
         NEW h, NEW g, NEW l \in Lags, NEW P \in SUBSET Ports, NEW old, old = s.mem[l],
         MembersTo(s, t, l, P), Seen(c, d, l, old, P),
         g.torn = h.torn, h.doubled \subseteq g.doubled, h.orphaned \subseteq g.orphaned,
         g.lost = h.lost, g.stale = h.stale, Follow(s, c, h)
  PROVE  /\ d.br # None => d.br \in t.known
         /\ Excused(s, t, c, d, h, g)
         /\ Matches(s, g.lost, g.stale \cup Parting(t, d), Missing(t, d, g), Stray(t, d, g))
<1>1. d.br # None => d.br \in t.known
  BY DEF Follow, Seen, MembersTo
<1>2. Excused(s, t, c, d, h, g)
  BY EventExcused
<1>3. Matches(s, g.lost, g.stale \cup Parting(t, d), Missing(s, c, h), Stray(s, c, h))
  BY <1>2 DEF Follow, Excused
<1>4. Matches(s, g.lost, g.stale \cup Parting(t, d), Missing(t, d, g), Stray(t, d, g))
  BY <1>2, <1>3, MatchesOn DEF Excused
<1> QED BY <1>1, <1>2, <1>4

LEMMA RaceSeen ==
  ASSUME TypeInv, NEW e \in Publication, NEW P, NEW old, old = nas.mem[e.lag],
         e.op = "create" => P = old,
         e.op = "delete" => P = {} /\ (e.lag \notin nas.entries => old = {}),
         e.op = "set" => P = e.ports /\ e.lag \in nas.entries
  PROVE  Seen(cps, Race(e), e.lag, old, P)
<1>1. e.op \in {"create", "set", "delete"}
  BY DEF Publication
<1>2. cps \in CpsState
  BY TypeParts DEF TypeInv, ThreadType
<1>3. Moved(e) = (old \ P) \cup (P \ old)
      /\ (e.op = "set" => Arrived(nas, e.lag, e.ports) = P \ old)
      /\ (e.op # "set" => P \ old = {})
  <2>1. CASE e.op = "create"
    BY <2>1 DEF Moved
  <2>2. CASE e.op = "delete"
    BY <2>2 DEF Moved
  <2>3. CASE e.op = "set"
    BY <2>3 DEF Moved, Departed, Arrived
  <2> QED BY <1>1, <2>1, <2>2, <2>3
<1>4. PICK d : d = Race(e)
  OBVIOUS
<1>5. PICK moved, came : moved = Moved(e) /\ came = P \ old
  OBVIOUS
<1>6. CASE cps.item # None /\ cps.item.lag = e.lag
           /\ (moved # {} \/ (e.op = "delete" /\ e.lag \in nas.entries))
  <2>1. d = [cps EXCEPT !.raced = TRUE, !.touched = @ \cup moved, !.left = @ \cup came]
    BY <1>3, <1>4, <1>5, <1>6 DEF Race
  <2>2. d.br = cps.br /\ d.item = cps.item /\ d.touched = cps.touched \cup moved
        /\ d.left = cps.left \cup came
    BY <1>2, <2>1 DEF CpsState
  <2>3. d.touched = cps.touched \cup (old \ P) \cup (P \ old) /\ d.left = cps.left \cup (P \ old)
    BY <1>3, <1>5, <2>2
  <2> QED BY <1>4, <1>6, <2>2, <2>3 DEF Seen
<1>7. CASE ~(cps.item # None /\ cps.item.lag = e.lag
             /\ (moved # {} \/ (e.op = "delete" /\ e.lag \in nas.entries)))
  <2>1. d = cps
    BY <1>4, <1>5, <1>7 DEF Race
  <2>2. cps.item # None /\ cps.item.lag = e.lag => old \ P = {} /\ P \ old = {}
    BY <1>3, <1>5, <1>7
  <2> QED BY <1>4, <2>1, <2>2 DEF Seen
<1> QED BY <1>6, <1>7

LEMMA LagEventTracks ==
  ASSUME CopyInv, TypeInv', Marked, Tracked, LagEvent("none")
  PROVE  Tracked'
<1>0. /\ nas \in VlanState /\ cps \in CpsState /\ history \in History /\ nas' \in VlanState
      /\ pubs \in Seq(Publication)
  BY TypeParts DEF CopyInv, TypeInv, ThreadType, ManagerType
<1>1. PICK e : e = Head(pubs)
  OBVIOUS
<1>2. e \in Publication /\ pubs # <<>> /\ Len(pubs) \in Nat \ {0} /\ e = pubs[1]
  BY <1>0, <1>1, HeadTailProperties, EmptySeq, LenProperties DEF LagEvent
<1>3. /\ e.lag \in Lags /\ e.ports \in SUBSET Ports /\ e.op \in {"create", "set", "delete"}
  BY <1>2 DEF Publication
<1>4. e.op = "set" => e.lag \in nas.entries
  BY <1>1, <1>2, SetKnown
<1>5. PICK t, d, g, old : t = nas' /\ d = cps' /\ g = history' /\ old = nas.mem[e.lag]
  OBVIOUS
<1>6. PICK P : P = CASE e.op = "create" -> old [] e.op = "delete" -> {} [] e.op = "set" -> e.ports
  OBVIOUS
<1>7. P \in SUBSET Ports /\ old \in SUBSET Ports
  BY <1>0, <1>3, <1>5, <1>6 DEF VlanState
<1>8. Seen(cps, d, e.lag, old, P)
  <2>1. d = Race(e)
    BY <1>1, <1>5 DEF LagEvent
  <2>2. e.lag \notin nas.entries => old = {}
    BY <1>3, <1>5, NowApart DEF Apart
  <2>3. TypeInv
    BY DEF CopyInv
  <2> QED BY <1>2, <1>4, <1>5, <1>6, <2>1, <2>2, <2>3, RaceSeen
<1>9. /\ g.torn = history.torn /\ history.orphaned \subseteq g.orphaned
      /\ g.lost = history.lost /\ g.stale = history.stale /\ history.doubled \subseteq g.doubled
      /\ e.op = "delete" => Orphans(e.lag) \subseteq g.orphaned
  <2>1. PICK O, D : O = (IF e.op = "delete" THEN Orphans(e.lag) ELSE {}) /\ D = Doubled(nas')
    OBVIOUS
  <2>2. g = [history EXCEPT !.orphaned = @ \cup O, !.doubled = @ \cup D]
    BY <1>1, <1>5, <2>1 DEF LagEvent
  <2> QED BY <1>0, <2>1, <2>2 DEF History
<1>10. ASSUME NEW lost, NEW stale, NEW torn, NEW stray, Matches(nas, lost, stale, torn, stray),
              Apart(nas, torn), e.op = "delete" => Orphans(e.lag) \subseteq stray
       PROVE  /\ MembersTo(nas, t, e.lag, P) /\ NpuTo(nas, t, old, P)
              /\ Matches(t, lost, stale, torn, stray) /\ KeepsElsewhere(nas, t, e.lag, stray)
  <2>1. CASE e.op = "create"
    <3>1. t = EntryCreate(nas, e.lag) /\ P = old
      BY <1>1, <1>5, <1>6, <2>1 DEF LagEvent
    <3> QED BY <1>0, <1>3, <1>5, <1>10, <3>1, CreateEvent
  <2>2. CASE e.op = "delete"
    <3>1. t = EntryDelete(nas, e.lag) /\ P = {}
      BY <1>1, <1>5, <1>6, <2>2 DEF LagEvent
    <3>2. \A v \in Vids, m \in Modes, p \in Ports :
            v \in nas.vlans[<<e.lag, m>>] /\ p \in nas.mem[e.lag] => <<v, m, p>> \in stray
      BY <1>10, <2>2 DEF Orphans
    <3> QED BY <1>0, <1>3, <1>5, <1>10, <3>1, <3>2, DeleteEvent
  <2>3. CASE e.op = "set"
    <3>1. P = e.ports
      BY <1>6, <2>3
    <3>2. t = MemberUpdate(nas, e.lag, P, P \ nas.mem[e.lag], "none")
      <4>1. nas' = MemberUpdate(nas, e.lag, e.ports, Arrived(nas, e.lag, e.ports), "none")
        BY <1>1, <2>3 DEF LagEvent
      <4> QED BY <1>5, <3>1, <4>1 DEF Arrived
    <3>3. e.lag \in nas.entries /\ t \in VlanState
      BY <1>0, <1>4, <1>5, <2>3
    <3> QED BY <1>0, <1>5, <1>7, <1>10, <3>2, <3>3, SetEvent
  <2> QED BY <1>3, <2>1, <2>2, <2>3
<1>11. MembersTo(nas, t, e.lag, P) /\ NpuTo(nas, t, old, P)
  <2>1. PICK X : X = Stray(nas, cps, history) \cup Orphans(e.lag)
    OBVIOUS
  <2>2. Matches(nas, history.lost, history.stale \cup Parting(nas, cps),
                Missing(nas, cps, history), X)
    <3>1. Stray(nas, cps, history) \subseteq X
      BY <2>1
    <3> QED BY <3>1, MatchesMore DEF Tracked, Follow
  <2>3. Orphans(e.lag) \subseteq X
    BY <2>1
  <2>4. Apart(nas, Missing(nas, cps, history))
    BY NowApart DEF Missing, Lacking
  <2> QED BY <1>10, <2>2, <2>3, <2>4
<1>12. /\ d.br # None => d.br \in t.known
       /\ Excused(nas, t, cps, d, history, g)
       /\ Matches(nas, g.lost, g.stale \cup Parting(t, d), Missing(t, d, g), Stray(t, d, g))
  <2>1. t \in VlanState /\ Follow(nas, cps, history)
    BY <1>0, <1>5 DEF Tracked
  <2> QED BY <1>0, <1>3, <1>5, <1>7, <1>8, <1>9, <1>11, <2>1, EventFollows
<1>13. Matches(t, g.lost, g.stale \cup Parting(t, d), Missing(t, d, g), Stray(t, d, g))
       /\ KeepsElsewhere(nas, t, e.lag, Stray(t, d, g))
  <2>1. e.op = "delete" => Orphans(e.lag) \subseteq Stray(t, d, g)
    BY <1>9 DEF Stray
  <2>2. Vids \X Modes \X history.doubled \subseteq Missing(t, d, g)
    BY <1>9 DEF Missing, Lacking
  <2>3. Apart(nas, Missing(t, d, g))
    BY <2>2, NowApart
  <2> QED BY <1>10, <1>12, <2>1, <2>3
<1>14. Walked(t, d, Missing(t, d, g), Stray(t, d, g))
  <2>1. PICK torn, torn1, stray, stray1 :
          /\ torn = Missing(nas, cps, history) /\ torn1 = Missing(t, d, g)
          /\ stray = Stray(nas, cps, history) /\ stray1 = Stray(t, d, g)
    OBVIOUS
  <2>2. (\A x : x \in torn => x \in torn1) /\ (\A x : x \in stray => x \in stray1)
    BY <1>12, <2>1 DEF Excused
  <2>3. Walked(nas, cps, torn, stray)
    BY <2>1 DEF Tracked, Follow
  <2>4. Apart(nas, torn)
    BY <2>1, NowApart DEF Missing, Lacking
  <2>5. KeepsElsewhere(nas, t, e.lag, stray1) /\ t \in VlanState
    BY <1>0, <1>5, <1>13, <2>1
  <2>6. Walked(t, d, torn1, stray1)
    BY <1>0, <1>3, <1>5, <1>7, <1>8, <1>11, <2>2, <2>3, <2>4, <2>5, EventWalked
  <2> QED BY <2>1, <2>6
<1>15. Follow(t, d, g)
  BY <1>14, <1>12, <1>13 DEF Follow
<1>16. Once'
  <2>1. t.known = nas.known
    BY <1>11 DEF MembersTo
  <2>2. UNCHANGED kernel
    BY DEF LagEvent
  <2> QED BY <1>5, <2>1, <2>2 DEF Tracked, Once, Announced, kernel
<1> QED BY <1>5, <1>15, <1>16 DEF Tracked

(* A kernel event. *)
LEMMA VlanEventTracks ==
  ASSUME CopyInv, Marked, Tracked, VlanEvent("none")
  PROVE  Tracked'
<1>0. /\ nas \in VlanState /\ history \in History /\ queue \in Seq(Event) /\ lags \subseteq Lags
  BY TypeParts DEF CopyInv, TypeInv, ThreadType, KernelType, ManagerType
<1>1. PICK e, t : e = Head(queue) /\ t = nas'
  OBVIOUS
<1>2. /\ cps.br = None /\ queue # <<>> /\ queue' = Tail(queue) /\ UNCHANGED <<cps, used>>
      /\ ~Fatal(nas, e) /\ t = Handle(nas, e, "none")
  BY <1>1 DEF VlanEvent, Take
<1>3. /\ e \in Event /\ (e.op = "newBridge" => e.br \in used) /\ Announced'
  BY <1>0, <1>1, <1>2, AnnouncedTaken DEF Tracked, Once
<1>4. cps.item = None
  BY <1>2, IdleCps DEF CopyInv
<1>5. PICK X : X = history.torn \cup history.orphaned
  OBVIOUS
<1>6. Matches(nas, history.lost, history.stale, Lacking(history), X)
  BY <1>4, <1>5, IdleFollow DEF Tracked
<1>7. PICK L, S : L = LostBy(nas, e) /\ S = IF e.op = "delBridge" /\ e.br \in nas.known
                                          THEN StaleAfter(nas, e.br) ELSE {}
  OBVIOUS
<1>8. PICK g : g = history'
  OBVIOUS
<1>9. /\ g.lost = history.lost \cup L \cup Sharing(t) /\ g.stale = history.stale \cup S
      /\ g.torn = history.torn /\ g.orphaned = history.orphaned
      /\ Lacking(g) = Lacking(history)
  <2>1. g = [history EXCEPT !.lost = @ \cup L \cup Sharing(t),
                            !.misread = @ \cup MisreadBy(nas, e), !.stale = @ \cup S]
    BY <1>1, <1>7, <1>8 DEF VlanEvent
  <2> QED BY <1>0, <2>1 DEF History, Lacking
<1>10. Apart(nas, Lacking(history))
  BY NowApart DEF Lacking
<1>11. /\ Matches(t, g.lost, g.stale, Lacking(history), X)
       /\ \A b \in t.known : b \in nas.known \/ (e.op = "newBridge" /\ b = e.br)
  <2>1. history.lost \cup Sharing(t) \subseteq g.lost /\ history.stale \subseteq g.stale
        /\ (e.op = "delBridge" /\ e.br \in nas.known => StaleAfter(nas, e.br) \subseteq g.stale)
    BY <1>7, <1>9
  <2>2. PICK lost, lost1, stale, stale1, torn :
          /\ lost = history.lost /\ lost1 = g.lost /\ stale = history.stale /\ stale1 = g.stale
          /\ torn = Lacking(history)
    OBVIOUS
  <2>3. Matches(nas, lost, stale, torn, X) /\ Apart(nas, torn) /\ t = Handle(nas, e, "none") /\ ~Fatal(nas, e)
    BY <1>2, <1>6, <1>10, <2>2
  <2>4. /\ lost \cup Sharing(t) \subseteq lost1 /\ stale \subseteq stale1
        /\ (e.op = "delBridge" /\ e.br \in nas.known => StaleAfter(nas, e.br) \subseteq stale1)
    BY <2>1, <2>2
  <2>5. Handled(nas, e, t, lost1, stale1, torn, X)
    BY <1>0, <1>3, <2>3, <2>4, HandleKeeps
  <2> QED BY <2>2, <2>5 DEF Handled
<1>12. Follow(t, cps, g)
  BY <1>2, <1>4, <1>5, <1>9, <1>11, IdleFollow
<1>13. Once'
  BY <1>1, <1>2, <1>3, <1>11 DEF Tracked, Once
<1> QED BY <1>1, <1>2, <1>8, <1>12, <1>13 DEF Tracked

(* The rest: deaths, other programs and the LAG manager. *)
LEMMA CrashTracks ==
  ASSUME TypeInv, Tracked, CpsWalkCrash \/ VlanEventCrash
  PROVE  Tracked'
<1>1. UNCHANGED <<nas, cps, history>>
  BY DEF CpsWalkCrash, VlanEventCrash, Take
<1>2. Announced' /\ used' = used
  <2>1. CASE CpsWalkCrash
    BY <2>1 DEF CpsWalkCrash, kernel, Tracked, Once, Announced
  <2>2. CASE VlanEventCrash
    <3>1. queue # <<>> /\ queue' = Tail(queue) /\ used' = used
      BY <2>2 DEF VlanEventCrash, Take
    <3>2. queue \in Seq(Event) /\ Announced
      BY TypeParts DEF TypeInv, KernelType, Tracked, Once
    <3> QED BY <3>1, <3>2, AnnouncedTaken
  <2> QED BY <2>1, <2>2
<1> QED BY <1>1, <1>2 DEF Tracked, Once

LEMMA OtherTracks ==
  ASSUME TypeInv, Tracked, Other
  PROVE  Tracked'
<1>0. KernelType /\ Announced /\ None \notin Bridges
  BY TypeParts, NasVlanLagAssumption DEF TypeInv, Tracked, Once
<1>1. UNCHANGED <<nas, cps, history>>
  BY DEF Other, OtherCreate, OtherDelete, OtherJoin, OtherLeave, BondGone
<1>2. Announced' /\ used \subseteq used'
  <2>1. ASSUME NEW b \in Bridges, OtherCreate(b) PROVE Announced' /\ used \subseteq used'
    BY <1>0, <2>1, KernelAnnounced DEF OtherCreate
  <2>2. ASSUME NEW b \in Bridges, OtherDelete(b) PROVE Announced' /\ used \subseteq used'
    BY <1>0, <2>2, KernelAnnounced DEF OtherDelete
  <2>3. ASSUME NEW b \in Bridges, NEW p \in Members, NEW v \in VidsOf[b] \cup {0},
               OtherJoin(b, p, v)
        PROVE  Announced' /\ used \subseteq used'
    <3>1. v \in MaybeVid
      BY NasVlanLagAssumption DEF MaybeVid
    <3> QED BY <1>0, <2>3, <3>1, KernelAnnounced DEF OtherJoin
  <2>4. ASSUME NEW p \in Members, NEW v \in MaybeVid, OtherLeave(p, v)
        PROVE  Announced' /\ used \subseteq used'
    BY <1>0, <2>4, KernelAnnounced DEF OtherLeave
  <2>5. ASSUME NEW l \in Lags, BondGone(l) PROVE Announced' /\ used \subseteq used'
    <3>1. PICK S : S = {x \in {l} \X MaybeVid : kmem[x] # None}
      OBVIOUS
    <3>2. S \subseteq {x \in Members \X MaybeVid : kmem[x] # None}
      BY <3>1 DEF Members
    <3>3. PICK last : last = <<>>
      OBVIOUS
    <3>4. Release(S, last)
      BY <2>5, <3>1, <3>3 DEF BondGone
    <3>5. last \in Seq(Event) /\ \A i \in 1..Len(last) : last[i].op # "newBridge"
      BY <3>3
    <3> QED BY <1>0, <3>2, <3>4, <3>5, ReleaseAnnounced
  <2> QED BY <2>1, <2>2, <2>3, <2>4, <2>5 DEF Other
<1> QED BY <1>1, <1>2 DEF Tracked, Once

LEMMA ManagerTracks ==
  ASSUME TypeInv, Tracked, LagManager
  PROVE  Tracked'
<1>1. /\ UNCHANGED <<nas, cps, queue>> /\ used \subseteq used'
      /\ history'.torn = history.torn /\ history'.orphaned = history.orphaned
      /\ history'.stale = history.stale /\ history'.lost = history.lost
      /\ history'.doubled = history.doubled
  BY ManagerSays DEF SaysOnly
<1>2. Follow(nas, cps, history')
  <2>1. Missing(nas, cps, history') = Missing(nas, cps, history)
        /\ Stray(nas, cps, history') = Stray(nas, cps, history)
    BY <1>1 DEF Missing, Lacking, Stray, Torn
  <2> QED BY <1>1, <2>1 DEF Tracked, Follow
<1> QED BY <1>1, <1>2 DEF Tracked, Once, Announced

LEMMA FollowInit == Init => FollowInv
<1> SUFFICES ASSUME Init PROVE Tracked
  BY DEF FollowInv
<1>2. /\ cps = Idle /\ queue = <<>> /\ nas.known = {} /\ nas.entries = {}
      /\ nas.npuVlans = {DefaultVlan} /\ nas.npu = [x \in Vids \X Modes |-> {}]
  BY DEF Init
<1>3. Once
  BY <1>2 DEF Once, Announced
<1>4. Matches(nas, history.lost, history.stale, Lacking(history), history.torn \cup history.orphaned)
  <2>1. Sound(nas) /\ Owned(nas, history.lost) /\ Named(nas, history.stale)
    BY <1>2 DEF Sound, Owned, Named
  <2>2. Sharing(nas) = {}
    BY <1>2 DEF Sharing
  <2>3. Clean(nas, history.torn \cup history.orphaned)
        /\ Full(nas, history.lost, history.stale, Lacking(history))
    BY <1>2 DEF Clean, Full
  <2> QED BY <2>1, <2>2, <2>3 DEF Matches
<1>5. cps.item = None /\ cps.br = None
  BY <1>2 DEF Idle
<1> QED BY <1>3, <1>4, <1>5, IdleFollow DEF Tracked

LEMMA FollowNext == CopyInv /\ Marked /\ FollowInv /\ [Next]_vars => FollowInv'
<1> SUFFICES ASSUME CopyInv, Marked, FollowInv, [Next]_vars, spent'.faults = 0 PROVE Tracked'
  BY DEF FollowInv
<1>1. TypeInv /\ TypeInv' /\ SpentType
  BY TypeNext, TypeParts DEF CopyInv, TypeInv
<1>2. /\ \A f : SpendFault(f) => f = "none" /\ spent.faults = 0
      /\ \A f : SpendRequest(f) => f = "none" /\ spent.faults = 0
      /\ SpendTable \/ SpendExternal \/ UNCHANGED spent => spent.faults = 0
  BY <1>1, FaultFree
<1>3. spent.faults = 0 => Tracked
  BY DEF FollowInv
<1>4. CASE LagManager
  <2>1. spent.faults = 0
    BY <1>2, <1>4 DEF LagManager, LagAdd, LagJoin, LagLeave, LagRequest, LagRemove
  <2> QED BY <1>1, <1>3, <1>4, <2>1, ManagerTracks
<1>5. CASE CpsRequest
  <2>1. ASSUME NEW b \in Bridges, NEW v \in VidsOf[b], NEW want, NEW f, CpsCreate(b, v, want, f)
        PROVE  spent.faults = 0 /\ Tracked'
    <3>1. f = "none" /\ spent.faults = 0
      BY <1>2, <2>1 DEF CpsCreate
    <3> QED BY <1>1, <1>3, <2>1, <3>1, CreateTracks
  <2>2. ASSUME NEW b \in Bridges, NEW want, CpsSet(b, want) PROVE spent.faults = 0 /\ Tracked'
    <3>1. spent.faults = 0
      BY <1>2, <2>2 DEF CpsSet
    <3> QED BY <1>1, <1>3, <2>2, <3>1, SetTracks
  <2>3. ASSUME NEW b \in Bridges, NEW f, CpsDelete(b, f) PROVE spent.faults = 0 /\ Tracked'
    <3>1. f = "none" /\ spent.faults = 0
      BY <1>2, <2>3 DEF CpsDelete
    <3> QED BY <1>1, <1>3, <2>3, <3>1, DeleteTracks
  <2>4. spent.faults = 0 /\ Tracked'
    BY <1>5, <2>1, <2>2, <2>3 DEF CpsRequest
  <2> QED BY <2>4
<1>6. CASE Serve
  <2>1. ASSUME NEW w \in cps.work, CpsBegin(w) PROVE spent.faults = 0 /\ Tracked'
    <3>1. spent.faults = 0
      BY <1>2, <2>1 DEF CpsBegin
    <3> QED BY <1>1, <1>3, <2>1, <3>1, BeginTracks
  <2>2. ASSUME NEW w, NEW f, CpsSkip(w, f) PROVE spent.faults = 0 /\ Tracked'
    <3>1. f = "none" /\ spent.faults = 0
      BY <1>2, <2>2 DEF CpsSkip
    <3> QED BY <1>3, <2>2, <3>1, SkipTracks
  <2>3. ASSUME NEW p \in Ports, NEW f, CpsWalk(p, f) PROVE spent.faults = 0 /\ Tracked'
    <3>1. f = "none" /\ spent.faults = 0
      BY <1>2, <2>3 DEF CpsWalk
    <3> QED BY <1>3, <2>3, <3>1, WalkTracks
  <2>4. ASSUME NEW f, CpsEnd(f) PROVE spent.faults = 0 /\ Tracked'
    <3>1. f = "none" /\ spent.faults = 0
      BY <1>2, <2>4 DEF CpsEnd
    <3> QED BY <1>3, <2>4, <3>1, EndTracks
  <2>5. ASSUME CpsWalkCrash PROVE spent.faults = 0 /\ Tracked'
    <3>1. spent.faults = 0
      BY <1>2, <2>5 DEF CpsWalkCrash
    <3> QED BY <1>1, <1>3, <2>5, <3>1, CrashTracks
  <2>6. spent.faults = 0 /\ Tracked'
    BY <1>6, <2>1, <2>2, <2>3, <2>4, <2>5 DEF Serve
  <2> QED BY <2>6
<1>7. ASSUME NEW f, LagEvent(f) PROVE Tracked'
  <2>1. f = "none" /\ spent.faults = 0
    BY <1>2, <1>7 DEF LagEvent
  <2> QED BY <1>1, <1>3, <1>7, <2>1, LagEventTracks
<1>8. ASSUME NEW f, VlanEvent(f) PROVE Tracked'
  <2>1. f = "none" /\ spent.faults = 0
    BY <1>2, <1>8 DEF VlanEvent, Take
  <2> QED BY <1>3, <1>8, <2>1, VlanEventTracks
<1>9. CASE VlanEventCrash
  <2>1. spent.faults = 0
    BY <1>2, <1>9 DEF VlanEventCrash, Take
  <2> QED BY <1>1, <1>3, <1>9, <2>1, CrashTracks
<1>10. CASE Other
  <2>1. spent.faults = 0
    BY <1>2, <1>10 DEF Other, OtherCreate, OtherDelete, OtherJoin, OtherLeave, BondGone
  <2> QED BY <1>1, <1>3, <1>10, <2>1, OtherTracks
<1>11. CASE UNCHANGED vars
  <2>1. UNCHANGED <<nas, cps, history, queue, used, spent>>
    BY <1>11 DEF vars
  <2> QED BY <1>3, <2>1 DEF Tracked, Once, Announced
<1> QED BY <1>4, <1>5, <1>6, <1>7, <1>8, <1>9, <1>10, <1>11 DEF Next, EventThread

LEMMA FollowAlways == Spec => [](CopyInv /\ Marked /\ FollowInv)
<1>1. Init => Marked
  BY DEF Init, Marked, Doubled
<1>2. Init => CopyInv /\ Marked /\ FollowInv
  BY <1>1, CopyInit, FollowInit
<1>3. CopyInv /\ Marked /\ FollowInv /\ [Next]_vars => CopyInv' /\ Marked' /\ FollowInv'
  BY CopyNext, MarkedNext, FollowNext
<1> QED BY <1>2, <1>3, PTL DEF Spec

(* While no walk is going on and no call has failed, every port that        *)
(* lag_list has for a LAG is in the NPU in every VLAN whose id the LAG has: *)
(* the LAG events, which take no lock, the requests that walk the members   *)
(* one by one and the kernel events forget no port between them.  Excused   *)
(* are the VLAN ids and the ports that history names, those that lag_list   *)
(* had in two LAGs among them.                                              *)
THEOREM MembersFollow == Spec => []MembersInVlans
<1>1. ASSUME CopyInv, FollowInv PROVE MembersInVlans
  <2> SUFFICES ASSUME spent.faults = 0, cps.item = None,
                      NEW b \in nas.known, NEW l \in nas.entries, NEW m \in Modes,
                      NEW v, v = nas.vid[b], v \in Vids \cap nas.vlans[<<l, m>>],
                      <<b, l>> \notin history.lost, <<l, m, v>> \notin history.stale
               PROVE  /\ v \in nas.npuVlans
                      /\ \A p \in nas.mem[l] \ nas.npu[<<v, m>>] :
                           <<v, m, p>> \in history.torn \/ p \in history.doubled
    BY DEF MembersInVlans
  <2>1. Matches(nas, history.lost, history.stale, Lacking(history),
                history.torn \cup history.orphaned)
    BY <1>1, IdleFollow DEF FollowInv, Tracked
  <2>2. l \in Lags
    BY <1>1, TypeParts DEF CopyInv, TypeInv, ThreadType, VlanState
  <2>3. v \in nas.npuVlans
    BY <2>1, <2>2 DEF Matches, Owned
  <2>4. \A p \in nas.mem[l] \ nas.npu[<<v, m>>] : <<v, m, p>> \in Lacking(history)
    BY <2>1 DEF Matches, Full
  <2> QED BY <2>3, <2>4 DEF Lacking
<1> QED BY <1>1, FollowAlways, PTL

(* Then also no port is in a VLAN of the NPU for a LAG that has not the     *)
(* VLAN's id or the port, but for the ports of a walk that a LAG event      *)
(* raced and those of LAGs deleted with members.                            *)
THEOREM NoneStray == Spec => []NoStrayMembers
<1>1. ASSUME CopyInv, FollowInv PROVE NoStrayMembers
  <2> SUFFICES ASSUME spent.faults = 0, cps.item = None, NEW v \in Vids, NEW m \in Modes,
                      NEW p \in nas.npu[<<v, m>>]
               PROVE  \/ \E l \in nas.entries : v \in nas.vlans[<<l, m>>] /\ p \in nas.mem[l]
                      \/ <<v, m, p>> \in history.torn \cup history.orphaned
    BY DEF NoStrayMembers
  <2>1. Matches(nas, history.lost, history.stale, Lacking(history),
                history.torn \cup history.orphaned)
    BY <1>1, IdleFollow DEF FollowInv, Tracked
  <2>2. p \in Ports
    BY <1>1, TypeParts DEF CopyInv, TypeInv, ThreadType, VlanState
  <2> QED BY <2>1, <2>2 DEF Matches, Clean
<1> QED BY <1>1, FollowAlways, PTL

-----------------------------------------------------------------------------
(* The kernel's events and the table: as long as no call failed, what the   *)
(* kernel has and the table has not is still in the queue.                  *)

(* A member event of LAG l's interface in VLAN x and bridge b. *)
Says(e, b, l, x) ==
  e.op \in {"addPort", "delPort"} /\ e.br = b /\ e.port = l /\ e.vid = x
Silent(q, b, l, x) == \A i \in 1..Len(q) : ~Says(q[i], b, l, x)
Queued(q, e) == \E i \in 1..Len(q) : q[i] = e

(* The last event of an interface and a bridge says whether it is there; k  *)
(* is the bridge that the interface is in.                                  *)
Agrees(q, b, l, x, k) ==
  \A i \in 1..Len(q) :
    Says(q[i], b, l, x) /\ (\A j \in 1..Len(q) : j > i => ~Says(q[j], b, l, x)) =>
      (q[i].op = "addPort" <=> k = b)

(* No bridge comes after it went. *)
Ends(q, kb) ==
  \A i \in 1..Len(q) : \A b \in Bridges :
    /\ q[i] = BridgeEvent("delBridge", b) => b \notin kb
    /\ q[i] = BridgeEvent("newBridge", b) =>
         b \in kb \/ \E j \in 1..Len(q) : j > i /\ q[j] = BridgeEvent("delBridge", b)

(* An event of a bridge or a member that the kernel has had. *)
Proper(e, us) ==
  /\ e.op \in {"newBridge", "delBridge"} => e = BridgeEvent(e.op, e.br) /\ e.br \in us
  /\ e.op \in {"addPort", "delPort"} => e.port \in us \cup {Phys}

Logged(q, kb, km, us) ==
  /\ \A b \in Bridges, l \in Members, x \in MaybeVid :
       /\ km[<<l, x>>] = b => b \in kb /\ l \in us \cup {Phys}
       /\ Agrees(q, b, l, x, km[<<l, x>>])
  /\ \A i \in 1..Len(q) : Proper(q[i], us)
  /\ Ends(q, kb)

(* What the table has of an interface whose events are handled. *)
Caught(s, b, l, x, k, stale) ==
  LET v == s.vid[b]
  IN /\ v = 0 /\ x = 0 => (k = b <=> l \in s.stored[b])
     /\ v # 0 /\ x \in {0, v} /\ <<l, ModeOf(x), v>> \notin stale =>
          (k = b <=> v \in s.vlans[<<l, ModeOf(x)>>])

(* A bridge without an id has its first tagged members still to come.       *)
Comes(q, b, l, x) == \E i \in 1..Len(q) : Says(q[i], b, l, x) /\ q[i].op = "addPort"
Preceded(q, b, l, x) ==
  \A i \in 1..Len(q) : Says(q[i], b, l, x) /\ q[i].op = "delPort" =>
    \E j \in 1..Len(q) : j < i /\ Says(q[j], b, l, x) /\ q[j].op = "addPort"

Settled(b, l, s, q, km, stale) ==
  /\ \A x \in MaybeVid : Silent(q, b, l, x) => Caught(s, b, l, x, km[<<l, x>>], stale)
  /\ s.vid[b] = 0 =>
       \A x \in Vids : Preceded(q, b, l, x) /\ (km[<<l, x>>] = b => Comes(q, b, l, x))

Deleted(s, q, kb) ==
  \A b \in Bridges :
    /\ b \in s.known /\ b \notin kb => Queued(q, BridgeEvent("delBridge", b))
    /\ b \notin s.known => s.vid[b] = 0 /\ s.stored[b] = {}

(* B and L are the bridges and LAGs that are not gone. *)
Meets(s, q, km, B, L, lost, stale) ==
  \A b \in B, l \in L : <<b, l>> \notin lost => Settled(b, l, s, q, km, stale)

(* What is there or has never been. *)
Present(X, S, us) == {x \in X : x \in S \/ x \notin us}

(* A LAG that a request is adding is in the bridge, or an event says more.  *)
Begun(s, c, q, km) ==
  c.item # None /\ c.item.op = "add" =>
    LET x == IF c.item.mode = "tagged" THEN s.vid[c.br] ELSE 0
    IN Silent(q, c.br, c.item.lag, x) => km[<<c.item.lag, x>>] = c.br

Cleared(s) == \A l \in Lags, m \in Modes : l \notin s.entries => s.vlans[<<l, m>>] = {}

(* A LAG that is gone from the table does not come back. *)
Removed(ps, ls, us) ==
  \A i \in 1..Len(ps) : ps[i].op = "delete" => ps[i].lag \in us \ ls

Given == kbonds \cup lags \cup kbridges \subseteq used /\ Removed(pubs, lags, used)

Heard ==
  /\ Given /\ Cleared(nas)
  /\ Logged(queue, kbridges, kmem, used)
  /\ Deleted(nas, queue, kbridges)
  /\ Begun(nas, cps, queue, kmem)
  /\ Meets(nas, queue, kmem, Present(Bridges, kbridges, used), Present(Lags, lags, used),
           history.lost \cup history.misread, history.stale)

(* As long as no call failed. *)
HeardInv == spent.faults = 0 /\ alive => Heard

-----------------------------------------------------------------------------
(* Sequences of events, appended and taken. *)

(* t is q with a behind it. *)
Behind(t, q, a) ==
  /\ t \in Seq(Event) /\ Len(q) \in Nat /\ Len(a) \in Nat
  /\ Len(t) = Len(q) + Len(a)
  /\ \A i \in 1..Len(q) : i \in 1..Len(t) /\ t[i] = q[i]
  /\ \A i \in 1..Len(a) : Len(q) + i \in 1..Len(t) /\ t[Len(q) + i] = a[i]
  /\ \A i \in 1..Len(t) : i \in 1..Len(q) \/ \E k \in 1..Len(a) : i = Len(q) + k

LEMMA Joined ==
  ASSUME NEW q \in Seq(Event), NEW a \in Seq(Event), NEW t, t = q \o a
  PROVE  Behind(t, q, a)
<1>1. Len(q) \in Nat /\ Len(a) \in Nat
  BY LenProperties
<1>2. /\ t \in Seq(Event) /\ Len(t) = Len(q) + Len(a)
      /\ \A i \in 1..Len(q) + Len(a) : t[i] = IF i <= Len(q) THEN q[i] ELSE a[i - Len(q)]
  BY ConcatProperties
<1>3. ASSUME NEW i \in 1..Len(a)
      PROVE  Len(q) + i \in 1..Len(t) /\ t[Len(q) + i] = a[i]
  <2>1. Len(q) + i \in 1..Len(q) + Len(a) /\ ~(Len(q) + i <= Len(q)) /\ (Len(q) + i) - Len(q) = i
    BY <1>1
  <2> QED BY <1>2, <2>1
<1>4. ASSUME NEW i \in 1..Len(t), i \notin 1..Len(q)
      PROVE  \E k \in 1..Len(a) : i = Len(q) + k
  <2>1. i - Len(q) \in 1..Len(a) /\ i = Len(q) + (i - Len(q))
    BY <1>1, <1>2, <1>4
  <2> QED BY <2>1
<1>5. \A i \in 1..Len(q) : i \in 1..Len(t) /\ t[i] = q[i]
  BY <1>1, <1>2
<1> QED BY <1>1, <1>2, <1>3, <1>4, <1>5 DEF Behind

LEMMA Dropped ==
  ASSUME NEW q \in Seq(Event), q # <<>>, NEW t, t = Tail(q)
  PROVE  /\ t \in Seq(Event) /\ Len(t) \in Nat /\ Len(q) = Len(t) + 1
         /\ Head(q) = q[1] /\ q[1] \in Event /\ 1 \in 1..Len(q)
         /\ \A i \in 1..Len(t) : i + 1 \in 1..Len(q) /\ t[i] = q[i + 1]
         /\ \A i \in 1..Len(q) : i = 1 \/ (i - 1 \in 1..Len(t) /\ t[i - 1] = q[i])
<1>1. /\ t \in Seq(Event) /\ Len(t) = Len(q) - 1 /\ Len(q) \in Nat \ {0}
      /\ Head(q) = q[1] /\ q[1] \in Event /\ \A i \in 1..Len(t) : t[i] = q[i + 1]
  BY HeadTailProperties, LenProperties
<1>2. \A i \in 1..Len(q) : i = 1 \/ (i - 1 \in 1..Len(t) /\ t[i - 1] = q[i])
  BY <1>1
<1>3. \A i \in 1..Len(t) : i + 1 \in 1..Len(q)
  BY <1>1
<1> QED BY <1>1, <1>2, <1>3

LEMMA QueuedJoin ==
  ASSUME NEW q \in Seq(Event), NEW a \in Seq(Event), NEW t, t = q \o a
  PROVE  /\ \A e : Queued(t, e) <=> Queued(q, e) \/ Queued(a, e)
         /\ \A b, p, v : Silent(t, b, p, v) <=> Silent(q, b, p, v) /\ Silent(a, b, p, v)
<1>1. \A i \in 1..Len(q) : i \in 1..Len(t) /\ t[i] = q[i]
  BY Joined DEF Behind
<1>2. \A i \in 1..Len(a) : \E k \in 1..Len(t) : t[k] = a[i]
  <2>1. \A i \in 1..Len(a) : Len(q) + i \in 1..Len(t) /\ t[Len(q) + i] = a[i]
    BY Joined DEF Behind
  <2> QED BY <2>1
<1>3. \A i \in 1..Len(t) : \/ i \in 1..Len(q)
                           \/ \E k \in 1..Len(a) : t[i] = a[k]
  <2>1. \A i \in 1..Len(t) : i \in 1..Len(q) \/ \E k \in 1..Len(a) : i = Len(q) + k
    BY Joined DEF Behind
  <2>2. \A k \in 1..Len(a) : t[Len(q) + k] = a[k]
    BY Joined DEF Behind
  <2> QED BY <2>1, <2>2
<1>4. ASSUME NEW e PROVE Queued(t, e) <=> Queued(q, e) \/ Queued(a, e)
  <2>1. Queued(t, e) => Queued(q, e) \/ Queued(a, e)
    BY <1>1, <1>3 DEF Queued
  <2>2. Queued(q, e) \/ Queued(a, e) => Queued(t, e)
    BY <1>1, <1>2 DEF Queued
  <2> QED BY <2>1, <2>2
<1>5. ASSUME NEW b, NEW p, NEW v
      PROVE  Silent(t, b, p, v) <=> Silent(q, b, p, v) /\ Silent(a, b, p, v)
  <2>1. Silent(t, b, p, v) => Silent(q, b, p, v) /\ Silent(a, b, p, v)
    BY <1>1, <1>2 DEF Silent
  <2>2. Silent(q, b, p, v) /\ Silent(a, b, p, v) => Silent(t, b, p, v)
    BY <1>1, <1>3 DEF Silent
  <2> QED BY <2>1, <2>2
<1> QED BY <1>4, <1>5

(* What is appended tells the new state of the interface, or is not about    *)
(* it.                                                                       *)
LEMMA AgreesJoin ==
  ASSUME NEW q \in Seq(Event), NEW a \in Seq(Event), NEW t, t = q \o a,
         NEW b, NEW p, NEW v, NEW m, NEW n,
         Agrees(q, b, p, v, m), Agrees(a, b, p, v, n),
         Silent(a, b, p, v) => (n = b <=> m = b)
  PROVE  Agrees(t, b, p, v, n)
<1> SUFFICES ASSUME NEW i \in 1..Len(t), Says(t[i], b, p, v),
                    \A j \in 1..Len(t) : j > i => ~Says(t[j], b, p, v)
             PROVE  t[i].op = "addPort" <=> n = b
  BY DEF Agrees
<1>1. /\ Len(q) \in Nat /\ Len(a) \in Nat
      /\ \A j \in 1..Len(q) : j \in 1..Len(t) /\ t[j] = q[j]
      /\ \A j \in 1..Len(a) : Len(q) + j \in 1..Len(t) /\ t[Len(q) + j] = a[j]
      /\ i \in 1..Len(q) \/ \E k \in 1..Len(a) : i = Len(q) + k
  BY Joined DEF Behind
<1>2. CASE i \in 1..Len(q)
  <2>1. ASSUME NEW k \in 1..Len(a) PROVE ~Says(a[k], b, p, v)
    <3>1. Len(q) + k > i
      BY <1>1, <1>2
    <3> QED BY <1>1, <3>1
  <2>2. Says(q[i], b, p, v) /\ \A j \in 1..Len(q) : j > i => ~Says(q[j], b, p, v)
    BY <1>1, <1>2
  <2>3. q[i].op = "addPort" <=> m = b
    BY <1>2, <2>2 DEF Agrees
  <2> QED BY <1>1, <1>2, <2>1, <2>3 DEF Silent
<1>3. ASSUME NEW k \in 1..Len(a), i = Len(q) + k PROVE t[i].op = "addPort" <=> n = b
  <2>1. ASSUME NEW j \in 1..Len(a), j > k PROVE ~Says(a[j], b, p, v)
    <3>1. Len(q) + j > i
      BY <1>1, <1>3, <2>1
    <3> QED BY <1>1, <3>1
  <2>2. Says(a[k], b, p, v)
    BY <1>1, <1>3
  <2>3. a[k].op = "addPort" <=> n = b
    BY <2>1, <2>2 DEF Agrees
  <2> QED BY <1>1, <1>3, <2>3
<1> QED BY <1>1, <1>2, <1>3

LEMMA TakenFacts ==
  ASSUME NEW q \in Seq(Event), q # <<>>, NEW t, t = Tail(q)
  PROVE  /\ \A e : Queued(q, e) <=> e = Head(q) \/ Queued(t, e)
         /\ \A b, p, v : Silent(q, b, p, v) <=> ~Says(Head(q), b, p, v) /\ Silent(t, b, p, v)
<1>1. /\ Head(q) = q[1] /\ 1 \in 1..Len(q)
      /\ \A i \in 1..Len(t) : i + 1 \in 1..Len(q) /\ t[i] = q[i + 1]
      /\ \A i \in 1..Len(q) : i = 1 \/ (i - 1 \in 1..Len(t) /\ t[i - 1] = q[i])
  BY Dropped
<1>2. \A i \in 1..Len(t) : \E k \in 1..Len(q) : q[k] = t[i]
  BY <1>1
<1>3. \A i \in 1..Len(q) : q[i] = Head(q) \/ \E k \in 1..Len(t) : t[k] = q[i]
  BY <1>1
<1>4. ASSUME NEW e PROVE Queued(q, e) <=> e = Head(q) \/ Queued(t, e)
  <2>1. Queued(q, e) => e = Head(q) \/ Queued(t, e)
    BY <1>3 DEF Queued
  <2>2. e = Head(q) \/ Queued(t, e) => Queued(q, e)
    BY <1>1, <1>2 DEF Queued
  <2> QED BY <2>1, <2>2
<1>5. ASSUME NEW b, NEW p, NEW v
      PROVE  Silent(q, b, p, v) <=> ~Says(Head(q), b, p, v) /\ Silent(t, b, p, v)
  <2>1. Silent(q, b, p, v) => ~Says(Head(q), b, p, v) /\ Silent(t, b, p, v)
    BY <1>1, <1>2 DEF Silent
  <2>2. ~Says(Head(q), b, p, v) /\ Silent(t, b, p, v) => Silent(q, b, p, v)
    BY <1>3 DEF Silent
  <2> QED BY <2>1, <2>2
<1> QED BY <1>4, <1>5

(* An event no later one corrects tells what the kernel has.                 *)
LastTells(e, t, b, p, v, k) ==
  Says(e, b, p, v) /\ Silent(t, b, p, v) => (e.op = "addPort" <=> k = b)

(* The event taken was the last of its interface, or the rest still agrees.  *)
LEMMA AgreesTaken ==
  ASSUME NEW q \in Seq(Event), q # <<>>, NEW t, t = Tail(q),
         NEW b, NEW p, NEW v, NEW k, Agrees(q, b, p, v, k)
  PROVE  Agrees(t, b, p, v, k) /\ LastTells(Head(q), t, b, p, v, k)
<1>1. /\ Len(t) \in Nat /\ Len(q) = Len(t) + 1 /\ Head(q) = q[1] /\ 1 \in 1..Len(q)
      /\ \A i \in 1..Len(t) : i + 1 \in 1..Len(q) /\ t[i] = q[i + 1]
      /\ \A i \in 1..Len(q) : i = 1 \/ (i - 1 \in 1..Len(t) /\ t[i - 1] = q[i])
  BY Dropped
<1>2. ASSUME NEW i \in 1..Len(t), Says(t[i], b, p, v),
             \A j \in 1..Len(t) : j > i => ~Says(t[j], b, p, v)
      PROVE  t[i].op = "addPort" <=> k = b
  <2>1. ASSUME NEW j \in 1..Len(q), j > i + 1 PROVE ~Says(q[j], b, p, v)
    <3>1. j - 1 \in 1..Len(t) /\ t[j - 1] = q[j] /\ j - 1 > i
      BY <1>1, <2>1
    <3> QED BY <1>2, <3>1
  <2>2. i + 1 \in 1..Len(q) /\ q[i + 1] = t[i]
    BY <1>1
  <2> QED BY <1>2, <2>1, <2>2 DEF Agrees
<1>3. ASSUME Says(Head(q), b, p, v), Silent(t, b, p, v) PROVE Head(q).op = "addPort" <=> k = b
  <2>1. \A j \in 1..Len(q) : j > 1 => ~Says(q[j], b, p, v)
    <3> SUFFICES ASSUME NEW j \in 1..Len(q), j > 1 PROVE ~Says(q[j], b, p, v)
      OBVIOUS
    <3>1. j - 1 \in 1..Len(t) /\ t[j - 1] = q[j]
      BY <1>1
    <3> QED BY <1>3, <3>1 DEF Silent
  <2> QED BY <1>1, <1>3, <2>1 DEF Agrees
<1>4. LastTells(Head(q), t, b, p, v, k)
  BY <1>3 DEF LastTells
<1>5. Agrees(t, b, p, v, k)
  BY <1>2 DEF Agrees
<1> QED BY <1>4, <1>5
-----------------------------------------------------------------------------
(* What the kernel reports is what changed.                                  *)

(* The events of a about an interface that was in m and is in n.             *)
Tells(a, b, l, x, m, n) ==
  /\ Agrees(a, b, l, x, n)
  /\ Silent(a, b, l, x) => (n = b <=> m = b)
  /\ n = b => m = b \/ Comes(a, b, l, x)
  /\ \A i \in 1..Len(a) : Says(a[i], b, l, x) /\ a[i].op = "delPort" => m = b

Reports(a) ==
  /\ a \in Seq(Event) /\ queue' = queue \o a /\ used \subseteq used'
  /\ \A b \in Bridges, l \in Members, x \in MaybeVid :
       /\ kmem'[<<l, x>>] = b => b \in kbridges' /\ l \in used' \cup {Phys}
       /\ Tells(a, b, l, x, kmem[<<l, x>>], kmem'[<<l, x>>])
  /\ \A i \in 1..Len(a) : Proper(a[i], used')
  /\ \A b \in Bridges :
       /\ Queued(a, BridgeEvent("delBridge", b)) => b \notin kbridges'
       /\ Queued(a, BridgeEvent("newBridge", b)) => b \in kbridges'
       /\ b \in kbridges' => b \in kbridges \/ b \notin used
       /\ b \in kbridges /\ b \notin kbridges' => Queued(a, BridgeEvent("delBridge", b))

LEMMA BridgeEvents ==
  /\ \A b, c : /\ BridgeEvent("delBridge", b) = BridgeEvent("delBridge", c) => b = c
               /\ BridgeEvent("newBridge", b) = BridgeEvent("newBridge", c) => b = c
               /\ BridgeEvent("newBridge", b) # BridgeEvent("delBridge", c)
  /\ \A b, c, p, v, op : op \in {"addPort", "delPort"} =>
       /\ PortEvent(op, b, p, v) # BridgeEvent("newBridge", c)
       /\ PortEvent(op, b, p, v) # BridgeEvent("delBridge", c)
  /\ \A b, c, p, v, op : op \in {"newBridge", "delBridge"} => ~Says(BridgeEvent(op, b), c, p, v)
  /\ \A b, c, p, x, v, w, op : op \in {"addPort", "delPort"} =>
       (Says(PortEvent(op, b, p, v), c, x, w) <=> b = c /\ p = x /\ v = w)
  /\ \A b, p, v, op, us : op \in {"addPort", "delPort"} /\ p \in us \cup {Phys} =>
       Proper(PortEvent(op, b, p, v), us)
  /\ \A b, op, us : op \in {"newBridge", "delBridge"} /\ b \in us =>
       Proper(BridgeEvent(op, b), us)
BY DEF BridgeEvent, PortEvent, Says, Proper

(* No event, one or two. *)
LEMMA NoEvents ==
  /\ <<>> \in Seq(Event) /\ Len(<<>>) = 0
  /\ \A b, l, x, m, n : (n = b <=> m = b) => Tells(<<>>, b, l, x, m, n)
  /\ \A e : ~Queued(<<>>, e)
BY EmptySeq DEF Tells, Agrees, Silent, Queued

(* What an event about the interface says, or none that it has not moved.    *)
Reads(e, b, l, x, m, n) ==
  IF Says(e, b, l, x) THEN (IF e.op = "addPort" THEN n = b ELSE m = b /\ n # b)
                      ELSE n = b <=> m = b

LEMMA OneEvent ==
  ASSUME NEW e \in Event, NEW t, t = <<e>>
  PROVE  /\ t \in Seq(Event) /\ \A i \in 1..Len(t) : t[i] = e
         /\ \A b, l, x, m, n : Reads(e, b, l, x, m, n) => Tells(t, b, l, x, m, n)
         /\ \A d : Queued(t, d) <=> d = e
<1>1. t \in Seq(Event) /\ Len(t) = 1 /\ t[1] = e /\ 1..Len(t) = {1}
  OBVIOUS
<1>2. \A d : Queued(t, d) <=> d = e
  BY <1>1 DEF Queued
<1>3. ASSUME NEW b, NEW l, NEW x, NEW m, NEW n, Reads(e, b, l, x, m, n)
      PROVE  Tells(t, b, l, x, m, n)
  <2>1. Says(e, b, l, x) => e.op \in {"addPort", "delPort"}
    BY DEF Says
  <2>2. Agrees(t, b, l, x, n)
    BY <1>1, <1>3, <2>1 DEF Agrees, Reads
  <2>3. Silent(t, b, l, x) => (n = b <=> m = b)
    BY <1>1, <1>3 DEF Silent, Reads
  <2>4. n = b => m = b \/ Comes(t, b, l, x)
    BY <1>1, <1>3 DEF Comes, Reads
  <2>5. \A i \in 1..Len(t) : Says(t[i], b, l, x) /\ t[i].op = "delPort" => m = b
    BY <1>1, <1>3 DEF Reads
  <2> QED BY <2>2, <2>3, <2>4, <2>5 DEF Tells
<1> QED BY <1>1, <1>2, <1>3

LEMMA TwoEvents ==
  ASSUME NEW d \in Event, NEW e \in Event, NEW t, t = <<d, e>>
  PROVE  /\ t \in Seq(Event) /\ \A i \in 1..Len(t) : t[i] \in {d, e}
         /\ \A b, l, x, m, n :
              (IF Says(d, b, l, x) THEN ~Says(e, b, l, x) /\ Reads(d, b, l, x, m, n)
                                   ELSE Reads(e, b, l, x, m, n)) => Tells(t, b, l, x, m, n)
         /\ \A f : Queued(t, f) <=> f \in {d, e}
<1>1. t \in Seq(Event) /\ Len(t) = 2 /\ 1..Len(t) = {1, 2} /\ t[1] = d /\ t[2] = e
  OBVIOUS
<1>2. \A f : Queued(t, f) <=> f \in {d, e}
  BY <1>1 DEF Queued
<1>3. ASSUME NEW b, NEW l, NEW x, NEW m, NEW n,
             IF Says(d, b, l, x) THEN ~Says(e, b, l, x) /\ Reads(d, b, l, x, m, n)
                                 ELSE Reads(e, b, l, x, m, n)
      PROVE  Tells(t, b, l, x, m, n)
  <2>1. /\ Says(d, b, l, x) => d.op \in {"addPort", "delPort"}
        /\ Says(e, b, l, x) => e.op \in {"addPort", "delPort"}
    BY DEF Says
  <2>2. Agrees(t, b, l, x, n)
    BY <1>1, <1>3, <2>1 DEF Agrees, Reads
  <2>3. Silent(t, b, l, x) => (n = b <=> m = b)
    BY <1>1, <1>3 DEF Silent, Reads
  <2>4. n = b => m = b \/ Comes(t, b, l, x)
    BY <1>1, <1>3 DEF Comes, Reads
  <2>5. \A i \in 1..Len(t) : Says(t[i], b, l, x) /\ t[i].op = "delPort" => m = b
    BY <1>1, <1>3 DEF Reads
  <2> QED BY <2>2, <2>3, <2>4, <2>5 DEF Tells
<1> QED BY <1>1, <1>2, <1>3

(* The kernel has what it says. *)
KernelKnows == KernelType /\ Logged(queue, kbridges, kmem, used) /\ kbridges \subseteq used

LEMMA CreateReports ==
  ASSUME KernelKnows, NEW b \in Bridges, KernelCreate(b)
  PROVE  \E a : Reports(a)
<1>1. PICK e : e = BridgeEvent("newBridge", b)
  OBVIOUS
<1>2. PICK a : a = <<e>>
  OBVIOUS
<1>3. e \in Event /\ Proper(e, used \cup {b})
  BY <1>1, EventTypes, BridgeEvents
<1>4. /\ kmem' = kmem /\ b \notin used /\ kbridges' = kbridges \cup {b} /\ used' = used \cup {b}
      /\ queue' = queue \o a
  <2>1. queue \in Seq(Event)
    BY DEF KernelKnows, KernelType
  <2> QED BY <1>1, <1>2, <1>3, <2>1, AppendIsConcat DEF KernelCreate
<1>5. /\ a \in Seq(Event) /\ \A i \in 1..Len(a) : a[i] = e
      /\ \A c, l, x, m, n : Reads(e, c, l, x, m, n) => Tells(a, c, l, x, m, n)
      /\ \A d : Queued(a, d) <=> d = e
  BY <1>2, <1>3, OneEvent
<1>6. ASSUME NEW c \in Bridges, NEW l \in Members, NEW x \in MaybeVid
      PROVE  /\ kmem'[<<l, x>>] = c => c \in kbridges' /\ l \in used' \cup {Phys}
             /\ Tells(a, c, l, x, kmem[<<l, x>>], kmem'[<<l, x>>])
  <2>1. ~Says(e, c, l, x)
    BY <1>1, BridgeEvents
  <2>2. Reads(e, c, l, x, kmem[<<l, x>>], kmem'[<<l, x>>])
    BY <1>4, <2>1 DEF Reads
  <2>3. kmem[<<l, x>>] = c => c \in kbridges /\ l \in used \cup {Phys}
    BY DEF KernelKnows, Logged
  <2> QED BY <1>4, <1>5, <2>2, <2>3
<1>7. \A c : e # BridgeEvent("delBridge", c) /\ (e = BridgeEvent("newBridge", c) => c = b)
  BY <1>1, BridgeEvents
<1>8. \A c \in Bridges :
        /\ Queued(a, BridgeEvent("delBridge", c)) => c \notin kbridges'
        /\ Queued(a, BridgeEvent("newBridge", c)) => c \in kbridges'
        /\ c \in kbridges' => c \in kbridges \/ c \notin used
        /\ c \in kbridges /\ c \notin kbridges' => Queued(a, BridgeEvent("delBridge", c))
  BY <1>4, <1>5, <1>7
<1>9. \A i \in 1..Len(a) : Proper(a[i], used')
  BY <1>3, <1>4, <1>5
<1> QED BY <1>4, <1>5, <1>6, <1>8, <1>9 DEF Reports

(* Only an interface is moved. *)
Moves(a) ==
  /\ a \in Seq(Event) /\ queue' = queue \o a
  /\ \A b \in Bridges, l \in Members, x \in MaybeVid :
       /\ kmem'[<<l, x>>] = b => b \in kbridges /\ l \in used \cup {Phys}
       /\ Tells(a, b, l, x, kmem[<<l, x>>], kmem'[<<l, x>>])
  /\ \A i \in 1..Len(a) : Proper(a[i], used)
  /\ \A b : ~Queued(a, BridgeEvent("delBridge", b)) /\ ~Queued(a, BridgeEvent("newBridge", b))

LEMMA MovesReports ==
  ASSUME UNCHANGED <<kbridges, used>>, NEW a, Moves(a)
  PROVE  Reports(a)
BY DEF Moves, Reports

LEMMA JoinReports ==
  ASSUME KernelKnows, NEW b \in kbridges, NEW p \in Members, p \in used \cup {Phys},
         NEW v \in MaybeVid, KernelJoin(b, p, v)
  PROVE  /\ \E a : Reports(a)
         /\ UNCHANGED <<kbridges, used>> /\ kmem'[<<p, v>>] = b
<1>0. b \in Bridges /\ b # None /\ None \notin Bridges
  BY NasVlanLagAssumption DEF KernelKnows, KernelType
<1>1. PICK old : old = kmem[<<p, v>>]
  OBVIOUS
<1>2. PICK joined, left : /\ joined = PortEvent("addPort", b, p, v)
                          /\ left = PortEvent("delPort", old, p, v)
  OBVIOUS
<1>3. /\ kmem \in [Members \X MaybeVid -> MaybeBridge] /\ queue \in Seq(Event)
      /\ old \in MaybeBridge
  BY <1>1 DEF KernelKnows, KernelType
<1>4. /\ kmem' = [kmem EXCEPT ![<<p, v>>] = b] /\ UNCHANGED <<kbridges, used>>
  BY DEF KernelJoin
<1>5. /\ kmem'[<<p, v>>] = b
      /\ \A l \in Members, x \in MaybeVid : <<l, x>> # <<p, v>> => kmem'[<<l, x>>] = kmem[<<l, x>>]
  BY <1>3, <1>4
<1>6. \A c \in Bridges, l \in Members, x \in MaybeVid :
        kmem'[<<l, x>>] = c => c \in kbridges /\ l \in used \cup {Phys}
  BY <1>5 DEF KernelKnows, Logged
<1>7. /\ joined \in Event /\ joined.op = "addPort" /\ Proper(joined, used)
      /\ old # None => left \in Event
      /\ left.op = "delPort" /\ Proper(left, used)
  BY <1>0, <1>2, <1>3, EventTypes, BridgeEvents DEF PortEvent, MaybeBridge
<1>8. /\ \A c : /\ joined # BridgeEvent("newBridge", c) /\ joined # BridgeEvent("delBridge", c)
                /\ left # BridgeEvent("newBridge", c) /\ left # BridgeEvent("delBridge", c)
      /\ \A c, l, x : /\ Says(joined, c, l, x) <=> b = c /\ p = l /\ v = x
                      /\ Says(left, c, l, x) <=> old = c /\ p = l /\ v = x
  BY <1>2, BridgeEvents
<1>9. CASE old = b
  <2>1. queue' = queue \o <<>>
    BY <1>0, <1>1, <1>3, <1>9, ConcatEmptySeq DEF KernelJoin
  <2>2. \A l \in Members, x \in MaybeVid : kmem'[<<l, x>>] = kmem[<<l, x>>]
    BY <1>1, <1>5, <1>9
  <2>3. \A c \in Bridges, l \in Members, x \in MaybeVid :
          Tells(<<>>, c, l, x, kmem[<<l, x>>], kmem'[<<l, x>>])
    BY <2>2, NoEvents
  <2>4. Moves(<<>>)
    BY <1>6, <2>1, <2>3, NoEvents DEF Moves
  <2> QED BY <1>4, <1>5, <2>4, MovesReports
<1>10. CASE old = None
  <2>1. PICK a : a = <<joined>>
    OBVIOUS
  <2>2. queue' = queue \o a
    BY <1>0, <1>1, <1>2, <1>3, <1>7, <1>10, <2>1, AppendIsConcat DEF KernelJoin
  <2>3. /\ a \in Seq(Event) /\ \A i \in 1..Len(a) : a[i] = joined
        /\ \A c, l, x, m, n : Reads(joined, c, l, x, m, n) => Tells(a, c, l, x, m, n)
        /\ \A d : Queued(a, d) <=> d = joined
    BY <1>7, <2>1, OneEvent
  <2>4. ASSUME NEW c \in Bridges, NEW l \in Members, NEW x \in MaybeVid
        PROVE  Tells(a, c, l, x, kmem[<<l, x>>], kmem'[<<l, x>>])
    <3>1. CASE l = p /\ x = v
      <4>1. kmem[<<l, x>>] = None /\ kmem'[<<l, x>>] = b /\ c # None
        BY <1>0, <1>1, <1>5, <1>10, <3>1
      <4>2. Says(joined, c, l, x) <=> b = c
        BY <1>8, <3>1
      <4>3. Reads(joined, c, l, x, None, b)
        BY <1>7, <4>1, <4>2 DEF Reads
      <4> QED BY <2>3, <4>1, <4>3
    <3>2. CASE ~(l = p /\ x = v)
      <4>1. kmem'[<<l, x>>] = kmem[<<l, x>>] /\ ~Says(joined, c, l, x)
        BY <1>5, <1>8, <3>2
      <4> QED BY <2>3, <4>1 DEF Reads
    <3> QED BY <3>1, <3>2
  <2>5. Moves(a)
    BY <1>6, <1>7, <1>8, <2>2, <2>3, <2>4 DEF Moves
  <2> QED BY <1>4, <1>5, <2>5, MovesReports
<1>11. CASE old \notin {b, None}
  <2>1. PICK a : a = <<left, joined>>
    OBVIOUS
  <2>2. queue' = queue \o a
    BY <1>1, <1>2, <1>11, <2>1 DEF KernelJoin
  <2>3. /\ a \in Seq(Event) /\ \A i \in 1..Len(a) : a[i] \in {left, joined}
        /\ \A c, l, x, m, n :
             (IF Says(left, c, l, x) THEN ~Says(joined, c, l, x) /\ Reads(left, c, l, x, m, n)
                                     ELSE Reads(joined, c, l, x, m, n)) => Tells(a, c, l, x, m, n)
        /\ \A d : Queued(a, d) <=> d \in {left, joined}
    BY <1>7, <1>11, <2>1, TwoEvents
  <2>4. ASSUME NEW c \in Bridges, NEW l \in Members, NEW x \in MaybeVid
        PROVE  Tells(a, c, l, x, kmem[<<l, x>>], kmem'[<<l, x>>])
    <3>1. CASE l = p /\ x = v
      <4>1. kmem[<<l, x>>] = old /\ kmem'[<<l, x>>] = b
        BY <1>1, <1>5, <3>1
      <4>2. CASE c = old
        <5>1. Says(left, c, l, x) /\ ~Says(joined, c, l, x)
          BY <1>8, <1>11, <3>1, <4>2
        <5>2. Reads(left, c, l, x, old, b)
          BY <1>7, <1>11, <4>2, <5>1 DEF Reads
        <5> QED BY <2>3, <4>1, <5>1, <5>2
      <4>3. CASE c # old
        <5>1. ~Says(left, c, l, x) /\ (Says(joined, c, l, x) <=> b = c)
          BY <1>8, <3>1, <4>3
        <5>2. Reads(joined, c, l, x, old, b)
          BY <1>7, <4>3, <5>1 DEF Reads
        <5> QED BY <2>3, <4>1, <5>1, <5>2
      <4> QED BY <4>2, <4>3
    <3>2. CASE ~(l = p /\ x = v)
      <4>1. kmem'[<<l, x>>] = kmem[<<l, x>>] /\ ~Says(joined, c, l, x) /\ ~Says(left, c, l, x)
        BY <1>5, <1>8, <3>2
      <4> QED BY <2>3, <4>1 DEF Reads
    <3> QED BY <3>1, <3>2
  <2>5. Moves(a)
    BY <1>6, <1>7, <1>8, <2>2, <2>3, <2>4 DEF Moves
  <2> QED BY <1>4, <1>5, <2>5, MovesReports
<1> QED BY <1>9, <1>10, <1>11

LEMMA LeaveReports ==
  ASSUME KernelKnows, NEW p \in Members, NEW v \in MaybeVid, KernelLeave(p, v)
  PROVE  /\ \E a : Reports(a)
         /\ UNCHANGED <<kbridges, used>> /\ kmem'[<<p, v>>] = None
<1>0. None \notin Bridges
  BY NasVlanLagAssumption
<1>1. PICK old : old = kmem[<<p, v>>]
  OBVIOUS
<1>2. PICK left : left = PortEvent("delPort", old, p, v)
  OBVIOUS
<1>3. /\ kmem \in [Members \X MaybeVid -> MaybeBridge] /\ queue \in Seq(Event)
      /\ old \in MaybeBridge
  BY <1>1 DEF KernelKnows, KernelType
<1>4. /\ kmem' = [kmem EXCEPT ![<<p, v>>] = None] /\ UNCHANGED <<kbridges, used>>
  BY DEF KernelLeave
<1>5. /\ kmem'[<<p, v>>] = None
      /\ \A l \in Members, x \in MaybeVid : <<l, x>> # <<p, v>> => kmem'[<<l, x>>] = kmem[<<l, x>>]
  BY <1>3, <1>4
<1>6. \A c \in Bridges, l \in Members, x \in MaybeVid :
        kmem'[<<l, x>>] = c => c \in kbridges /\ l \in used \cup {Phys}
  BY <1>0, <1>5 DEF KernelKnows, Logged
<1>7. CASE old = None
  <2>1. queue' = queue \o <<>>
    BY <1>1, <1>3, <1>7, ConcatEmptySeq DEF KernelLeave
  <2>2. \A l \in Members, x \in MaybeVid : kmem'[<<l, x>>] = kmem[<<l, x>>]
    BY <1>1, <1>5, <1>7
  <2>3. \A c \in Bridges, l \in Members, x \in MaybeVid :
          Tells(<<>>, c, l, x, kmem[<<l, x>>], kmem'[<<l, x>>])
    BY <2>2, NoEvents
  <2>4. Moves(<<>>)
    BY <1>6, <2>1, <2>3, NoEvents DEF Moves
  <2> QED BY <1>4, <1>5, <2>4, MovesReports
<1>8. CASE old # None
  <2>1. old \in Bridges /\ p \in used \cup {Phys}
    BY <1>1, <1>3, <1>8 DEF MaybeBridge, KernelKnows, Logged
  <2>2. left \in Event /\ left.op = "delPort" /\ Proper(left, used)
    BY <1>2, <2>1, EventTypes, BridgeEvents DEF PortEvent
  <2>3. /\ \A c : left # BridgeEvent("newBridge", c) /\ left # BridgeEvent("delBridge", c)
        /\ \A c, l, x : Says(left, c, l, x) <=> old = c /\ p = l /\ v = x
    BY <1>2, BridgeEvents
  <2>4. PICK a : a = <<left>>
    OBVIOUS
  <2>5. queue' = queue \o a
    BY <1>1, <1>2, <1>3, <1>8, <2>2, <2>4, AppendIsConcat DEF KernelLeave
  <2>6. /\ a \in Seq(Event) /\ \A i \in 1..Len(a) : a[i] = left
        /\ \A c, l, x, m, n : Reads(left, c, l, x, m, n) => Tells(a, c, l, x, m, n)
        /\ \A d : Queued(a, d) <=> d = left
    BY <2>2, <2>4, OneEvent
  <2>7. ASSUME NEW c \in Bridges, NEW l \in Members, NEW x \in MaybeVid
        PROVE  Tells(a, c, l, x, kmem[<<l, x>>], kmem'[<<l, x>>])
    <3>1. CASE l = p /\ x = v
      <4>1. kmem[<<l, x>>] = old /\ kmem'[<<l, x>>] = None /\ c # None
        BY <1>0, <1>1, <1>5, <3>1
      <4>2. Says(left, c, l, x) <=> old = c
        BY <2>3, <3>1
      <4>3. Reads(left, c, l, x, old, None)
        BY <2>2, <4>1, <4>2 DEF Reads
      <4> QED BY <2>6, <4>1, <4>3
    <3>2. CASE ~(l = p /\ x = v)
      <4>1. kmem'[<<l, x>>] = kmem[<<l, x>>] /\ ~Says(left, c, l, x)
        BY <1>5, <2>3, <3>2
      <4> QED BY <2>6, <4>1 DEF Reads
    <3> QED BY <3>1, <3>2
  <2>8. Moves(a)
    BY <1>6, <2>2, <2>3, <2>5, <2>6, <2>7 DEF Moves
  <2> QED BY <1>4, <1>5, <2>8, MovesReports
<1> QED BY <1>7, <1>8
(* The interfaces that leave, each with its event. *)
Leaving(x) == PortEvent("delPort", kmem[x], x[1], x[2])

LEMMA ReleaseSays ==
  ASSUME KernelType, NEW S, S \subseteq {x \in Members \X MaybeVid : kmem[x] # None},
         NEW last \in Seq(Event), Release(S, last)
  PROVE  \E a \in Seq(Event) :
           /\ queue' = queue \o a
           /\ \A d : Queued(a, d) <=> Queued(last, d) \/ \E x \in S : d = Leaving(x)
<1>1. IsFiniteSet(S)
  <2>1. IsFiniteSet(Members) /\ IsFiniteSet(MaybeVid)
    BY NasVlanLagAssumption, FS_Singleton, FS_Union DEF Members, MaybeVid
  <2>2. IsFiniteSet(Members \X MaybeVid)
    BY <2>1, FS_Product
  <2> QED BY <2>2, FS_Subset
<1> DEFINE n == Cardinality(S)
<1>2. n \in Nat
  BY <1>1, FS_CardinalityType
<1>3. PICK order \in SetToSeqs(S) :
        queue' = queue \o [i \in 1..n |->
                             PortEvent("delPort", kmem[order[i]], order[i][1], order[i][2])]
                       \o last
  BY DEF Release
<1>4. order \in [1..n -> S] /\ \A i, j \in 1..n : i # j => order[i] # order[j]
  BY Zenon DEF SetToSeqs
<1>5. \A x \in S : \E i \in 1..n : order[i] = x
  <2>1. order \in Injection(1..n, S)
    BY <1>4 DEF Injection, IsInjective
  <2>2. IsFiniteSet(1..n) /\ Cardinality(1..n) = n
    BY <1>2, FS_Interval
  <2>3. order \in Surjection(1..n, S)
    BY <1>1, <2>1, <2>2, FS_Injection
  <2> QED BY <2>3 DEF Surjection
<1> HIDE DEF n
<1>6. PICK E : E = [i \in 1..n |->
                      PortEvent("delPort", kmem[order[i]], order[i][1], order[i][2])]
  OBVIOUS
<1>7. \A i \in 1..n : order[i] \in S /\ E[i] = Leaving(order[i])
  BY <1>4, <1>6 DEF Leaving
<1>8. ASSUME NEW i \in 1..n PROVE E[i] \in Event
  <2>1. order[i] \in Members \X MaybeVid /\ kmem[order[i]] \in Bridges
    BY <1>7 DEF KernelType, MaybeBridge
  <2> QED BY <1>7, <2>1, EventTypes DEF Leaving
<1>9. E \in Seq(Event) /\ Len(E) = n
  BY <1>2, <1>6, <1>8
<1>10. \A d : Queued(E, d) <=> \E x \in S : d = Leaving(x)
  <2>1. ASSUME NEW d, Queued(E, d) PROVE \E x \in S : d = Leaving(x)
    BY <1>7, <1>9, <2>1 DEF Queued
  <2>2. ASSUME NEW x \in S PROVE Queued(E, Leaving(x))
    <3>1. PICK i \in 1..n : order[i] = x
      BY <1>5
    <3>2. E[i] = Leaving(x)
      BY <1>7, <3>1
    <3> QED BY <1>9, <3>2 DEF Queued
  <2> QED BY <2>1, <2>2
<1>11. PICK a : a = E \o last
  OBVIOUS
<1>12. a \in Seq(Event) /\ queue' = queue \o a
  <2>1. queue \in Seq(Event) /\ queue' = (queue \o E) \o last
    BY <1>3, <1>6 DEF KernelType
  <2> QED BY <1>9, <1>11, <2>1, ConcatProperties, ConcatAssociative
<1>13. \A d : Queued(a, d) <=> Queued(E, d) \/ Queued(last, d)
  BY <1>9, <1>11, QueuedJoin
<1> QED BY <1>10, <1>12, <1>13

(* The bridges that go with the interfaces of S, and their events. *)
Going(gone, S, last) ==
  /\ gone \subseteq kbridges /\ kbridges' = kbridges \ gone
  /\ \A d : Queued(last, d) <=> \E b \in gone : d = BridgeEvent("delBridge", b)
  /\ \A x \in Members \X MaybeVid : kmem[x] \in gone => x \in S

LEMMA ReleaseReports ==
  ASSUME KernelKnows, NEW S, S \subseteq {x \in Members \X MaybeVid : kmem[x] # None},
         NEW last \in Seq(Event), Release(S, last), NEW gone, Going(gone, S, last)
  PROVE  \E a : Reports(a)
<1>0. /\ gone \subseteq kbridges /\ kbridges' = kbridges \ gone
      /\ \A d : Queued(last, d) <=> \E b \in gone : d = BridgeEvent("delBridge", b)
      /\ \A x \in Members \X MaybeVid : kmem[x] \in gone => x \in S
  BY DEF Going
<1>1. PICK a \in Seq(Event) :
        /\ queue' = queue \o a
        /\ \A d : Queued(a, d) <=> Queued(last, d) \/ \E x \in S : d = Leaving(x)
  BY ReleaseSays DEF KernelKnows
<1>2. /\ kmem \in [Members \X MaybeVid -> MaybeBridge] /\ None \notin Bridges /\ used' = used
      /\ kmem' = [x \in Members \X MaybeVid |-> IF x \in S THEN None ELSE kmem[x]]
      /\ kbridges \subseteq Bridges /\ kbridges \subseteq used
  BY NasVlanLagAssumption DEF KernelKnows, KernelType, Release
<1>3. \A x \in S : /\ x = <<x[1], x[2]>> /\ x[1] \in Members /\ x[2] \in MaybeVid
                   /\ kmem[x] \in Bridges
  BY <1>2 DEF MaybeBridge
<1>4. ASSUME NEW x \in S
      PROVE  /\ Leaving(x).op = "delPort" /\ Proper(Leaving(x), used)
             /\ \A b, l, y : Says(Leaving(x), b, l, y) <=> kmem[x] = b /\ x = <<l, y>>
             /\ \A b : /\ Leaving(x) # BridgeEvent("newBridge", b)
                       /\ Leaving(x) # BridgeEvent("delBridge", b)
  <2>1. x[1] \in used \cup {Phys}
    <3>1. kmem[<<x[1], x[2]>>] = kmem[x] /\ kmem[x] \in Bridges
      BY <1>3
    <3> QED BY <1>3, <3>1 DEF KernelKnows, Logged
  <2>2. Leaving(x).op = "delPort" /\ Proper(Leaving(x), used)
    BY <2>1, BridgeEvents DEF Leaving, PortEvent
  <2>3. \A b, l, y : Says(Leaving(x), b, l, y) <=> kmem[x] = b /\ x[1] = l /\ x[2] = y
    BY BridgeEvents DEF Leaving
  <2>4. \A b : /\ Leaving(x) # BridgeEvent("newBridge", b)
               /\ Leaving(x) # BridgeEvent("delBridge", b)
    BY BridgeEvents DEF Leaving
  <2> QED BY <1>3, <2>2, <2>3, <2>4
<1>5. \A i \in 1..Len(a) :
        \/ \E x \in S : a[i] = Leaving(x)
        \/ \E b \in gone : a[i] = BridgeEvent("delBridge", b)
  <2>1. \A i \in 1..Len(a) : Queued(a, a[i])
    BY DEF Queued
  <2> QED BY <1>0, <1>1, <2>1
<1>6. \A b, c, l, x : ~Says(BridgeEvent("delBridge", b), c, l, x)
  BY BridgeEvents
<1>7. \A i \in 1..Len(a) : Proper(a[i], used)
  <2>1. \A b \in gone : Proper(BridgeEvent("delBridge", b), used)
    BY <1>0, <1>2, BridgeEvents
  <2> QED BY <1>4, <1>5, <2>1
<1>8. ASSUME NEW b \in Bridges, NEW l \in Members, NEW x \in MaybeVid
      PROVE  /\ kmem'[<<l, x>>] = b => b \in kbridges' /\ l \in used \cup {Phys}
             /\ Tells(a, b, l, x, kmem[<<l, x>>], kmem'[<<l, x>>])
  <2>1. PICK m, n : m = kmem[<<l, x>>] /\ n = kmem'[<<l, x>>]
    OBVIOUS
  <2>2. /\ <<l, x>> \in S => n = None
        /\ <<l, x>> \notin S => n = m
        /\ m \in gone => <<l, x>> \in S
    BY <1>0, <1>2, <2>1
  <2>3. n = b => b \in kbridges' /\ l \in used \cup {Phys}
    <3>1. m = b => b \in kbridges /\ l \in used \cup {Phys}
      BY <2>1 DEF KernelKnows, Logged
    <3> QED BY <1>0, <1>2, <2>2, <3>1
  <2>4. \A i \in 1..Len(a) : Says(a[i], b, l, x) =>
          a[i].op = "delPort" /\ m = b /\ <<l, x>> \in S /\ n # b
    <3> SUFFICES ASSUME NEW i \in 1..Len(a), Says(a[i], b, l, x)
                 PROVE  a[i].op = "delPort" /\ m = b /\ <<l, x>> \in S /\ n # b
      OBVIOUS
    <3>1. PICK y \in S : a[i] = Leaving(y)
      BY <1>5, <1>6
    <3>2. a[i].op = "delPort" /\ kmem[y] = b /\ y = <<l, x>>
      BY <1>4, <3>1
    <3> QED BY <1>2, <2>1, <2>2, <3>2
  <2>5. Agrees(a, b, l, x, n)
    BY <2>4 DEF Agrees
  <2>6. Silent(a, b, l, x) => (n = b <=> m = b)
    <3>1. ASSUME <<l, x>> \in S, m = b PROVE ~Silent(a, b, l, x)
      <4>1. Queued(a, Leaving(<<l, x>>))
        BY <1>1, <3>1
      <4>2. Says(Leaving(<<l, x>>), b, l, x)
        BY <1>4, <2>1, <3>1
      <4> QED BY <4>1, <4>2 DEF Queued, Silent
    <3> QED BY <1>2, <2>2, <3>1
  <2>7. n = b => m = b
    BY <1>2, <2>2
  <2>8. Tells(a, b, l, x, m, n)
    BY <2>4, <2>5, <2>6, <2>7 DEF Tells
  <2> QED BY <2>1, <2>3, <2>8
<1>9. ASSUME NEW b \in Bridges
      PROVE  /\ Queued(a, BridgeEvent("delBridge", b)) <=> b \in gone
             /\ ~Queued(a, BridgeEvent("newBridge", b))
  <2>1. \A c : /\ BridgeEvent("delBridge", b) = BridgeEvent("delBridge", c) => b = c
               /\ BridgeEvent("newBridge", b) # BridgeEvent("delBridge", c)
    BY BridgeEvents
  <2>2. \A d : Queued(a, d) <=> \/ \E c \in gone : d = BridgeEvent("delBridge", c)
                                \/ \E x \in S : d = Leaving(x)
    <3> SUFFICES ASSUME NEW d
                 PROVE  Queued(a, d) <=> \/ \E c \in gone : d = BridgeEvent("delBridge", c)
                                         \/ \E x \in S : d = Leaving(x)
      OBVIOUS
    <3>1. Queued(a, d) <=> Queued(last, d) \/ \E x \in S : d = Leaving(x)
      BY <1>1
    <3>2. Queued(last, d) <=> \E c \in gone : d = BridgeEvent("delBridge", c)
      BY <1>0
    <3> QED BY <3>1, <3>2, Zenon
  <2>3. Queued(a, BridgeEvent("delBridge", b)) => b \in gone
    BY <1>4, <2>1, <2>2
  <2>4. b \in gone => Queued(a, BridgeEvent("delBridge", b))
    BY <2>2
  <2>5. ~Queued(a, BridgeEvent("newBridge", b))
    BY <1>4, <2>1, <2>2
  <2> QED BY <2>3, <2>4, <2>5
<1> QED BY <1>0, <1>1, <1>2, <1>7, <1>8, <1>9 DEF Reports

LEMMA DeleteReports ==
  ASSUME KernelKnows, NEW b \in kbridges, KernelDelete(b)
  PROVE  /\ \E a : Reports(a)
         /\ kbridges' = kbridges \ {b} /\ used' = used
<1>1. PICK e, last : e = BridgeEvent("delBridge", b) /\ last = <<e>>
  OBVIOUS
<1>2. b \in Bridges /\ b # None
  BY NasVlanLagAssumption DEF KernelKnows, KernelType
<1>3. e \in Event
  BY <1>1, <1>2, EventTypes
<1>4. last \in Seq(Event) /\ \A d : Queued(last, d) <=> d = e
  BY <1>1, <1>3, OneEvent
<1>5. PICK S : S = {x \in Members \X MaybeVid : kmem[x] = b}
  OBVIOUS
<1>6. /\ S \subseteq {x \in Members \X MaybeVid : kmem[x] # None}
      /\ \A x \in Members \X MaybeVid : kmem[x] \in {b} => x \in S
  BY <1>2, <1>5
<1>7. Release(S, last) /\ kbridges' = kbridges \ {b}
  BY <1>1, <1>5 DEF KernelDelete
<1>8. \A d : Queued(last, d) <=> \E c \in {b} : d = BridgeEvent("delBridge", c)
  BY <1>1, <1>4
<1>9. Going({b}, S, last)
  BY <1>6, <1>7, <1>8 DEF Going
<1>10. \E a : Reports(a)
  BY <1>4, <1>6, <1>7, <1>9, ReleaseReports
<1> QED BY <1>7, <1>10 DEF Release

LEMMA GoneReports ==
  ASSUME KernelKnows, NEW l \in Lags, BondGone(l)
  PROVE  /\ \E a : Reports(a)
         /\ kbridges' = kbridges /\ used' = used
<1>1. PICK S : S = {x \in {l} \X MaybeVid : kmem[x] # None}
  OBVIOUS
<1>2. S \subseteq {x \in Members \X MaybeVid : kmem[x] # None}
  BY <1>1 DEF Members
<1>3. Release(S, <<>>) /\ kbridges' = kbridges \ {} /\ {} \subseteq kbridges
  BY <1>1 DEF BondGone
<1>4. <<>> \in Seq(Event) /\ \A d : Queued(<<>>, d) <=> \E c \in {} : d = BridgeEvent("delBridge", c)
  BY NoEvents
<1>5. \A x \in Members \X MaybeVid : kmem[x] \in {} => x \in S
  OBVIOUS
<1>6. Going({}, S, <<>>)
  BY <1>3, <1>4, <1>5 DEF Going
<1>7. \E a : Reports(a)
  BY <1>2, <1>3, <1>4, <1>6, ReleaseReports
<1> QED BY <1>3, <1>7 DEF Release
(* The log is as the kernel after each operation, and when an event is taken. *)
LEMMA LoggedGrows ==
  ASSUME KernelKnows, NEW a, Reports(a)
  PROVE  Logged(queue', kbridges', kmem', used')
<1>1. queue \in Seq(Event) /\ a \in Seq(Event) /\ kbridges \subseteq used /\ used \subseteq used'
      /\ Logged(queue, kbridges, kmem, used)
  BY DEF KernelKnows, KernelType, Reports
<1>2. PICK q : q = queue
  OBVIOUS
<1>3. PICK t : t = queue'
  OBVIOUS
<1>4. t = q \o a /\ q \in Seq(Event) /\ a \in Seq(Event)
  BY <1>1, <1>2, <1>3 DEF Reports
<1>5. /\ Len(q) \in Nat /\ Len(a) \in Nat
      /\ \A i \in 1..Len(q) : i \in 1..Len(t) /\ t[i] = q[i]
      /\ \A i \in 1..Len(a) : Len(q) + i \in 1..Len(t) /\ t[Len(q) + i] = a[i]
      /\ \A i \in 1..Len(t) : i \in 1..Len(q) \/ \E k \in 1..Len(a) : i = Len(q) + k
  <2>1. Behind(t, q, a)
    BY <1>4, Joined
  <2> QED BY <2>1 DEF Behind
<1>6. ASSUME NEW b \in Bridges, NEW l \in Members, NEW x \in MaybeVid
      PROVE  /\ kmem'[<<l, x>>] = b => b \in kbridges' /\ l \in used' \cup {Phys}
             /\ Agrees(t, b, l, x, kmem'[<<l, x>>])
  <2>1. PICK m, n : m = kmem[<<l, x>>] /\ n = kmem'[<<l, x>>]
    OBVIOUS
  <2>2. Agrees(q, b, l, x, m)
    BY <1>1, <1>2, <2>1 DEF Logged
  <2>3. Agrees(a, b, l, x, n) /\ (Silent(a, b, l, x) => (n = b <=> m = b))
    BY <2>1 DEF Reports, Tells
  <2>4. Agrees(t, b, l, x, n)
    BY <1>4, <2>2, <2>3, AgreesJoin
  <2> QED BY <2>1, <2>4 DEF Reports
<1>7. \A i \in 1..Len(t) : Proper(t[i], used')
  <2>1. \A e : Proper(e, used) => Proper(e, used')
    BY <1>1 DEF Proper
  <2>2. \A i \in 1..Len(q) : Proper(q[i], used')
    BY <1>1, <1>2, <2>1 DEF Logged
  <2>3. \A i \in 1..Len(a) : Proper(a[i], used')
    BY DEF Reports
  <2> QED BY <1>5, <2>2, <2>3
<1>8. ASSUME NEW i \in 1..Len(t), NEW b \in Bridges, t[i] = BridgeEvent("delBridge", b)
      PROVE  b \notin kbridges'
  <2>1. CASE i \in 1..Len(q)
    <3>1. q[i] = BridgeEvent("delBridge", b) /\ b \notin kbridges /\ Proper(q[i], used)
      BY <1>1, <1>2, <1>5, <1>8, <2>1 DEF Logged, Ends
    <3>2. b \in used
      BY <3>1 DEF Proper, BridgeEvent
    <3> QED BY <3>1, <3>2 DEF Reports
  <2>2. ASSUME NEW k \in 1..Len(a), i = Len(q) + k PROVE b \notin kbridges'
    <3>1. Queued(a, BridgeEvent("delBridge", b))
      BY <1>5, <1>8, <2>2 DEF Queued
    <3> QED BY <3>1 DEF Reports
  <2> QED BY <1>5, <2>1, <2>2
<1>9. ASSUME NEW i \in 1..Len(t), NEW b \in Bridges, t[i] = BridgeEvent("newBridge", b),
             b \notin kbridges'
      PROVE  \E j \in 1..Len(t) : j > i /\ t[j] = BridgeEvent("delBridge", b)
  <2>1. CASE i \in 1..Len(q)
    <3>1. CASE b \in kbridges
      <4>1. Queued(a, BridgeEvent("delBridge", b))
        BY <1>9, <3>1 DEF Reports
      <4>2. PICK k \in 1..Len(a) : a[k] = BridgeEvent("delBridge", b)
        BY <4>1 DEF Queued
      <4>3. Len(q) + k \in 1..Len(t) /\ t[Len(q) + k] = a[k] /\ Len(q) + k > i
        BY <1>5, <2>1
      <4> QED BY <4>2, <4>3
    <3>2. CASE b \notin kbridges
      <4>1. q[i] = BridgeEvent("newBridge", b)
        BY <1>5, <1>9, <2>1
      <4>2. PICK j \in 1..Len(q) : j > i /\ q[j] = BridgeEvent("delBridge", b)
        BY <1>1, <1>2, <2>1, <3>2, <4>1 DEF Logged, Ends
      <4> QED BY <1>5, <4>2
    <3> QED BY <3>1, <3>2
  <2>2. ASSUME NEW k \in 1..Len(a), i = Len(q) + k PROVE FALSE
    <3>1. Queued(a, BridgeEvent("newBridge", b))
      BY <1>5, <1>9, <2>2 DEF Queued
    <3> QED BY <1>9, <3>1 DEF Reports
  <2> QED BY <1>5, <2>1, <2>2
<1>10. Ends(t, kbridges')
  BY <1>8, <1>9 DEF Ends
<1> QED BY <1>3, <1>6, <1>7, <1>10 DEF Logged

LEMMA LoggedTaken ==
  ASSUME NEW q \in Seq(Event), q # <<>>, NEW t, t = Tail(q), NEW kb, NEW km, NEW us,
         Logged(q, kb, km, us)
  PROVE  /\ Logged(t, kb, km, us)
         /\ Proper(Head(q), us)
         /\ \A b \in Bridges, l \in Members, x \in MaybeVid :
              LastTells(Head(q), t, b, l, x, km[<<l, x>>])
         /\ \A b \in Bridges :
              /\ Head(q) = BridgeEvent("delBridge", b) => b \notin kb
              /\ Head(q) = BridgeEvent("newBridge", b) /\ b \notin kb =>
                   Queued(t, BridgeEvent("delBridge", b))
<1>1. /\ Len(t) \in Nat /\ Len(q) = Len(t) + 1 /\ Head(q) = q[1] /\ 1 \in 1..Len(q)
      /\ \A i \in 1..Len(t) : i + 1 \in 1..Len(q) /\ t[i] = q[i + 1]
      /\ \A i \in 1..Len(q) : i = 1 \/ (i - 1 \in 1..Len(t) /\ t[i - 1] = q[i])
  BY Dropped
<1>2. \A b \in Bridges, l \in Members, x \in MaybeVid :
        /\ km[<<l, x>>] = b => b \in kb /\ l \in us \cup {Phys}
        /\ Agrees(t, b, l, x, km[<<l, x>>])
        /\ LastTells(Head(q), t, b, l, x, km[<<l, x>>])
  BY AgreesTaken DEF Logged
<1>3. \A i \in 1..Len(t) : Proper(t[i], us)
  <2>1. \A i \in 1..Len(q) : Proper(q[i], us)
    BY DEF Logged
  <2> QED BY <1>1, <2>1
<1>4. Proper(Head(q), us)
  BY <1>1 DEF Logged
<1>5. ASSUME NEW i \in 1..Len(q), NEW b \in Bridges
      PROVE  /\ q[i] = BridgeEvent("delBridge", b) => b \notin kb
             /\ q[i] = BridgeEvent("newBridge", b) /\ b \notin kb =>
                  \E j \in 1..Len(t) : j > i - 1 /\ t[j] = BridgeEvent("delBridge", b)
  <2>1. q[i] = BridgeEvent("delBridge", b) => b \notin kb
    BY DEF Logged, Ends
  <2>2. ASSUME q[i] = BridgeEvent("newBridge", b), b \notin kb
        PROVE  \E j \in 1..Len(t) : j > i - 1 /\ t[j] = BridgeEvent("delBridge", b)
    <3>1. PICK j \in 1..Len(q) : j > i /\ q[j] = BridgeEvent("delBridge", b)
      BY <2>2 DEF Logged, Ends
    <3>2. j - 1 \in 1..Len(t) /\ t[j - 1] = q[j] /\ j - 1 > i - 1
      BY <1>1, <3>1
    <3> QED BY <3>1, <3>2
  <2> QED BY <2>1, <2>2
<1>6. Ends(t, kb)
  <2> SUFFICES ASSUME NEW i \in 1..Len(t), NEW b \in Bridges
               PROVE  /\ t[i] = BridgeEvent("delBridge", b) => b \notin kb
                      /\ t[i] = BridgeEvent("newBridge", b) /\ b \notin kb =>
                           \E j \in 1..Len(t) : j > i /\ t[j] = BridgeEvent("delBridge", b)
    BY DEF Ends
  <2>1. i + 1 \in 1..Len(q) /\ t[i] = q[i + 1] /\ (i + 1) - 1 = i
    BY <1>1
  <2> QED BY <1>5, <2>1
<1>7. \A b \in Bridges :
        /\ Head(q) = BridgeEvent("delBridge", b) => b \notin kb
        /\ Head(q) = BridgeEvent("newBridge", b) /\ b \notin kb =>
             Queued(t, BridgeEvent("delBridge", b))
  BY <1>1, <1>5 DEF Queued
<1> QED BY <1>2, <1>3, <1>4, <1>6, <1>7 DEF Logged

(* A report leaves every difference with what will mend it. *)
LEMMA ReportSettled ==
  ASSUME KernelKnows, NEW a, Reports(a), NEW s, NEW b \in Bridges, NEW l \in Lags, NEW stale,
         Settled(b, l, s, queue, kmem, stale)
  PROVE  Settled(b, l, s, queue', kmem', stale)
<1>0. l \in Members /\ Vids \subseteq MaybeVid
  BY DEF Members, MaybeVid
<1>1. PICK q, t, m, n : q = queue /\ t = queue' /\ m = kmem /\ n = kmem'
  OBVIOUS
<1>2. t = q \o a /\ q \in Seq(Event) /\ a \in Seq(Event)
  BY <1>1 DEF KernelKnows, KernelType, Reports
<1>3. \A x \in MaybeVid : Tells(a, b, l, x, m[<<l, x>>], n[<<l, x>>])
  BY <1>0, <1>1 DEF Reports
<1>4. /\ Len(q) \in Nat /\ Len(a) \in Nat
      /\ \A i \in 1..Len(q) : i \in 1..Len(t) /\ t[i] = q[i]
      /\ \A i \in 1..Len(a) : Len(q) + i \in 1..Len(t) /\ t[Len(q) + i] = a[i]
      /\ \A i \in 1..Len(t) : i \in 1..Len(q) \/ \E k \in 1..Len(a) : i = Len(q) + k
  <2>1. Behind(t, q, a)
    BY <1>2, Joined
  <2> QED BY <2>1 DEF Behind
<1>5. ASSUME NEW x \in MaybeVid, Silent(t, b, l, x) PROVE Caught(s, b, l, x, n[<<l, x>>], stale)
  <2>1. Silent(q, b, l, x) /\ Silent(a, b, l, x)
    BY <1>2, <1>5, QueuedJoin
  <2>2. Caught(s, b, l, x, m[<<l, x>>], stale)
    BY <1>1, <2>1 DEF Settled
  <2>3. n[<<l, x>>] = b <=> m[<<l, x>>] = b
    BY <1>3, <2>1 DEF Tells
  <2> QED BY <2>2, <2>3 DEF Caught
<1>6. ASSUME s.vid[b] = 0, NEW x \in Vids
      PROVE  Preceded(t, b, l, x) /\ (n[<<l, x>>] = b => Comes(t, b, l, x))
  <2>1. Preceded(q, b, l, x) /\ (m[<<l, x>>] = b => Comes(q, b, l, x))
    <3>1. Preceded(queue, b, l, x)
      BY <1>6 DEF Settled
    <3>2. kmem[<<l, x>>] = b => Comes(queue, b, l, x)
      BY <1>6 DEF Settled
    <3> QED BY <1>1, <3>1, <3>2
  <2>2. x \in MaybeVid /\ Tells(a, b, l, x, m[<<l, x>>], n[<<l, x>>])
    BY <1>0, <1>3
  <2>3. Comes(q, b, l, x) \/ Comes(a, b, l, x) => Comes(t, b, l, x)
    BY <1>4 DEF Comes
  <2>4. ASSUME NEW i \in 1..Len(t), Says(t[i], b, l, x), t[i].op = "delPort"
        PROVE  \E j \in 1..Len(t) : j < i /\ Says(t[j], b, l, x) /\ t[j].op = "addPort"
    <3>1. CASE i \in 1..Len(q)
      <4>1. PICK j \in 1..Len(q) : j < i /\ Says(q[j], b, l, x) /\ q[j].op = "addPort"
        BY <1>4, <2>1, <2>4, <3>1 DEF Preceded
      <4> QED BY <1>4, <4>1
    <3>2. ASSUME NEW k \in 1..Len(a), i = Len(q) + k
          PROVE  \E j \in 1..Len(t) : j < i /\ Says(t[j], b, l, x) /\ t[j].op = "addPort"
      <4>1. m[<<l, x>>] = b
        BY <1>4, <2>2, <2>4, <3>2 DEF Tells
      <4>2. PICK j \in 1..Len(q) : Says(q[j], b, l, x) /\ q[j].op = "addPort"
        BY <2>1, <4>1 DEF Comes
      <4>3. j < i
        BY <1>4, <3>2
      <4> QED BY <1>4, <4>2, <4>3
    <3> QED BY <1>4, <3>1, <3>2
  <2>5. Preceded(t, b, l, x)
    BY <2>4 DEF Preceded
  <2> QED BY <2>1, <2>2, <2>3, <2>5 DEF Tells
<1> QED BY <1>1, <1>5, <1>6 DEF Settled

LEMMA SettledMore ==
  ASSUME NEW b, NEW l, NEW s, NEW q, NEW km, NEW stale, NEW stale1, stale \subseteq stale1,
         Settled(b, l, s, q, km, stale)
  PROVE  Settled(b, l, s, q, km, stale1)
<1>1. \A x, k : Caught(s, b, l, x, k, stale) => Caught(s, b, l, x, k, stale1)
  BY DEF Caught
<1> QED BY <1>1 DEF Settled

LEMMA PresentShrinks ==
  ASSUME NEW X, NEW S, NEW us, NEW S1, NEW us1, us \subseteq us1,
         \A x \in X : x \in S1 => x \in S \/ x \notin us
  PROVE  Present(X, S1, us1) \subseteq Present(X, S, us)
BY DEF Present

(* What the kernel does and reports keeps the rest. *)
LEMMA ReportKeeps ==
  ASSUME KernelKnows, NEW a, Reports(a), NEW s
  PROVE  /\ Deleted(s, queue, kbridges) => Deleted(s, queue', kbridges')
         /\ Present(Bridges, kbridges', used') \subseteq Present(Bridges, kbridges, used)
         /\ \A c \in CpsState : s \in VlanState /\ (c.item # None => c.br \in Bridges)
              /\ Begun(s, c, queue, kmem) => Begun(s, c, queue', kmem')
         /\ \A L, lost, stale : L \subseteq Lags
              /\ Meets(s, queue, kmem, Present(Bridges, kbridges, used), L, lost, stale) =>
                 Meets(s, queue', kmem', Present(Bridges, kbridges', used'), L, lost, stale)
<1>1. PICK q, t : q = queue /\ t = queue'
  OBVIOUS
<1>2. t = q \o a /\ q \in Seq(Event) /\ a \in Seq(Event)
  BY <1>1 DEF KernelKnows, KernelType, Reports
<1>3. /\ \A e : Queued(t, e) <=> Queued(q, e) \/ Queued(a, e)
      /\ \A b, l, x : Silent(t, b, l, x) <=> Silent(q, b, l, x) /\ Silent(a, b, l, x)
  BY <1>2, QueuedJoin
<1>4. Deleted(s, queue, kbridges) => Deleted(s, queue', kbridges')
  BY <1>1, <1>3 DEF Deleted, Reports
<1>5. Present(Bridges, kbridges', used') \subseteq Present(Bridges, kbridges, used)
  BY DEF Reports, Present
<1>6. ASSUME NEW c \in CpsState, s \in VlanState, c.item # None => c.br \in Bridges,
             Begun(s, c, queue, kmem)
      PROVE  Begun(s, c, queue', kmem')
  <2> SUFFICES ASSUME c.item # None, c.item.op = "add",
                      NEW x, x = IF c.item.mode = "tagged" THEN s.vid[c.br] ELSE 0,
                      Silent(t, c.br, c.item.lag, x)
               PROVE  kmem'[<<c.item.lag, x>>] = c.br
    BY <1>1 DEF Begun
  <2>1. x \in MaybeVid /\ c.item.lag \in Members /\ c.br \in Bridges
    BY <1>6 DEF VlanState, CpsState, Work, Members, MaybeVid
  <2>2. Silent(q, c.br, c.item.lag, x) /\ Silent(a, c.br, c.item.lag, x)
    BY <1>3
  <2>3. kmem[<<c.item.lag, x>>] = c.br
    BY <1>1, <1>6, <2>2 DEF Begun
  <2>4. Tells(a, c.br, c.item.lag, x, kmem[<<c.item.lag, x>>], kmem'[<<c.item.lag, x>>])
    BY <2>1 DEF Reports
  <2> QED BY <2>2, <2>3, <2>4 DEF Tells
<1>7. ASSUME NEW L, NEW lost, NEW stale, L \subseteq Lags,
             Meets(s, queue, kmem, Present(Bridges, kbridges, used), L, lost, stale)
      PROVE  Meets(s, queue', kmem', Present(Bridges, kbridges', used'), L, lost, stale)
  <2> SUFFICES ASSUME NEW b \in Present(Bridges, kbridges', used'), NEW l \in L,
                      <<b, l>> \notin lost
               PROVE  Settled(b, l, s, queue', kmem', stale)
    BY DEF Meets
  <2>1. b \in Bridges /\ l \in Lags /\ b \in Present(Bridges, kbridges, used)
    BY <1>5, <1>7 DEF Present
  <2>2. Settled(b, l, s, queue, kmem, stale)
    BY <1>7, <2>1 DEF Meets
  <2> QED BY <2>1, <2>2, ReportSettled
<1> QED BY <1>4, <1>5, <1>6, <1>7
-----------------------------------------------------------------------------
(* What the functions do to the bridges and to the ids of the LAGs.          *)

Still(s, t) ==
  /\ t \in VlanState /\ t.entries = s.entries /\ t.known = s.known
  /\ t.vid = s.vid /\ t.stored = s.stored

(* The LAGs of S have v too, or no longer. *)
Gains(s, t, S, m, v) ==
  \A l \in Lags, n \in Modes, w \in MaybeVid :
    w \in t.vlans[<<l, n>>] <=> w \in s.vlans[<<l, n>>] \/ (l \in S /\ n = m /\ w = v)
Loses(s, t, S, m, v) ==
  \A l \in Lags, n \in Modes, w \in MaybeVid :
    w \in t.vlans[<<l, n>>] <=> w \in s.vlans[<<l, n>>] /\ ~(l \in S /\ n = m /\ w = v)

LEMMA NpuStill ==
  ASSUME NEW s \in VlanState, NEW v, NEW m \in Modes, NEW S \in SUBSET Ports, NEW f
  PROVE  /\ Still(s, NpuAdd(s, v, m, S, f)) /\ NpuAdd(s, v, m, S, f).vlans = s.vlans
         /\ Still(s, NpuDel(s, v, m, S, f)) /\ NpuDel(s, v, m, S, f).vlans = s.vlans
<1> DEFINE a == NpuAdd(s, v, m, S, f)
           d == NpuDel(s, v, m, S, f)
<1>1. a \in VlanState /\ d \in VlanState
  BY NpuType DEF VlanOnly
<1>2. a.vlans = s.vlans /\ a.entries = s.entries /\ a.known = s.known /\ a.vid = s.vid
      /\ a.stored = s.stored
  BY DEF NpuAdd, VlanState
<1>3. d.vlans = s.vlans /\ d.entries = s.entries /\ d.known = s.known /\ d.vid = s.vid
      /\ d.stored = s.stored
  BY DEF NpuDel, VlanState
<1> QED BY <1>1, <1>2, <1>3 DEF Still

WithVlans(r, u) == [r EXCEPT !.vlans = u]

LEMMA VlansStill ==
  ASSUME NEW s, NEW r, Still(s, r), NEW u \in [Lags \X Modes -> SUBSET MaybeVid]
  PROVE  Still(s, WithVlans(r, u)) /\ WithVlans(r, u).vlans = u
<1>0. r \in VlanState
  BY DEF Still
<1>1. WithVlans(r, u) \in VlanState
  BY <1>0 DEF VlanState, WithVlans
<1>2. PICK t : t = WithVlans(r, u)
  OBVIOUS
<1>3. t.vlans = u /\ t.entries = r.entries /\ t.known = r.known /\ t.vid = r.vid
      /\ t.stored = r.stored
  BY <1>0, <1>2 DEF VlanState, WithVlans
<1>4. Still(s, t)
  BY <1>1, <1>2, <1>3 DEF Still
<1> QED BY <1>2, <1>3, <1>4

LEMMA AddLagGains ==
  ASSUME NEW s \in VlanState, NEW l \in Lags, NEW v \in MaybeVid, NEW m \in Modes,
         NEW t, t = AddLag(s, l, v, m, "none")
  PROVE  Still(s, t) /\ Gains(s, t, {l} \cap s.entries, m, v)
<1>1. CASE l \notin s.entries \/ v \in s.vlans[<<l, m>>]
  <2>1. t = s
    BY <1>1 DEF AddLag
  <2> QED BY <1>1, <2>1 DEF Still, Gains
<1>2. CASE ~(l \notin s.entries \/ v \in s.vlans[<<l, m>>])
  <2>1. PICK r : r = NpuAdd(s, v, m, s.mem[l], "none")
    OBVIOUS
  <2>2. s.mem[l] \in SUBSET Ports /\ s.vlans \in [Lags \X Modes -> SUBSET MaybeVid]
        /\ <<l, m>> \in Lags \X Modes
    BY DEF VlanState
  <2>3. Still(s, r) /\ r.vlans = s.vlans /\ r \in VlanState
    BY <2>1, <2>2, NpuStill DEF Still
  <2>4. PICK u : u = [s.vlans EXCEPT ![<<l, m>>] = @ \cup {v}]
    OBVIOUS
  <2>5. t = WithVlans(r, u)
    BY <1>2, <2>1, <2>3, <2>4 DEF AddLag, WithVlans
  <2>6. u \in [Lags \X Modes -> SUBSET MaybeVid]
    BY <2>2, <2>4
  <2>7. Still(s, t) /\ t.vlans = u
    BY <2>3, <2>5, <2>6, VlansStill, ZenonT(40)
  <2>8. \A k \in Lags, n \in Modes :
          u[<<k, n>>] = IF k = l /\ n = m THEN s.vlans[<<k, n>>] \cup {v} ELSE s.vlans[<<k, n>>]
    BY <2>2, <2>4
  <2>9. Gains(s, t, {l} \cap s.entries, m, v)
    BY <1>2, <2>7, <2>8 DEF Gains
  <2> QED BY <2>7, <2>9
<1> QED BY <1>1, <1>2

LEMMA DelLagLoses ==
  ASSUME NEW s \in VlanState, Cleared(s), NEW l \in Lags, NEW v \in MaybeVid,
         NEW t, t = DelLag(s, l, v, "none")
  PROVE  Still(s, t) /\ Loses(s, t, {l}, DelMode(s, l, v), v)
<1>0. PICK m : m = DelMode(s, l, v)
  OBVIOUS
<1>1. m \in Modes
  BY <1>0 DEF DelMode, Modes
<1>2. CASE l \notin s.entries \/ v \notin s.vlans[<<l, m>>]
  <2>1. t = s
    BY <1>0, <1>2 DEF DelLag
  <2>2. v \notin s.vlans[<<l, m>>]
    BY <1>1, <1>2 DEF Cleared
  <2> QED BY <1>0, <2>1, <2>2 DEF Still, Loses
<1>3. CASE ~(l \notin s.entries \/ v \notin s.vlans[<<l, m>>])
  <2>1. PICK r : r = NpuDel(s, v, m, s.mem[l], "none")
    OBVIOUS
  <2>2. s.mem[l] \in SUBSET Ports /\ s.vlans \in [Lags \X Modes -> SUBSET MaybeVid]
        /\ <<l, m>> \in Lags \X Modes
    BY <1>1 DEF VlanState
  <2>3. Still(s, r) /\ r.vlans = s.vlans /\ r \in VlanState
    BY <1>1, <2>1, <2>2, NpuStill DEF Still
  <2>4. PICK u : u = [s.vlans EXCEPT ![<<l, m>>] = @ \ {v}]
    OBVIOUS
  <2>5. t = WithVlans(r, u)
    BY <1>0, <1>3, <2>1, <2>3, <2>4 DEF DelLag, WithVlans
  <2>6. u \in [Lags \X Modes -> SUBSET MaybeVid]
    BY <2>2, <2>4
  <2>7. Still(s, t) /\ t.vlans = u
    BY <2>3, <2>5, <2>6, VlansStill, ZenonT(40)
  <2>8. \A k \in Lags, n \in Modes :
          u[<<k, n>>] = IF k = l /\ n = m THEN s.vlans[<<k, n>>] \ {v} ELSE s.vlans[<<k, n>>]
    BY <2>2, <2>4
  <2>9. Loses(s, t, {l}, m, v)
    BY <2>7, <2>8 DEF Loses
  <2> QED BY <1>0, <2>7, <2>9
<1> QED BY <1>2, <1>3

LEMMA AddStoredGains ==
  ASSUME NEW s \in VlanState, NEW b \in Bridges, NEW t, t = AddStored(s, b, "none")
  PROVE  Still(s, t) /\ Gains(s, t, s.stored[b] \cap s.entries, "untagged", s.vid[b])
<1> DEFINE v == s.vid[b]
           new == {l \in s.stored[b] \cap s.entries : v \notin s.vlans[<<l, "untagged">>]}
           S == UNION {s.mem[l] : l \in new}
           r == NpuAdd(s, v, "untagged", S, "none")
           u == [x \in Lags \X Modes |->
                  IF x[1] \in new /\ x[2] = "untagged" THEN r.vlans[x] \cup {v} ELSE r.vlans[x]]
<1>1. "untagged" \in Modes /\ v \in MaybeVid
  BY DEF Modes, VlanState
<1>2. t = WithVlans(r, u)
  BY DEF AddStored, WithVlans
<1>3. S \in SUBSET Ports
  <2>1. \A l \in new : s.mem[l] \in SUBSET Ports
    BY DEF VlanState
  <2> HIDE DEF new
  <2> QED BY <2>1
<1> HIDE DEF S
<1>4. Still(s, r) /\ r.vlans = s.vlans /\ r \in VlanState
  BY <1>1, <1>3, NpuStill DEF Still
<1> HIDE DEF r
<1>5. u \in [Lags \X Modes -> SUBSET MaybeVid]
  <2>1. s.vlans \in [Lags \X Modes -> SUBSET MaybeVid]
    BY DEF VlanState
  <2> HIDE DEF new, v
  <2> QED BY <1>1, <1>4, <2>1
<1>6. \A k \in Lags, n \in Modes :
        u[<<k, n>>] = IF k \in new /\ n = "untagged" THEN s.vlans[<<k, n>>] \cup {v}
                      ELSE s.vlans[<<k, n>>]
  <2> HIDE DEF new, v
  <2> QED BY <1>4
<1> HIDE DEF u
<1>7. Still(s, t) /\ t.vlans = u
  BY <1>2, <1>4, <1>5, VlansStill, ZenonT(40)
<1>8. Gains(s, t, s.stored[b] \cap s.entries, "untagged", v)
  BY <1>6, <1>7 DEF Gains
<1> QED BY <1>7, <1>8

(* The first id of a bridge. *)
Names(s, t, b, v) ==
  /\ t \in VlanState /\ t.entries = s.entries /\ t.known = s.known /\ t.stored = s.stored
  /\ t.vid = [s.vid EXCEPT ![b] = v]

LEMMA FirstTaggedGains ==
  ASSUME NEW s \in VlanState, NEW b \in Bridges, NEW v \in Vids, NEW p \in Members,
         NEW t, t = FirstTagged(s, b, v, p, "none")
  PROVE  /\ Names(s, t, b, v)
         /\ v \in s.npuVlans => t.vlans = s.vlans
         /\ v \notin s.npuVlans =>
              \A l \in Lags, n \in Modes, w \in MaybeVid :
                w \in t.vlans[<<l, n>>] <=>
                  \/ w \in s.vlans[<<l, n>>]
                  \/ /\ w = v /\ l \in s.entries
                     /\ IF n = "tagged" THEN l = p ELSE l \in s.stored[b]
<1>1. PICK named, made : /\ named = [s EXCEPT !.vid[b] = v]
                         /\ made = [named EXCEPT !.npuVlans = @ \cup {v}]
  OBVIOUS
<1>2. named \in VlanState /\ made \in VlanState
  BY <1>1 DEF VlanState, MaybeVid
<1>3. /\ Names(s, named, b, v) /\ named.vlans = s.vlans
      /\ Names(s, made, b, v) /\ made.vlans = s.vlans
  BY <1>1, <1>2 DEF Names, VlanState
<1>4. CASE v \in s.npuVlans
  <2>1. t = named
    BY <1>1, <1>4 DEF FirstTagged
  <2> QED BY <1>3, <1>4, <2>1
<1>5. CASE v \notin s.npuVlans
  <2>1. PICK r : r = IF p = Phys THEN made ELSE AddLag(made, p, v, "tagged", "none")
    OBVIOUS
  <2>2. t = AddStored(r, b, "none")
    BY <1>1, <1>5, <2>1 DEF FirstTagged
  <2>3. Still(made, r) /\ Gains(made, r, {p} \cap made.entries, "tagged", v)
    <3>1. CASE p = Phys
      <4>1. r = made /\ p \notin Lags
        BY <2>1, <3>1, NasVlanLagAssumption
      <4> QED BY <1>2, <4>1 DEF Still, Gains
    <3>2. CASE p # Phys
      <4>1. p \in Lags /\ r = AddLag(made, p, v, "tagged", "none")
        BY <2>1, <3>2 DEF Members
      <4>2. v \in MaybeVid /\ "tagged" \in Modes
        BY DEF MaybeVid, Modes
      <4> QED BY <1>2, <4>1, <4>2, AddLagGains
    <3> QED BY <3>1, <3>2
  <2>4. r \in VlanState
    BY <2>3 DEF Still
  <2>5. Still(r, t) /\ Gains(r, t, r.stored[b] \cap r.entries, "untagged", r.vid[b])
    BY <2>2, <2>4, AddStoredGains
  <2>6. r.vid[b] = v /\ r.stored = s.stored /\ r.entries = s.entries
    BY <1>3, <2>3 DEF Still, Names, VlanState
  <2>7. Names(s, t, b, v)
    BY <1>3, <2>3, <2>5 DEF Names, Still
  <2>8. \A l \in Lags, n \in Modes, w \in MaybeVid :
          w \in t.vlans[<<l, n>>] <=>
            \/ w \in s.vlans[<<l, n>>]
            \/ w = v /\ l \in s.entries /\ IF n = "tagged" THEN l = p ELSE l \in s.stored[b]
    BY <1>3, <2>3, <2>5, <2>6 DEF Gains, Names, Modes
  <2> QED BY <1>5, <2>7, <2>8
<1> QED BY <1>4, <1>5
-----------------------------------------------------------------------------
(* An event is taken.                                                        *)

(* The table has of a bridge and a LAG what it had. *)
Same(s, t, b, l) ==
  /\ t.vid[b] = s.vid[b]
  /\ l \in t.stored[b] <=> l \in s.stored[b]
  /\ s.vid[b] # 0 =>
       \A m \in Modes : s.vid[b] \in t.vlans[<<l, m>>] <=> s.vid[b] \in s.vlans[<<l, m>>]

LEMMA SameSettled ==
  ASSUME NEW s, NEW t, NEW b, NEW l, Same(s, t, b, l), NEW q, NEW km, NEW stale,
         Settled(b, l, s, q, km, stale)
  PROVE  Settled(b, l, t, q, km, stale)
<1>1. \A x : ModeOf(x) \in Modes
  BY DEF ModeOf, Modes
<1>2. \A x, k : Caught(s, b, l, x, k, stale) => Caught(t, b, l, x, k, stale)
  BY <1>1 DEF Same, Caught
<1> QED BY <1>2 DEF Settled, Same

(* What is left to do for event e, with q behind it. *)
Heeds(e, q, b, l, s, km, stale) ==
  \A x \in MaybeVid :
    /\ Says(e, b, l, x) =>
         /\ Silent(q, b, l, x) => (e.op = "addPort" <=> km[<<l, x>>] = b)
         /\ s.vid[b] = 0 /\ x # 0 => e.op = "addPort"
    /\ ~Says(e, b, l, x) =>
         /\ Silent(q, b, l, x) => Caught(s, b, l, x, km[<<l, x>>], stale)
         /\ s.vid[b] = 0 /\ x # 0 => Preceded(q, b, l, x) /\ (km[<<l, x>>] = b => Comes(q, b, l, x))

LEMMA TakenHeeds ==
  ASSUME NEW p \in Seq(Event), p # <<>>, NEW e, e = Head(p), NEW q, q = Tail(p),
         NEW b \in Bridges, NEW l \in Lags, NEW s, NEW km, NEW stale,
         Settled(b, l, s, p, km, stale),
         NEW kb, NEW us, Logged(p, kb, km, us)
  PROVE  Heeds(e, q, b, l, s, km, stale)
<1>1. /\ Len(q) \in Nat /\ Len(p) = Len(q) + 1 /\ e = p[1] /\ 1 \in 1..Len(p)
      /\ \A i \in 1..Len(q) : i + 1 \in 1..Len(p) /\ q[i] = p[i + 1]
      /\ \A i \in 1..Len(p) : i = 1 \/ (i - 1 \in 1..Len(q) /\ q[i - 1] = p[i])
  BY Dropped
<1>2. ASSUME NEW x \in MaybeVid, Says(e, b, l, x)
      PROVE  /\ Silent(q, b, l, x) => (e.op = "addPort" <=> km[<<l, x>>] = b)
             /\ s.vid[b] = 0 /\ x # 0 => e.op = "addPort"
  <2>1. LastTells(e, q, b, l, x, km[<<l, x>>])
    BY LoggedTaken DEF Members
  <2>2. Silent(q, b, l, x) => (e.op = "addPort" <=> km[<<l, x>>] = b)
    BY <1>2, <2>1 DEF LastTells
  <2>3. ASSUME s.vid[b] = 0, x # 0, e.op # "addPort" PROVE FALSE
    <3>1. Preceded(p, b, l, x) /\ e.op = "delPort"
      BY <1>2, <2>3 DEF Settled, MaybeVid, Says
    <3>2. PICK j \in 1..Len(p) : j < 1
      BY <1>1, <1>2, <3>1 DEF Preceded
    <3> QED BY <1>1, <3>2
  <2> QED BY <2>2, <2>3
<1>3. ASSUME NEW x \in MaybeVid, ~Says(e, b, l, x), Silent(q, b, l, x)
      PROVE  Caught(s, b, l, x, km[<<l, x>>], stale)
  <2>1. Silent(p, b, l, x)
    BY <1>3, TakenFacts
  <2> QED BY <2>1 DEF Settled
<1>4. ASSUME NEW x \in MaybeVid, s.vid[b] = 0, x # 0, km[<<l, x>>] = b, ~Says(e, b, l, x)
      PROVE  Comes(q, b, l, x)
  <2>1. Comes(p, b, l, x)
    BY <1>4 DEF Settled, MaybeVid
  <2>2. PICK i \in 1..Len(p) : Says(p[i], b, l, x) /\ p[i].op = "addPort"
    BY <2>1 DEF Comes
  <2> QED BY <1>1, <1>4, <2>2 DEF Comes
<1>5. ASSUME NEW x \in MaybeVid, s.vid[b] = 0, x # 0, ~Says(e, b, l, x)
      PROVE  Preceded(q, b, l, x)
  <2>1. Preceded(p, b, l, x)
    BY <1>5 DEF Settled, MaybeVid
  <2> SUFFICES ASSUME NEW i \in 1..Len(q), Says(q[i], b, l, x), q[i].op = "delPort"
               PROVE  \E j \in 1..Len(q) : j < i /\ Says(q[j], b, l, x) /\ q[j].op = "addPort"
    BY DEF Preceded
  <2>2. PICK j \in 1..Len(p) : j < i + 1 /\ Says(p[j], b, l, x) /\ p[j].op = "addPort"
    BY <1>1, <2>1 DEF Preceded
  <2>3. j - 1 \in 1..Len(q) /\ q[j - 1] = p[j] /\ j - 1 < i
    BY <1>1, <1>5, <2>2
  <2> QED BY <2>2, <2>3
<1> QED BY <1>2, <1>3, <1>4, <1>5 DEF Heeds

LEMMA UnsaidSettles ==
  ASSUME NEW e, NEW q, NEW b, NEW l, NEW s, NEW km, NEW stale, Heeds(e, q, b, l, s, km, stale),
         \A x : ~Says(e, b, l, x), NEW t, Same(s, t, b, l)
  PROVE  Settled(b, l, t, q, km, stale)
<1>1. \A x \in Vids : x \in MaybeVid /\ x # 0
  BY NasVlanLagAssumption DEF MaybeVid
<1>2. Settled(b, l, s, q, km, stale)
  BY <1>1 DEF Heeds, Settled
<1> QED BY <1>2, SameSettled

(* A bridge without an id: the LAG is stored or not. *)
Stores(s, t, e, l) ==
  /\ e.op \in {"addPort", "delPort"} /\ s.vid[e.br] = 0 /\ t.vid[e.br] = 0
  /\ e.op = "addPort" => e.vid = 0
  /\ l \in t.stored[e.br] <=>
       IF l = e.port THEN e.op = "addPort" ELSE l \in s.stored[e.br]

LEMMA StoreSettles ==
  ASSUME NEW e, e.vid \in MaybeVid, NEW s, NEW t, NEW l, Stores(s, t, e, l), NEW b, b = e.br,
         NEW q, NEW km, NEW stale, Heeds(e, q, b, l, s, km, stale)
  PROVE  Settled(b, l, t, q, km, stale)
<1>1. \A x \in Vids : x \in MaybeVid /\ x # 0
  BY NasVlanLagAssumption DEF MaybeVid
<1>2. \A x : Says(e, b, l, x) <=> l = e.port /\ x = e.vid
  BY DEF Says, Stores
<1>3. l = e.port => e.vid = 0
  BY <1>2 DEF Heeds, Stores
<1>4. ASSUME NEW x \in MaybeVid, Silent(q, b, l, x) PROVE Caught(t, b, l, x, km[<<l, x>>], stale)
  <2>1. CASE Says(e, b, l, x)
    <3>1. e.op = "addPort" <=> km[<<l, x>>] = b
      BY <1>4, <2>1 DEF Heeds
    <3> QED BY <1>2, <2>1, <3>1 DEF Stores, Caught
  <2>2. CASE ~Says(e, b, l, x)
    <3>1. Caught(s, b, l, x, km[<<l, x>>], stale)
      BY <1>4, <2>2 DEF Heeds
    <3>2. x = 0 => l # e.port
      BY <1>2, <1>3, <2>2
    <3> QED BY <3>1, <3>2 DEF Stores, Caught
  <2> QED BY <2>1, <2>2
<1>5. ASSUME NEW x \in Vids
      PROVE  Preceded(q, b, l, x) /\ (km[<<l, x>>] = b => Comes(q, b, l, x))
  <2>1. ~Says(e, b, l, x) /\ x \in MaybeVid /\ x # 0
    BY <1>1, <1>2, <1>3
  <2> QED BY <2>1 DEF Heeds, Stores
<1> QED BY <1>4, <1>5 DEF Settled

(* A bridge with an id: the LAG has it or not. *)
Ids(s, t, e, l, v) ==
  /\ e.op \in {"addPort", "delPort"} /\ s.vid[e.br] = v /\ t.vid[e.br] = v
  /\ \A m \in Modes :
       v \in t.vlans[<<l, m>>] <=>
         IF l = e.port /\ e.vid \in {0, v} /\ m = ModeOf(e.vid) THEN e.op = "addPort"
                                                                 ELSE v \in s.vlans[<<l, m>>]

LEMMA IdSettles ==
  ASSUME NEW e, NEW v, v # 0, NEW s, NEW t, NEW l, Ids(s, t, e, l, v), NEW b, b = e.br,
         NEW q, NEW km, NEW stale, Heeds(e, q, b, l, s, km, stale)
  PROVE  Settled(b, l, t, q, km, stale)
<1>1. \A x : Says(e, b, l, x) <=> l = e.port /\ x = e.vid
  BY DEF Says, Ids
<1>2. \A x : ModeOf(x) \in Modes /\ \A y \in {0, v} : x \in {0, v} /\ x # y => ModeOf(x) # ModeOf(y)
  BY DEF ModeOf, Modes
<1>3. ASSUME NEW x \in MaybeVid, Silent(q, b, l, x) PROVE Caught(t, b, l, x, km[<<l, x>>], stale)
  <2> SUFFICES ASSUME x \in {0, v}, <<l, ModeOf(x), v>> \notin stale
               PROVE  km[<<l, x>>] = b <=> v \in t.vlans[<<l, ModeOf(x)>>]
    BY DEF Caught, Ids
  <2>1. CASE Says(e, b, l, x)
    <3>1. e.op = "addPort" <=> km[<<l, x>>] = b
      BY <1>3, <2>1 DEF Heeds
    <3>2. v \in t.vlans[<<l, ModeOf(x)>>] <=> e.op = "addPort"
      BY <1>1, <1>2, <2>1 DEF Ids
    <3> QED BY <3>1, <3>2
  <2>2. CASE ~Says(e, b, l, x)
    <3>1. Caught(s, b, l, x, km[<<l, x>>], stale)
      BY <1>3, <2>2 DEF Heeds
    <3>2. km[<<l, x>>] = b <=> v \in s.vlans[<<l, ModeOf(x)>>]
      BY <3>1 DEF Caught, Ids
    <3>3. v \in t.vlans[<<l, ModeOf(x)>>] <=> v \in s.vlans[<<l, ModeOf(x)>>]
      BY <1>1, <1>2, <2>2 DEF Ids
    <3> QED BY <3>2, <3>3
  <2> QED BY <2>1, <2>2
<1> QED BY <1>3 DEF Settled, Ids

(* The first id of a bridge. *)
Firsts(s, t, e, l, v, stale) ==
  /\ s.vid[e.br] = 0 /\ t.vid[e.br] = v /\ e.vid = v /\ e.op = "addPort"
  /\ \A m \in Modes : <<l, m, v>> \notin stale =>
       (v \in t.vlans[<<l, m>>] <=> IF m = "tagged" THEN l = e.port ELSE l \in s.stored[e.br])

LEMMA FirstSettles ==
  ASSUME NEW e, NEW q, NEW b, b = e.br, NEW l, NEW s, NEW km,
         NEW stale, Heeds(e, q, b, l, s, km, stale),
         NEW t, NEW v \in MaybeVid, v # 0, Firsts(s, t, e, l, v, stale)
  PROVE  Settled(b, l, t, q, km, stale)
<1>1. \A x : Says(e, b, l, x) <=> l = e.port /\ x = v
  BY DEF Says, Firsts
<1>2. ASSUME NEW x \in MaybeVid, Silent(q, b, l, x) PROVE Caught(t, b, l, x, km[<<l, x>>], stale)
  <2> SUFFICES ASSUME x \in {0, v}, <<l, ModeOf(x), v>> \notin stale
               PROVE  km[<<l, x>>] = b <=> v \in t.vlans[<<l, ModeOf(x)>>]
    BY DEF Caught, Firsts
  <2>1. CASE x = 0
    <3>1. ~Says(e, b, l, x)
      BY <1>1, <2>1
    <3>2. Caught(s, b, l, x, km[<<l, x>>], stale)
      BY <1>2, <3>1 DEF Heeds
    <3>3. km[<<l, x>>] = b <=> l \in s.stored[b]
      BY <2>1, <3>2 DEF Caught, Firsts
    <3> QED BY <2>1, <3>3 DEF Firsts, ModeOf, Modes
  <2>2. CASE x = v
    <3>1. v \in t.vlans[<<l, ModeOf(x)>>] <=> l = e.port
      BY <2>2 DEF Firsts, ModeOf, Modes
    <3>2. CASE l = e.port
      BY <1>1, <1>2, <2>2, <3>1, <3>2 DEF Heeds, Firsts
    <3>3. CASE l # e.port
      <4>1. ~Says(e, b, l, x) /\ s.vid[b] = 0 /\ x # 0
        BY <1>1, <2>2, <3>3 DEF Firsts
      <4>2. km[<<l, x>>] = b => Comes(q, b, l, x)
        BY <4>1 DEF Heeds
      <4>3. ~Comes(q, b, l, x)
        BY <1>2 DEF Comes, Silent
      <4> QED BY <3>1, <3>3, <4>2, <4>3
    <3> QED BY <3>2, <3>3
  <2> QED BY <2>1, <2>2
<1> QED BY <1>2 DEF Settled, Firsts
-----------------------------------------------------------------------------
(* What the handlers of member events do to the table.                       *)

(* The table as the events find it. *)
Sure(s, lost, stale) ==
  /\ Cleared(s) /\ Named(s, stale) /\ Sharing(s) \subseteq lost
  /\ \A b \in Bridges \ s.known : s.vid[b] = 0 /\ s.stored[b] = {}

(* Nothing but b and the id of its VLAN is touched. *)
Beside(s, t, b) ==
  /\ s.known = t.known /\ s.entries = t.entries
  /\ \A c \in Bridges \ {b} : t.vid[c] = s.vid[c] /\ t.stored[c] = s.stored[c]
  /\ \A l \in Lags, m \in Modes, w \in MaybeVid :
       w # t.vid[b] => (w \in t.vlans[<<l, m>>] <=> w \in s.vlans[<<l, m>>])

LEMMA BesideSame ==
  ASSUME NEW s \in VlanState, NEW lost, NEW stale, Sure(s, lost, stale), NEW t, NEW b \in s.known,
         Beside(s, t, b), NEW c \in Bridges \ {b}, NEW l \in Lags, <<c, l>> \notin Sharing(t)
  PROVE  Same(s, t, c, l)
<1>1. PICK v : v = s.vid[c]
  OBVIOUS
<1>2. t.vid[c] = v /\ t.stored[c] = s.stored[c] /\ v \in MaybeVid
  BY <1>1 DEF Beside, VlanState
<1>3. ASSUME v # 0 PROVE v # t.vid[b]
  <2>1. c \in t.known /\ b \in t.known
    BY <1>1, <1>3 DEF Sure, Beside
  <2> QED BY <1>2, <1>3, <2>1 DEF Sharing
<1>4. v # 0 => \A m \in Modes : v \in t.vlans[<<l, m>>] <=> v \in s.vlans[<<l, m>>]
  BY <1>2, <1>3 DEF Beside
<1> QED BY <1>1, <1>2, <1>4 DEF Same

(* Of the event's bridge. *)
Does(s, t, e, l, stale) ==
  \/ Stores(s, t, e, l)
  \/ \E v \in MaybeVid : v # 0 /\ (Ids(s, t, e, l, v) \/ Firsts(s, t, e, l, v, stale))

LEMMA DoesSettles ==
  ASSUME NEW e, e.vid \in MaybeVid, NEW s, NEW t, NEW l, NEW stale, Does(s, t, e, l, stale),
         NEW b, b = e.br, NEW q, NEW km, Heeds(e, q, b, l, s, km, stale)
  PROVE  Settled(b, l, t, q, km, stale)
<1>1. CASE Stores(s, t, e, l)
  BY <1>1, StoreSettles
<1>2. ASSUME NEW v \in MaybeVid, v # 0, Ids(s, t, e, l, v) PROVE Settled(b, l, t, q, km, stale)
  BY <1>2, IdSettles
<1>3. ASSUME NEW v \in MaybeVid, v # 0, Firsts(s, t, e, l, v, stale)
      PROVE  Settled(b, l, t, q, km, stale)
  BY <1>3, FirstSettles
<1> QED BY <1>1, <1>2, <1>3 DEF Does

(* nas_process_member_addition_to_vlan *)
LEMMA MemberAddDoes ==
  ASSUME NEW s \in VlanState, NEW e \in Event, e.op = "addPort", NEW b \in s.known, b = e.br,
         NEW p \in Members, p = e.port, NEW x, x = e.vid, ~Mismatch(s, b, x),
         NEW t, t = MemberAdd(s, b, p, x, "none"),
         NEW lost, NEW stale, Sure(s, lost, stale),
         NEW lost1, LostBy(s, e) \cup MisreadBy(s, e) \cup Sharing(t) \subseteq lost1
  PROVE  /\ Beside(s, t, b) /\ Cleared(t)
         /\ \A l \in Lags : <<b, l>> \notin lost1 => Does(s, t, e, l, stale)
<1>0. x \in MaybeVid /\ b \in Bridges /\ s.vid[b] \in MaybeVid /\ (x # 0 => x \in Vids)
      /\ 0 \notin Vids /\ s.vid \in [Bridges -> MaybeVid]
  BY NasVlanLagAssumption DEF Event, VlanState, MaybeVid
<1>1. \A l \in Lags : <<b, l>> \notin lost1 /\ l \notin s.entries =>
        l # p /\ (s.vid[b] = 0 /\ x # 0 => l \notin s.stored[b])
  <2> SUFFICES ASSUME NEW l \in Lags, l \notin s.entries,
                      l = p \/ (s.vid[b] = 0 /\ x # 0 /\ l \in s.stored[b])
               PROVE  <<b, l>> \in LostBy(s, e)
    OBVIOUS
  <2> QED BY DEF LostBy
<1>2. CASE s.vid[b] = 0 /\ x # 0
  <2>1. t = FirstTagged(s, b, x, p, "none") /\ x \in Vids
    BY <1>0, <1>2 DEF MemberAdd
  <2>2. /\ Names(s, t, b, x)
        /\ x \in s.npuVlans => t.vlans = s.vlans
        /\ x \notin s.npuVlans =>
             \A l \in Lags, n \in Modes, w \in MaybeVid :
               w \in t.vlans[<<l, n>>] <=>
                 \/ w \in s.vlans[<<l, n>>]
                 \/ w = x /\ l \in s.entries /\ IF n = "tagged" THEN l = p ELSE l \in s.stored[b]
    BY <1>0, <2>1, FirstTaggedGains
  <2>3. /\ t.vid[b] = x /\ \A c \in Bridges \ {b} : t.vid[c] = s.vid[c]
        /\ t.stored = s.stored /\ t.known = s.known /\ t.entries = s.entries /\ t \in VlanState
    BY <1>0, <2>2 DEF Names
  <2>4. Beside(s, t, b)
    BY <2>2, <2>3 DEF Beside
  <2>5. Cleared(t)
    <3> SUFFICES ASSUME NEW l \in Lags, NEW m \in Modes, l \notin s.entries, NEW w \in t.vlans[<<l, m>>]
                 PROVE  FALSE
      BY <2>3 DEF Cleared
    <3>1. w \in MaybeVid /\ s.vlans[<<l, m>>] = {}
      BY <2>3 DEF VlanState, Sure, Cleared
    <3> QED BY <2>2, <3>1
  <2>6. ASSUME NEW l \in Lags, <<b, l>> \notin lost1, NEW m \in Modes, <<l, m, x>> \notin stale
        PROVE  x \in t.vlans[<<l, m>>] <=> IF m = "tagged" THEN l = p ELSE l \in s.stored[b]
    <3>1. x \notin s.vlans[<<l, m>>]
      <4>1. CASE l \notin s.entries
        BY <4>1 DEF Sure, Cleared
      <4>2. ASSUME l \in s.entries, x \in s.vlans[<<l, m>>] PROVE FALSE
        <5>1. PICK c \in s.known : s.vid[c] = x
          BY <2>1, <2>6, <4>2 DEF Sure, Named
        <5>2. c # b /\ c \in Bridges
          BY <1>2, <5>1 DEF VlanState
        <5>3. c \in t.known \ {b} /\ b \in t.known /\ t.vid[c] = x /\ t.vid[b] = x /\ x # 0
          BY <1>2, <2>3, <5>1, <5>2
        <5>4. <<b, l>> \in Sharing(t)
          BY <5>3 DEF Sharing
        <5> QED BY <2>6, <5>4
      <4> QED BY <4>1, <4>2
    <3>2. CASE x \in s.npuVlans
      <4>1. <<b, l>> \notin MisreadBy(s, e)
        BY <2>6
      <4>2. l # p /\ l \notin s.stored[b]
        BY <1>2, <3>2, <4>1 DEF MisreadBy
      <4> QED BY <2>2, <3>1, <3>2, <4>2
    <3>3. CASE x \notin s.npuVlans
      <4>1. x \in t.vlans[<<l, m>>] <=>
              l \in s.entries /\ IF m = "tagged" THEN l = p ELSE l \in s.stored[b]
        BY <1>0, <2>2, <3>1, <3>3
      <4>2. l \notin s.entries => l # p /\ l \notin s.stored[b]
        BY <1>1, <1>2, <2>6
      <4> QED BY <4>1, <4>2
    <3> QED BY <3>2, <3>3
  <2>7. ASSUME NEW l \in Lags, <<b, l>> \notin lost1 PROVE Firsts(s, t, e, l, x, stale)
    BY <1>2, <2>3, <2>6, <2>7 DEF Firsts
  <2> QED BY <1>0, <1>2, <2>4, <2>5, <2>7 DEF Does
<1>3. CASE s.vid[b] = 0 /\ x = 0 /\ p # Phys
  <2>1. t = [s EXCEPT !.stored[b] = @ \cup {p}]
    BY <1>3 DEF MemberAdd
  <2>2. /\ t.known = s.known /\ t.entries = s.entries /\ t.vid = s.vid /\ t.vlans = s.vlans
        /\ t.stored = [s.stored EXCEPT ![b] = @ \cup {p}]
    BY <2>1 DEF VlanState
  <2>3. t.stored[b] = s.stored[b] \cup {p} /\ \A c \in Bridges \ {b} : t.stored[c] = s.stored[c]
    BY <1>0, <2>2 DEF VlanState
  <2>4. Beside(s, t, b) /\ Cleared(t)
    BY <2>2, <2>3 DEF Beside, Cleared, Sure
  <2>5. \A l \in Lags : Stores(s, t, e, l)
    BY <1>3, <2>2, <2>3 DEF Stores
  <2> QED BY <2>4, <2>5 DEF Does
<1>4. CASE s.vid[b] # 0 /\ p # Phys
  <2>1. t = AddLag(s, p, s.vid[b], ModeOf(x), "none") /\ p \in Lags /\ ModeOf(x) \in Modes
    BY <1>4 DEF MemberAdd, Members, ModeOf, Modes
  <2>2. Still(s, t) /\ Gains(s, t, {p} \cap s.entries, ModeOf(x), s.vid[b])
    BY <1>0, <2>1, AddLagGains
  <2>3. x \in {0, s.vid[b]}
    BY <1>4 DEF Mismatch
  <2>4. Beside(s, t, b)
    BY <2>2 DEF Beside, Still, Gains
  <2>5. Cleared(t)
    <3> SUFFICES ASSUME NEW l \in Lags, NEW m \in Modes, l \notin s.entries, NEW w \in t.vlans[<<l, m>>]
                 PROVE  FALSE
      BY <2>2 DEF Cleared, Still
    <3>1. w \in MaybeVid /\ s.vlans[<<l, m>>] = {}
      BY <2>2 DEF VlanState, Sure, Cleared, Still
    <3> QED BY <2>2, <3>1 DEF Gains
  <2>6. ASSUME NEW l \in Lags, <<b, l>> \notin lost1 PROVE Ids(s, t, e, l, s.vid[b])
    <3>1. l = p => l \in s.entries
      BY <1>1, <2>6
    <3> QED BY <1>0, <2>2, <2>3, <3>1 DEF Ids, Still, Gains
  <2> QED BY <1>0, <1>4, <2>4, <2>5, <2>6 DEF Does
<1>5. CASE p = Phys /\ ~(s.vid[b] = 0 /\ x # 0)
  <2>1. t = s
    BY <1>5 DEF MemberAdd
  <2>2. Beside(s, t, b) /\ Cleared(t)
    BY <2>1 DEF Beside, Sure
  <2>3. ASSUME NEW l \in Lags PROVE Does(s, t, e, l, stale)
    <3>1. l # e.port
      BY <1>5, NasVlanLagAssumption
    <3>2. CASE s.vid[b] = 0
      BY <1>5, <2>1, <3>1, <3>2 DEF Does, Stores
    <3>3. CASE s.vid[b] # 0
      <4>1. Ids(s, t, e, l, s.vid[b])
        BY <2>1, <3>1 DEF Ids
      <4> QED BY <1>0, <3>3, <4>1 DEF Does
    <3> QED BY <3>2, <3>3
  <2> QED BY <2>2, <2>3
<1> QED BY <1>2, <1>3, <1>4, <1>5

(* nas_process_del_vlan_mem_from_os *)
LEMMA MemberDelDoes ==
  ASSUME NEW s \in VlanState, NEW e \in Event, e.op = "delPort", NEW b \in s.known, b = e.br,
         NEW p \in lags, p \in Lags, p = e.port, NEW t, t = OnDelPort(s, b, p, "none"),
         NEW lost, NEW stale, Sure(s, lost, stale), NEW lost1, MisreadBy(s, e) \subseteq lost1
  PROVE  /\ Beside(s, t, b) /\ Cleared(t)
         /\ \A l \in Lags : <<b, l>> \notin lost1 => Does(s, t, e, l, stale)
<1>0. b \in Bridges /\ s.vid[b] \in MaybeVid
  BY DEF VlanState
<1>1. PICK v, m, r : v = s.vid[b] /\ m = DelMode(s, p, v) /\ r = DelLag(s, p, v, "none")
  OBVIOUS
<1>2. Still(s, r) /\ Loses(s, r, {p}, m, v) /\ m \in Modes
  BY <1>0, <1>1, DelLagLoses DEF Sure, DelMode, Modes
<1>3. t = [r EXCEPT !.stored[b] = @ \ {p}]
  BY <1>1 DEF OnDelPort
<1>4. /\ t.known = r.known /\ t.entries = r.entries /\ t.vid = r.vid /\ t.vlans = r.vlans
      /\ t.stored = [r.stored EXCEPT ![b] = @ \ {p}]
  BY <1>2, <1>3 DEF VlanState, Still
<1>5. /\ t.stored[b] = s.stored[b] \ {p} /\ \A c \in Bridges \ {b} : t.stored[c] = s.stored[c]
      /\ t.vid = s.vid /\ t.known = s.known /\ t.entries = s.entries
      /\ \A l \in Lags, n \in Modes, w \in MaybeVid :
           w \in t.vlans[<<l, n>>] <=> w \in s.vlans[<<l, n>>] /\ ~(l = p /\ n = m /\ w = v)
  BY <1>0, <1>2, <1>4 DEF VlanState, Still, Loses
<1>6. Beside(s, t, b)
  BY <1>1, <1>5 DEF Beside
<1>7. Cleared(t)
  <2> SUFFICES ASSUME NEW l \in Lags, NEW n \in Modes, l \notin s.entries, NEW w \in t.vlans[<<l, n>>]
               PROVE  FALSE
    <3>1. t.entries = s.entries
      BY <1>5
    <3> QED BY <3>1 DEF Cleared
  <2>1. w \in MaybeVid /\ s.vlans[<<l, n>>] = {}
    BY <1>2, <1>4 DEF VlanState, Sure, Cleared, Still
  <2> QED BY <1>5, <2>1
<1>8. ASSUME NEW l \in Lags, <<b, l>> \notin lost1 PROVE Does(s, t, e, l, stale)
  <2>1. CASE v = 0
    <3>1. s.vid[b] = 0 /\ t.vid[b] = 0 /\ t.stored[b] = s.stored[b] \ {p}
      BY <1>1, <1>5, <2>1
    <3>2. Stores(s, t, e, l)
      BY <3>1 DEF Stores
    <3> QED BY <3>2 DEF Does
  <2>2. CASE v # 0
    <3>1. ASSUME l = p, v \in s.vlans[<<l, m>>]
          PROVE  e.vid \in {0, v} /\ ModeOf(e.vid) = m
      <4>1. <<b, l>> \notin MisreadBy(s, e)
        BY <1>8
      <4>2. e.vid = IF m = "tagged" THEN v ELSE 0
        BY <1>1, <3>1, <4>1 DEF MisreadBy
      <4> QED BY <1>2, <2>2, <4>2 DEF ModeOf, Modes
    <3>2. ASSUME l = p, v \notin s.vlans[<<l, m>>]
          PROVE  \A n \in Modes : v \notin s.vlans[<<l, n>>]
      BY <1>1, <3>2 DEF DelMode, Modes
    <3>3. Ids(s, t, e, l, v)
      <4> SUFFICES ASSUME NEW n \in Modes
                   PROVE  v \in t.vlans[<<l, n>>] <=>
                            IF l = p /\ e.vid \in {0, v} /\ n = ModeOf(e.vid)
                            THEN FALSE ELSE v \in s.vlans[<<l, n>>]
        BY <1>1, <1>5 DEF Ids
      <4>1. v \in t.vlans[<<l, n>>] <=> v \in s.vlans[<<l, n>>] /\ ~(l = p /\ n = m)
        BY <1>0, <1>1, <1>5
      <4> QED BY <3>1, <3>2, <4>1
    <3> QED BY <1>0, <1>1, <2>2, <3>3 DEF Does
  <2> QED BY <2>1, <2>2
<1> QED BY <1>6, <1>7, <1>8
-----------------------------------------------------------------------------
(* A kernel event. *)

Finds(s, e, kb, us, lost, stale) ==
  /\ s \in VlanState /\ Sure(s, lost, stale) /\ e \in Event /\ Proper(e, us) /\ lags \subseteq Lags
  /\ \A b \in Bridges : e = BridgeEvent("delBridge", b) => b \notin kb

Handles(s, e, t, q, kb, us, km, lost, stale) ==
  /\ Cleared(t)
  /\ \A b \in Bridges \ t.known : t.vid[b] = 0 /\ t.stored[b] = {}
  /\ \A b \in t.known : b \in s.known \/ e = BridgeEvent("newBridge", b)
  /\ \A b \in t.known : e # BridgeEvent("delBridge", b)
  /\ \A b \in Present(Bridges, kb, us), l \in Present(Lags, lags, us) :
       <<b, l>> \notin lost /\ Heeds(e, q, b, l, s, km, stale) => Settled(b, l, t, q, km, stale)

(* nas_vlan_main's handlers of bridges. *)
LEMMA NewHandles ==
  ASSUME NEW s, NEW e, NEW kb, NEW us, NEW lost, NEW stale, Finds(s, e, kb, us, lost, stale),
         e.op = "newBridge", NEW t, t = BridgeInsert(s, e.br), NEW q, NEW km, NEW lost1
  PROVE  Handles(s, e, t, q, kb, us, km, lost1, stale)
<1>1. PICK b : b = e.br
  OBVIOUS
<1>2. e = BridgeEvent("newBridge", b) /\ s \in VlanState /\ Sure(s, lost, stale) /\ b \in Bridges
  BY <1>1 DEF Finds, Proper, Event
<1>3. /\ t.known = s.known \cup {b} /\ t.entries = s.entries /\ t.vlans = s.vlans
      /\ t.stored = s.stored /\ \A c \in Bridges : t.vid[c] = s.vid[c]
  <2>1. CASE b \in s.known
    BY <1>1, <2>1 DEF BridgeInsert
  <2>2. CASE b \notin s.known
    <3>1. t = [s EXCEPT !.known = @ \cup {b}, !.vid[b] = 0] /\ s.vid[b] = 0
      BY <1>1, <1>2, <2>2 DEF BridgeInsert, Sure
    <3>2. /\ t.known = s.known \cup {b} /\ t.entries = s.entries /\ t.vlans = s.vlans
          /\ t.stored = s.stored /\ t.vid = [s.vid EXCEPT ![b] = 0]
      BY <1>2, <3>1 DEF VlanState
    <3>3. \A c \in Bridges : t.vid[c] = s.vid[c]
      BY <1>2, <3>1, <3>2 DEF VlanState
    <3> QED BY <3>2, <3>3
  <2> QED BY <2>1, <2>2
<1>4. \A c \in Bridges, l \in Lags : Same(s, t, c, l)
  BY <1>3 DEF Same
<1>5. /\ \A c, l, x : ~Says(e, c, l, x)
      /\ \A c : e # BridgeEvent("delBridge", c)
  BY <1>2, BridgeEvents
<1>6. ASSUME NEW c \in Bridges, NEW l \in Lags, Heeds(e, q, c, l, s, km, stale)
      PROVE  Settled(c, l, t, q, km, stale)
  BY <1>4, <1>5, <1>6, UnsaidSettles
<1>7. Cleared(t) /\ \A c \in Bridges \ t.known : t.vid[c] = 0 /\ t.stored[c] = {}
  BY <1>2, <1>3 DEF Sure, Cleared
<1> QED BY <1>2, <1>3, <1>5, <1>6, <1>7 DEF Handles, Present

LEMMA CleanupSame ==
  ASSUME NEW s \in VlanState, NEW b \in Bridges, NEW f, NEW t, t = BridgeCleanup(s, b, f)
  PROVE  /\ t.known = s.known \ {b} /\ t.entries = s.entries /\ t.vlans = s.vlans
         /\ t.vid[b] = 0 /\ t.stored[b] = {}
         /\ \A c \in Bridges \ {b} : /\ t.vid[c] = s.vid[c] /\ t.stored[c] = s.stored[c]
                                     /\ \A l : Same(s, t, c, l)
<1>1. /\ t.known = s.known \ {b} /\ t.entries = s.entries /\ t.vlans = s.vlans
      /\ t.vid = [s.vid EXCEPT ![b] = 0] /\ t.stored = [s.stored EXCEPT ![b] = {}]
  BY DEF BridgeCleanup, VlanState
<1>2. /\ t.vid[b] = 0 /\ t.stored[b] = {}
      /\ \A c \in Bridges \ {b} : t.vid[c] = s.vid[c] /\ t.stored[c] = s.stored[c]
  BY <1>1 DEF VlanState
<1>3. \A c \in Bridges \ {b} : \A l : Same(s, t, c, l)
  BY <1>1, <1>2 DEF Same
<1> QED BY <1>1, <1>2, <1>3

LEMMA GoneHandles ==
  ASSUME NEW s, NEW e, NEW kb, NEW us, NEW lost, NEW stale, Finds(s, e, kb, us, lost, stale),
         e.op = "delBridge",
         NEW t, t = IF e.br \in s.known THEN BridgeCleanup(s, e.br, "none") ELSE s,
         NEW q, NEW km, NEW lost1
  PROVE  Handles(s, e, t, q, kb, us, km, lost1, stale)
<1>1. PICK b : b = e.br
  OBVIOUS
<1>2. /\ e = BridgeEvent("delBridge", b) /\ s \in VlanState /\ Sure(s, lost, stale) /\ b \in Bridges
      /\ b \in us /\ b \notin kb
  BY <1>1 DEF Finds, Proper, Event
<1>3. /\ t.known = s.known \ {b} /\ t.entries = s.entries /\ t.vlans = s.vlans
      /\ t.vid[b] = 0 /\ t.stored[b] = {}
      /\ \A c \in Bridges \ {b} : /\ t.vid[c] = s.vid[c] /\ t.stored[c] = s.stored[c]
                                  /\ \A l : Same(s, t, c, l)
  <2>1. CASE b \in s.known
    <3>1. t = BridgeCleanup(s, b, "none")
      BY <1>1, <2>1
    <3> QED BY <1>2, <3>1, CleanupSame
  <2>2. CASE b \notin s.known
    BY <1>1, <1>2, <2>2 DEF Sure, Same
  <2> QED BY <2>1, <2>2
<1>4. /\ \A c, l, x : ~Says(e, c, l, x)
      /\ \A c : /\ e = BridgeEvent("delBridge", c) => c = b
                /\ e # BridgeEvent("newBridge", c)
  BY <1>2, BridgeEvents
<1>5. ASSUME NEW c \in Bridges \ {b}, NEW l \in Lags, Heeds(e, q, c, l, s, km, stale)
      PROVE  Settled(c, l, t, q, km, stale)
  <2>1. Same(s, t, c, l)
    BY <1>3
  <2> QED BY <1>4, <1>5, <2>1, UnsaidSettles
<1>6. b \notin Present(Bridges, kb, us)
  BY <1>2 DEF Present
<1>7. Cleared(t) /\ \A c \in Bridges \ t.known : t.vid[c] = 0 /\ t.stored[c] = {}
  BY <1>2, <1>3 DEF Sure, Cleared
<1> QED BY <1>3, <1>4, <1>5, <1>6, <1>7 DEF Handles, Present

(* The handlers of members. *)
LEMMA BesideHandles ==
  ASSUME NEW s, NEW e, NEW kb, NEW us, NEW lost, NEW stale, Finds(s, e, kb, us, lost, stale),
         e.op \in {"addPort", "delPort"}, NEW b \in s.known, b = e.br, NEW t, Beside(s, t, b),
         Cleared(t), NEW lost1, Sharing(t) \subseteq lost1,
         \A l \in Lags : <<b, l>> \notin lost1 => Does(s, t, e, l, stale), NEW q, NEW km
  PROVE  Handles(s, e, t, q, kb, us, km, lost1, stale)
<1>1. /\ s \in VlanState /\ Sure(s, lost, stale) /\ e.vid \in MaybeVid /\ b \in Bridges
      /\ s.known \subseteq Bridges
  BY DEF Finds, Event, VlanState
<1>2. \A c : e # BridgeEvent("delBridge", c) /\ e # BridgeEvent("newBridge", c)
  BY DEF BridgeEvent
<1>3. \A c, l, x : Says(e, c, l, x) => c = b
  BY DEF Says
<1>4. ASSUME NEW c \in Bridges, NEW l \in Lags, <<c, l>> \notin lost1, Heeds(e, q, c, l, s, km, stale)
      PROVE  Settled(c, l, t, q, km, stale)
  <2>1. CASE c = b
    <3>1. Does(s, t, e, l, stale) /\ Heeds(e, q, b, l, s, km, stale)
      BY <1>4, <2>1
    <3> QED BY <1>1, <2>1, <3>1, DoesSettles
  <2>2. CASE c # b
    <3>1. Same(s, t, c, l)
      BY <1>1, <1>4, <2>2, BesideSame
    <3>2. \A x : ~Says(e, c, l, x)
      BY <1>3, <2>2
    <3> QED BY <1>4, <3>1, <3>2, UnsaidSettles
  <2> QED BY <2>1, <2>2
<1>5. t.known = s.known /\ \A c \in Bridges \ t.known : t.vid[c] = 0 /\ t.stored[c] = {}
  BY <1>1 DEF Beside, Sure
<1> QED BY <1>2, <1>4, <1>5 DEF Handles, Present

(* An event that leaves the table as it is. *)
LEMMA IgnoredHandles ==
  ASSUME NEW s, NEW e, NEW kb, NEW us, NEW lost, NEW stale, Finds(s, e, kb, us, lost, stale),
         e.op \in {"addPort", "delPort"}, NEW lost1,
         \A b \in Bridges, l \in Present(Lags, lags, us) : b = e.br /\ l = e.port =>
           <<b, l>> \in lost1 \/ Does(s, s, e, l, stale), NEW q, NEW km
  PROVE  Handles(s, e, s, q, kb, us, km, lost1, stale)
<1>1. s \in VlanState /\ Sure(s, lost, stale) /\ e.vid \in MaybeVid
  BY DEF Finds, Event
<1>2. \A c : e # BridgeEvent("delBridge", c) /\ e # BridgeEvent("newBridge", c)
  BY DEF BridgeEvent
<1>3. ASSUME NEW c \in Bridges, NEW l \in Present(Lags, lags, us), <<c, l>> \notin lost1,
             Heeds(e, q, c, l, s, km, stale)
      PROVE  Settled(c, l, s, q, km, stale)
  <2>1. CASE c = e.br /\ l = e.port
    <3>1. Does(s, s, e, l, stale)
      BY <1>3, <2>1
    <3> QED BY <1>1, <1>3, <2>1, <3>1, DoesSettles
  <2>2. CASE ~(c = e.br /\ l = e.port)
    <3>1. \A x : ~Says(e, c, l, x)
      BY <2>2 DEF Says
    <3>2. Same(s, s, c, l)
      BY DEF Same
    <3> QED BY <1>3, <3>1, <3>2, UnsaidSettles
  <2> QED BY <2>1, <2>2
<1> QED BY <1>1, <1>2, <1>3 DEF Handles, Sure, Present

LEMMA AddHandles ==
  ASSUME NEW s, NEW e, NEW kb, NEW us, NEW lost, NEW stale, Finds(s, e, kb, us, lost, stale),
         e.op = "addPort", ~Fatal(s, e), NEW t, t = Handle(s, e, "none"), NEW lost1,
         lost \cup LostBy(s, e) \cup MisreadBy(s, e) \cup Sharing(t) \subseteq lost1, NEW q, NEW km
  PROVE  Handles(s, e, t, q, kb, us, km, lost1, stale)
<1>1. PICK b, p, x : b = e.br /\ p = e.port /\ x = e.vid
  OBVIOUS
<1>2. /\ s \in VlanState /\ Sure(s, lost, stale) /\ e \in Event /\ b \in s.known /\ p \in us \cup {Phys}
      /\ x \in MaybeVid /\ s.vid[b] \in MaybeVid /\ b \in Bridges
  BY <1>1 DEF Finds, Fatal, Event, Proper, VlanState
<1>3. t = OnAddPort(s, b, p, x, "none")
  BY <1>1 DEF Handle
<1>4. CASE Mismatch(s, b, x) \/ p \notin lags \cup {Phys}
  <2>1. t = s
    BY <1>3, <1>4 DEF OnAddPort
  <2>2. ASSUME NEW l \in Present(Lags, lags, us), l = p
        PROVE  <<b, l>> \in lost1 \/ Does(s, s, e, l, stale)
    <3>1. l \in Lags /\ l # Phys /\ l \in lags
      BY <1>2, <2>2, NasVlanLagAssumption DEF Present
    <3>2. x # 0 /\ s.vid[b] # 0 /\ (x # s.vid[b] \/ \E o \in s.known \ {b} : s.vid[o] = s.vid[b])
      BY <1>4, <2>2, <3>1 DEF Mismatch
    <3>3. CASE x # s.vid[b]
      <4>1. Ids(s, s, e, l, s.vid[b])
        BY <1>1, <3>2, <3>3 DEF Ids
      <4> QED BY <1>2, <3>2, <4>1 DEF Does
    <3>4. ASSUME NEW o \in s.known \ {b}, s.vid[o] = s.vid[b] PROVE <<b, l>> \in lost1
      <4>1. <<b, l>> \in Sharing(s)
        BY <1>2, <3>1, <3>2, <3>4 DEF Sharing
      <4> QED BY <1>2, <4>1 DEF Sure
    <3> QED BY <3>2, <3>3, <3>4
  <2> QED BY <1>1, <2>1, <2>2, IgnoredHandles
<1>5. CASE ~Mismatch(s, b, x) /\ p \in lags \cup {Phys}
  <2>1. t = MemberAdd(s, b, p, x, "none")
    BY <1>3, <1>5 DEF OnAddPort
  <2>2. p \in Members
    BY <1>5 DEF Finds, Members
  <2>3. LostBy(s, e) \cup MisreadBy(s, e) \cup Sharing(t) \subseteq lost1
    OBVIOUS
  <2>4. /\ Beside(s, t, b) /\ Cleared(t)
        /\ \A l \in Lags : <<b, l>> \notin lost1 => Does(s, t, e, l, stale)
    BY <1>1, <1>2, <1>5, <2>1, <2>2, <2>3, MemberAddDoes
  <2>5. Sharing(t) \subseteq lost1
    OBVIOUS
  <2> QED BY <1>1, <1>2, <2>4, <2>5, BesideHandles
<1> QED BY <1>4, <1>5

LEMMA DelHandles ==
  ASSUME NEW s, NEW e, NEW kb, NEW us, NEW lost, NEW stale, Finds(s, e, kb, us, lost, stale),
         e.op = "delPort", NEW t, t = Handle(s, e, "none"), NEW lost1,
         lost \cup LostBy(s, e) \cup MisreadBy(s, e) \cup Sharing(t) \subseteq lost1, NEW q, NEW km
  PROVE  Handles(s, e, t, q, kb, us, km, lost1, stale)
<1>1. PICK b, p : b = e.br /\ p = e.port
  OBVIOUS
<1>2. /\ s \in VlanState /\ Sure(s, lost, stale) /\ e \in Event /\ p \in us \cup {Phys}
      /\ b \in Bridges /\ lags \subseteq Lags
  BY <1>1 DEF Finds, Event, Proper
<1>3. t = OnDelPort(s, b, p, "none")
  BY <1>1 DEF Handle
<1>4. CASE b \notin s.known \/ p \notin lags
  <2>1. t = s
    BY <1>3, <1>4 DEF OnDelPort
  <2>2. ASSUME NEW l \in Present(Lags, lags, us), l = p PROVE Does(s, s, e, l, stale)
    <3>1. l \in lags
      BY <1>2, <2>2, NasVlanLagAssumption DEF Present
    <3>2. s.vid[b] = 0 /\ s.stored[b] = {}
      BY <1>2, <1>4, <2>2, <3>1 DEF Sure
    <3> QED BY <1>1, <2>2, <3>2 DEF Does, Stores
  <2> QED BY <1>1, <2>1, <2>2, IgnoredHandles
<1>5. CASE b \in s.known /\ p \in lags
  <2>1. p \in Lags /\ MisreadBy(s, e) \subseteq lost1
    BY <1>2, <1>5
  <2>2. /\ Beside(s, t, b) /\ Cleared(t)
        /\ \A l \in Lags : <<b, l>> \notin lost1 => Does(s, t, e, l, stale)
    BY <1>1, <1>2, <1>3, <1>5, <2>1, MemberDelDoes
  <2>3. Sharing(t) \subseteq lost1
    OBVIOUS
  <2> QED BY <1>1, <1>5, <2>2, <2>3, BesideHandles
<1> QED BY <1>4, <1>5

LEMMA EventHandles ==
  ASSUME NEW s, NEW e, NEW kb, NEW us, NEW lost, NEW stale, Finds(s, e, kb, us, lost, stale),
         ~Fatal(s, e), NEW t, t = Handle(s, e, "none"), NEW lost1,
         lost \cup LostBy(s, e) \cup MisreadBy(s, e) \cup Sharing(t) \subseteq lost1, NEW q, NEW km
  PROVE  Handles(s, e, t, q, kb, us, km, lost1, stale)
<1>1. e.op \in {"newBridge", "delBridge", "addPort", "delPort"}
  BY DEF Finds, Event
<1>2. CASE e.op = "newBridge"
  <2>1. t = BridgeInsert(s, e.br)
    BY <1>2 DEF Handle
  <2> QED BY <1>2, <2>1, NewHandles
<1>3. CASE e.op = "delBridge"
  <2>1. t = IF e.br \in s.known THEN BridgeCleanup(s, e.br, "none") ELSE s
    BY <1>3 DEF Handle
  <2> QED BY <1>3, <2>1, GoneHandles
<1>4. CASE e.op = "addPort"
  BY <1>4, AddHandles
<1>5. CASE e.op = "delPort"
  BY <1>5, DelHandles
<1> QED BY <1>1, <1>2, <1>3, <1>4, <1>5
-----------------------------------------------------------------------------
(* The steps and what the kernel's events still have to tell. *)

LEMMA HeardKnows ==
  ASSUME TypeInv, Heard
  PROVE  KernelKnows
BY TypeParts DEF TypeInv, Heard, Given, KernelKnows

LEMMA MeetsSame ==
  ASSUME NEW s, NEW q, NEW km, NEW B, NEW L, NEW lost, NEW stale, Meets(s, q, km, B, L, lost, stale),
         NEW t, NEW B1, B1 \subseteq B, NEW L1, L1 \subseteq L, NEW lost1, lost \subseteq lost1,
         NEW stale1, stale \subseteq stale1,
         \A b \in B1, l \in L1 :
           <<b, l>> \notin lost1 => Same(s, t, b, l) \/ Settled(b, l, t, q, km, stale1)
  PROVE  Meets(t, q, km, B1, L1, lost1, stale1)
<1> SUFFICES ASSUME NEW b \in B1, NEW l \in L1, <<b, l>> \notin lost1, Same(s, t, b, l)
             PROVE  Settled(b, l, t, q, km, stale1)
  BY DEF Meets
<1>1. Settled(b, l, s, q, km, stale)
  BY DEF Meets
<1>2. Settled(b, l, t, q, km, stale)
  BY <1>1, SameSettled
<1> QED BY <1>2, SettledMore

(* The bridges and LAGs whose events were lost or misread. *)
Excluded == history.lost \cup history.misread

(* What the kernel does while the daemon does nothing. *)
LEMMA ReportHears ==
  ASSUME TypeInv, Heard, NEW a, Reports(a), kbridges' \subseteq used'
  PROVE  /\ Logged(queue', kbridges', kmem', used') /\ Deleted(nas, queue', kbridges')
         /\ Begun(nas, cps, queue', kmem')
         /\ Present(Bridges, kbridges', used') \subseteq Present(Bridges, kbridges, used)
         /\ Meets(nas, queue', kmem', Present(Bridges, kbridges', used'),
                  Present(Lags, lags, used), Excluded, history.stale)
<1>1. KernelKnows
  BY HeardKnows
<1>2. nas \in VlanState /\ cps \in CpsState /\ (cps.item # None => cps.br \in Bridges)
  BY TypeParts DEF TypeInv, ThreadType, Served
<1>3. PICK s, L, lost, stale : s = nas /\ L = Present(Lags, lags, used) /\ lost = Excluded
                               /\ stale = history.stale
  OBVIOUS
<1>4. L \subseteq Lags
  BY <1>3 DEF Present
<1>5. /\ Deleted(s, queue, kbridges) /\ Begun(s, cps, queue, kmem)
      /\ Meets(s, queue, kmem, Present(Bridges, kbridges, used), L, lost, stale)
  BY <1>3 DEF Heard, Excluded
<1>6. Logged(queue', kbridges', kmem', used')
  BY <1>1, LoggedGrows
<1>7. /\ Deleted(s, queue', kbridges') /\ Begun(s, cps, queue', kmem')
      /\ Present(Bridges, kbridges', used') \subseteq Present(Bridges, kbridges, used)
  BY <1>1, <1>2, <1>3, <1>5, ReportKeeps
<1>8. Meets(s, queue', kmem', Present(Bridges, kbridges', used'), L, lost, stale)
  BY <1>1, <1>4, <1>5, ReportKeeps
<1> QED BY <1>3, <1>6, <1>7, <1>8

(* Other programs. *)
LEMMA AsideHears ==
  ASSUME TypeInv, Heard, NEW a, Reports(a), kbridges' \subseteq used',
         UNCHANGED <<lags, pubs, nas, cps, history>>, kbonds' \subseteq kbonds
  PROVE  Heard'
<1>1. used \subseteq used'
  BY DEF Reports
<1>2. /\ Logged(queue', kbridges', kmem', used') /\ Deleted(nas, queue', kbridges')
      /\ Begun(nas, cps, queue', kmem')
      /\ Meets(nas, queue', kmem', Present(Bridges, kbridges', used'),
                  Present(Lags, lags, used), Excluded, history.stale)
  BY ReportHears
<1>3. Present(Lags, lags, used') \subseteq Present(Lags, lags, used)
  BY <1>1, PresentShrinks
<1>4. Meets(nas, queue', kmem', Present(Bridges, kbridges', used'),
            Present(Lags, lags, used'), Excluded, history.stale)
  BY <1>2, <1>3 DEF Meets
<1>5. Given'
  BY <1>1 DEF Heard, Given, Removed
<1>6. Cleared(nas)
  BY DEF Heard
<1> QED BY <1>2, <1>4, <1>5, <1>6 DEF Heard, Excluded

LEMMA OtherHears ==
  ASSUME TypeInv, Heard, Other
  PROVE  Heard'
<1>0. KernelKnows /\ Given
  BY HeardKnows DEF Heard
<1>1. UNCHANGED <<lags, pubs, nas, cps, history>> /\ kbonds' \subseteq kbonds
  BY DEF Other, OtherCreate, OtherDelete, OtherJoin, OtherLeave, BondGone, table
<1>2. (\E a : Reports(a)) /\ kbridges' \subseteq used'
  <2>1. ASSUME NEW b \in Bridges, OtherCreate(b)
        PROVE  (\E a : Reports(a)) /\ kbridges' \subseteq used'
    <3>1. KernelCreate(b)
      BY <2>1 DEF OtherCreate
    <3>2. kbridges' \subseteq used'
      BY <1>0, <3>1 DEF KernelCreate, Given
    <3> QED BY <1>0, <3>1, <3>2, CreateReports
  <2>2. ASSUME NEW b \in Bridges, OtherDelete(b)
        PROVE  (\E a : Reports(a)) /\ kbridges' \subseteq used'
    <3>1. KernelDelete(b) /\ b \in kbridges
      BY <2>2 DEF OtherDelete
    <3>2. (\E a : Reports(a)) /\ kbridges' = kbridges \ {b} /\ used' = used
      BY <1>0, <3>1, DeleteReports
    <3> QED BY <1>0, <3>2 DEF Given
  <2>3. ASSUME NEW b \in Bridges, NEW p \in Members, NEW v \in VidsOf[b] \cup {0},
               OtherJoin(b, p, v)
        PROVE  (\E a : Reports(a)) /\ kbridges' \subseteq used'
    <3>1. v \in MaybeVid
      BY NasVlanLagAssumption DEF MaybeVid
    <3>2. KernelJoin(b, p, v) /\ b \in kbridges /\ p \in used \cup {Phys}
      BY <1>0, <2>3 DEF OtherJoin, Given
    <3>3. (\E a : Reports(a)) /\ UNCHANGED <<kbridges, used>>
      BY <1>0, <3>1, <3>2, JoinReports
    <3> QED BY <1>0, <3>3 DEF Given
  <2>4. ASSUME NEW p \in Members, NEW v \in MaybeVid, OtherLeave(p, v)
        PROVE  (\E a : Reports(a)) /\ kbridges' \subseteq used'
    <3>1. KernelLeave(p, v)
      BY <2>4 DEF OtherLeave
    <3>2. (\E a : Reports(a)) /\ UNCHANGED <<kbridges, used>>
      BY <1>0, <3>1, LeaveReports
    <3> QED BY <1>0, <3>2 DEF Given
  <2>5. ASSUME NEW l \in Lags, BondGone(l)
        PROVE  (\E a : Reports(a)) /\ kbridges' \subseteq used'
    <3>1. (\E a : Reports(a)) /\ kbridges' = kbridges /\ used' = used
      BY <1>0, <2>5, GoneReports
    <3> QED BY <1>0, <3>1 DEF Given
  <2> QED BY <2>1, <2>2, <2>3, <2>4, <2>5 DEF Other
<1> QED BY <1>1, <1>2, AsideHears

(* The LAG manager. *)
LEMMA ManagerHears ==
  ASSUME TypeInv, Heard, LagManager
  PROVE  Heard'
<1>1. UNCHANGED <<nas, cps, queue, kmem, kbridges>> /\ pubs \in Seq(Publication)
      /\ lags \subseteq Lags
  BY TypeParts DEF TypeInv, ManagerType,
                   LagManager, LagAdd, LagJoin, LagLeave, LagRequest, LagRemove, kernel
<1>2. history'.stale = history.stale /\ Excluded' = Excluded
  BY ManagerSays DEF SaysOnly, Excluded
<1>3. /\ kbonds \cup lags \cup kbridges \subseteq used
      /\ \A i \in 1..Len(pubs) : pubs[i].op = "delete" => pubs[i].lag \in used \ lags
  BY DEF Heard, Given, Removed
<1>4. ASSUME Removed(pubs', lags', used'),
             used \subseteq used', \A l \in lags' : l \in lags \/ l \notin used,
             kbonds' \cup lags' \subseteq used'
      PROVE  Heard'
  <2>1. Given'
    BY <1>1, <1>3, <1>4 DEF Given
  <2>2. /\ Present(Lags, lags', used') \subseteq Present(Lags, lags, used)
        /\ Present(Bridges, kbridges, used') \subseteq Present(Bridges, kbridges, used)
    BY <1>4 DEF Present
  <2>3. Meets(nas, queue, kmem, Present(Bridges, kbridges, used'), Present(Lags, lags', used'),
              Excluded, history.stale)
    BY <2>2 DEF Heard, Meets, Excluded
  <2>4. Logged(queue, kbridges, kmem, used')
    <3>1. \A d : Proper(d, used) => Proper(d, used')
      BY <1>4 DEF Proper
    <3> QED BY <1>4, <3>1 DEF Heard, Logged
  <2>5. Cleared(nas) /\ Deleted(nas, queue, kbridges) /\ Begun(nas, cps, queue, kmem)
    BY DEF Heard
  <2> QED BY <1>1, <1>2, <2>1, <2>3, <2>4, <2>5 DEF Heard, Excluded
<1>5. ASSUME NEW e, e.op = "delete" => e.lag \in used' \ lags', pubs' = Append(pubs, e),
             used \subseteq used', \A l \in lags' : l \in lags \/ l \notin used
      PROVE  Removed(pubs', lags', used')
  <2>1. \A i \in 1..Len(pubs') : IF i = Len(pubs) + 1 THEN pubs'[i] = e
                                 ELSE i \in 1..Len(pubs) /\ pubs'[i] = pubs[i]
    <3>1. Len(pubs) \in Nat /\ Len(pubs') = Len(pubs) + 1
      BY <1>1, <1>5
    <3> QED BY <1>1, <1>5, <3>1
  <2> QED BY <1>3, <1>5, <2>1 DEF Removed
<1>6. ASSUME NEW l \in Lags, LagAdd(l) PROVE Heard'
  <2>1. /\ l \notin used /\ used' = used \cup {l} /\ kbonds' = kbonds \cup {l}
        /\ lags' = lags \cup {l}
    BY <1>6 DEF LagAdd
  <2>2. PICK e : pubs' = Append(pubs, e) /\ e.op = "create"
    BY <1>6 DEF LagAdd, Publish
  <2>3. Removed(pubs', lags', used')
    BY <1>5, <2>1, <2>2
  <2> QED BY <1>3, <1>4, <2>1, <2>3
<1>7. ASSUME NEW l \in Lags, LagRemove(l) PROVE Heard'
  <2>1. lags' = lags \ {l} /\ l \in lags /\ UNCHANGED <<used, kbonds>>
    BY <1>7 DEF LagRemove, kernel
  <2>2. PICK e : pubs' = Append(pubs, e) /\ e.op = "delete" /\ e.lag = l
    BY <1>7 DEF LagRemove, Publish
  <2>3. Removed(pubs', lags', used')
    BY <1>3, <1>5, <2>1, <2>2
  <2> QED BY <1>3, <1>4, <2>1, <2>3
<1>8. ASSUME NEW l, Publish("set", l) \/ Withhold, UNCHANGED <<lags, used, kbonds>>
      PROVE  Heard'
  <2>1. Removed(pubs', lags', used')
    <3>1. CASE Publish("set", l)
      <4>1. PICK e : pubs' = Append(pubs, e) /\ e.op = "set"
        BY <3>1 DEF Publish
      <4> QED BY <1>5, <1>8, <4>1
    <3>2. CASE Withhold
      BY <1>3, <1>8, <3>2 DEF Withhold, Removed
    <3> QED BY <1>8, <3>1, <3>2
  <2> QED BY <1>3, <1>4, <1>8, <2>1
<1>9. ASSUME NEW l \in Lags, NEW p \in Ports, LagJoin(l, p) \/ LagLeave(l, p) PROVE Heard'
  BY <1>8, <1>9 DEF LagJoin, LagLeave, kernel
<1>10. ASSUME NEW l \in Lags, NEW S, NEW adding, NEW ok, LagRequest(l, S, adding, ok)
       PROVE  Heard'
  BY <1>8, <1>10 DEF LagRequest, kernel
<1> QED BY <1>6, <1>7, <1>9, <1>10 DEF LagManager

LEMMA VlanEventHears ==
  ASSUME TypeInv, Tracked, Heard, VlanEvent("none")
  PROVE  Heard'
<1>0. /\ nas \in VlanState /\ history \in History /\ queue \in Seq(Event) /\ lags \subseteq Lags
  BY TypeParts DEF TypeInv, ThreadType, KernelType, ManagerType
<1>1. PICK e, q, t : e = Head(queue) /\ q = queue' /\ t = nas'
  OBVIOUS
<1>2. /\ cps.br = None /\ queue # <<>> /\ q = Tail(queue) /\ ~Fatal(nas, e)
      /\ t = Handle(nas, e, "none")
      /\ UNCHANGED <<lags, pubs, kbonds, kbridges, kmem, used, cps>>
  BY <1>1 DEF VlanEvent, Take, table
<1>3. cps.item = None
  BY <1>2, IdleCps
<1>4. PICK lost, lost1, stale, stale1 :
        /\ lost = Excluded /\ lost1 = Excluded' /\ stale = history.stale /\ stale1 = history'.stale
  OBVIOUS
<1>5. /\ lost \cup LostBy(nas, e) \cup MisreadBy(nas, e) \cup Sharing(t) \subseteq lost1
      /\ stale \subseteq stale1
  <2>1. PICK L, M, S : /\ L = LostBy(nas, e) \cup Sharing(t) /\ M = MisreadBy(nas, e)
                       /\ S = IF e.op = "delBridge" /\ e.br \in nas.known
                              THEN StaleAfter(nas, e.br) ELSE {}
    OBVIOUS
  <2>2. history' = [history EXCEPT !.lost = @ \cup L, !.misread = @ \cup M, !.stale = @ \cup S]
    BY <1>1, <2>1 DEF VlanEvent
  <2>3. /\ history'.lost = history.lost \cup L /\ history'.misread = history.misread \cup M
        /\ history'.stale = history.stale \cup S
    BY <1>0, <2>2 DEF History
  <2> QED BY <1>4, <2>1, <2>3 DEF Excluded
<1>6. Sure(nas, lost, stale)
  <2>1. Matches(nas, history.lost, history.stale, Lacking(history), history.torn \cup history.orphaned)
    BY <1>3, IdleFollow DEF Tracked
  <2>2. Named(nas, stale) /\ Sharing(nas) \subseteq lost
    BY <1>4, <2>1 DEF Matches, Excluded
  <2> QED BY <2>2 DEF Sure, Heard, Deleted
<1>7. /\ Logged(q, kbridges, kmem, used) /\ Proper(e, used)
      /\ \A b \in Bridges : /\ e = BridgeEvent("delBridge", b) => b \notin kbridges
                            /\ e = BridgeEvent("newBridge", b) /\ b \notin kbridges =>
                                 Queued(q, BridgeEvent("delBridge", b))
  BY <1>0, <1>1, <1>2, LoggedTaken DEF Heard
<1>8. e \in Event
  BY <1>0, <1>1, <1>2, Dropped
<1>9. Finds(nas, e, kbridges, used, lost, stale)
  BY <1>0, <1>6, <1>7, <1>8 DEF Finds
<1>10. Handles(nas, e, t, q, kbridges, used, kmem, lost1, stale)
  BY <1>2, <1>5, <1>9, EventHandles
<1>11. ASSUME NEW b \in Present(Bridges, kbridges, used), NEW l \in Present(Lags, lags, used),
              <<b, l>> \notin lost1
       PROVE  Settled(b, l, t, q, kmem, stale1)
  <2>1. Settled(b, l, nas, queue, kmem, stale)
    BY <1>4, <1>5, <1>11 DEF Heard, Meets, Excluded
  <2>2. b \in Bridges /\ l \in Lags
    BY DEF Present
  <2>3. Logged(queue, kbridges, kmem, used)
    BY DEF Heard
  <2>4. Heeds(e, q, b, l, nas, kmem, stale)
    BY <1>0, <1>1, <1>2, <2>1, <2>2, <2>3, TakenHeeds
  <2>5. Settled(b, l, t, q, kmem, stale)
    BY <1>10, <1>11, <2>4 DEF Handles
  <2> QED BY <1>5, <2>5, SettledMore
<1>12. Meets(t, q, kmem, Present(Bridges, kbridges, used), Present(Lags, lags, used), lost1, stale1)
  BY <1>11 DEF Meets
<1>13. Deleted(t, q, kbridges)
  <2>1. \A d : Queued(queue, d) <=> d = e \/ Queued(q, d)
    BY <1>0, <1>1, <1>2, TakenFacts
  <2>2. ASSUME NEW b \in Bridges, b \in t.known, b \notin kbridges
        PROVE  Queued(q, BridgeEvent("delBridge", b))
    <3>1. CASE b \in nas.known
      <4>1. Queued(queue, BridgeEvent("delBridge", b))
        BY <2>2, <3>1 DEF Heard, Deleted
      <4> QED BY <1>10, <2>1, <2>2, <4>1 DEF Handles
    <3>2. CASE b \notin nas.known
      BY <1>7, <1>10, <2>2, <3>2 DEF Handles
    <3> QED BY <3>1, <3>2
  <2> QED BY <1>10, <2>2 DEF Deleted, Handles
<1>14. Begun(t, cps, q, kmem)
  BY <1>3 DEF Begun
<1>15. Given
  BY DEF Heard
<1>16. Given'
  BY <1>2, <1>15 DEF Given
<1>17. Cleared(t)
  BY <1>10 DEF Handles
<1> QED BY <1>1, <1>2, <1>4, <1>7, <1>12, <1>13, <1>14, <1>16, <1>17 DEF Heard, Excluded

(* The requests. *)
LEMMA CreateHears ==
  ASSUME TypeInv, Tracked, Heard, NEW b \in Bridges, NEW v \in VidsOf[b], NEW want,
         CpsCreate(b, v, want, "none")
  PROVE  Heard'
<1>0. /\ nas \in VlanState /\ KernelType /\ history \in History /\ nas.known \subseteq Bridges
      /\ v \in Vids /\ v # 0 /\ v \in MaybeVid
  BY TypeParts, NasVlanLagAssumption DEF TypeInv, ThreadType, VlanState, MaybeVid
<1>1. /\ cps.br = None /\ KernelCreate(b) /\ b \notin used /\ UNCHANGED <<lags, pubs, kbonds>>
      /\ kbridges' = kbridges \cup {b} /\ used' = used \cup {b} /\ kmem' = kmem
  BY DEF CpsCreate, SpendRequest, KernelCreate, table
<1>2. cps.item = None /\ cps'.item = None
  BY <1>1, IdleCps, ServingIdle DEF CpsCreate, Idle
<1>3. Matches(nas, history.lost, history.stale, Lacking(history),
            history.torn \cup history.orphaned)
  BY <1>2, IdleFollow DEF Tracked
<1>4. b \notin nas.known
  BY <1>1 DEF Tracked, Once
<1>5. PICK a : Reports(a)
  BY <1>1, HeardKnows, CreateReports
<1>6. kbridges' \subseteq used' /\ Given /\ Cleared(nas)
  BY <1>1 DEF Heard, Given
<1>7. /\ Logged(queue', kbridges', kmem', used') /\ Deleted(nas, queue', kbridges')
      /\ Meets(nas, queue', kmem', Present(Bridges, kbridges', used'),
                  Present(Lags, lags, used), Excluded, history.stale)
  BY <1>5, <1>6, ReportHears
<1>8. PICK t : t = nas'
  OBVIOUS
<1>9. /\ t.known = nas.known \cup {b} /\ t.entries = nas.entries /\ t.vlans = nas.vlans
      /\ t.stored = nas.stored /\ t.vid = [nas.vid EXCEPT ![b] = v]
  <2>1. PICK r : r = BridgeInsert(nas, b)
    OBVIOUS
  <2>2. PICK s : s = [r EXCEPT !.vid[b] = v]
    OBVIOUS
  <2>3. /\ r.known = nas.known \cup {b} /\ r.entries = nas.entries /\ r.vlans = nas.vlans
        /\ r.stored = nas.stored /\ r.vid = [nas.vid EXCEPT ![b] = 0] /\ r \in VlanState
    <3>1. r = [nas EXCEPT !.known = @ \cup {b}, !.vid[b] = 0]
      BY <1>4, <2>1 DEF BridgeInsert
    <3>2. r \in VlanState
      BY <1>0, <1>4, <3>1 DEF VlanState, MaybeVid
    <3> QED BY <1>0, <3>1, <3>2 DEF VlanState
  <2>4. /\ s.known = r.known /\ s.entries = r.entries /\ s.vlans = r.vlans
        /\ s.stored = r.stored /\ s.vid = [r.vid EXCEPT ![b] = v] /\ s \in VlanState
    BY <1>0, <2>2, <2>3 DEF VlanState
  <2>5. s.vid = [nas.vid EXCEPT ![b] = v]
    BY <1>0, <2>3, <2>4 DEF VlanState
  <2>6. t = s \/ t = [s EXCEPT !.npuVlans = @ \cup {v}]
    BY <1>8, <2>1, <2>2 DEF CpsCreate
  <2>7. /\ t.known = s.known /\ t.entries = s.entries /\ t.vlans = s.vlans
        /\ t.stored = s.stored /\ t.vid = s.vid
    BY <2>4, <2>6 DEF VlanState
  <2> QED BY <2>3, <2>4, <2>5, <2>7
<1>10. t.vid[b] = v /\ \A c \in Bridges \ {b} : t.vid[c] = nas.vid[c]
  BY <1>0, <1>9 DEF VlanState
<1>11. /\ history'.lost = history.lost \cup Sharing(t) /\ history'.stale = history.stale
       /\ history'.misread = history.misread
  <2>1. PICK S : S = Sharing(t)
    OBVIOUS
  <2>2. history' = [history EXCEPT !.lost = @ \cup S]
    BY <1>8, <2>1 DEF CpsCreate
  <2> QED BY <1>0, <2>1, <2>2 DEF History
<1>12. ASSUME NEW l \in Lags, <<b, l>> \notin Excluded'
       PROVE  Settled(b, l, t, queue', kmem', history.stale)
  <2>1. \A x \in MaybeVid : kmem[<<l, x>>] # b
    BY <1>1 DEF Heard, Logged, Members, Given
  <2>2. ASSUME NEW m \in Modes, <<l, m, v>> \notin history.stale PROVE v \notin t.vlans[<<l, m>>]
    <3>1. CASE l \notin nas.entries
      BY <1>6, <1>9, <3>1 DEF Cleared
    <3>2. ASSUME l \in nas.entries, v \in t.vlans[<<l, m>>] PROVE FALSE
      <4>1. PICK c \in nas.known : nas.vid[c] = v
        BY <1>0, <1>3, <1>9, <2>2, <3>2 DEF Matches, Named
      <4>2. c \in t.known \ {b} /\ t.vid[c] = v /\ b \in t.known
        BY <1>0, <1>4, <1>9, <1>10, <4>1
      <4>3. <<b, l>> \in Sharing(t)
        BY <1>0, <1>10, <4>2 DEF Sharing
      <4> QED BY <1>11, <1>12, <4>3 DEF Excluded
    <3> QED BY <3>1, <3>2
  <2>3. \A x \in MaybeVid : Caught(t, b, l, x, kmem[<<l, x>>], history.stale)
    BY <1>0, <1>10, <2>1, <2>2 DEF Caught, ModeOf, Modes
  <2> QED BY <1>0, <1>1, <1>10, <2>3 DEF Settled
<1>13. \A c \in Bridges \ {b}, l \in Lags : Same(nas, t, c, l)
  BY <1>9, <1>10 DEF Same
<1>14. /\ Present(Bridges, kbridges', used') \subseteq Bridges
       /\ Present(Lags, lags, used') \subseteq Present(Lags, lags, used)
       /\ Present(Lags, lags, used) \subseteq Lags
  BY <1>1 DEF Present
<1>15. Meets(t, queue', kmem', Present(Bridges, kbridges', used'),
             Present(Lags, lags, used'), Excluded', history'.stale)
  <2>1. Excluded \subseteq Excluded' /\ history.stale \subseteq history'.stale
    BY <1>11 DEF Excluded
  <2>2. PICK B, L, L1, q, m : /\ B = Present(Bridges, kbridges', used') /\ L = Present(Lags, lags, used)
                              /\ L1 = Present(Lags, lags, used') /\ q = queue' /\ m = kmem'
    OBVIOUS
  <2>3. PICK lost, lost1, stale, stale1 :
          lost = Excluded /\ lost1 = Excluded' /\ stale = history.stale /\ stale1 = history'.stale
    OBVIOUS
  <2>4. Meets(nas, q, m, B, L, lost, stale) /\ lost \subseteq lost1 /\ stale = stale1
    BY <1>7, <1>11, <2>1, <2>2, <2>3
  <2>5. L1 \subseteq L /\ B \subseteq B /\ stale \subseteq stale1
    BY <1>14, <2>2, <2>4
  <2>6. \A c \in B, l \in L1 :
          <<c, l>> \notin lost1 => Same(nas, t, c, l) \/ Settled(c, l, t, q, m, stale1)
    BY <1>12, <1>13, <1>14, <2>2, <2>3, <2>4
  <2>7. Meets(t, q, m, B, L1, lost1, stale1)
    BY <2>4, <2>5, <2>6, MeetsSame
  <2> QED BY <2>2, <2>3, <2>7
<1>16. Deleted(t, queue', kbridges')
  BY <1>1, <1>7, <1>9, <1>10 DEF Deleted
<1>17. Given' /\ Cleared(t)
  <2>1. Cleared(t)
    BY <1>6, <1>9 DEF Cleared
  <2>2. Given'
    BY <1>1, <1>6 DEF Given, Removed
  <2> QED BY <2>1, <2>2
<1>18. Begun(t, cps', queue', kmem')
  BY <1>2 DEF Begun
<1> QED BY <1>1, <1>7, <1>8, <1>15, <1>16, <1>17, <1>18 DEF Heard, Excluded

(* Nothing happens at the kernel. *)
LEMMA QuietReports ==
  ASSUME KernelKnows, UNCHANGED <<queue, kbridges, kmem, used>>
  PROVE  \E a : Reports(a)
<1>0. queue \in Seq(Event) /\ KernelType
  BY TypeParts DEF KernelKnows, KernelType
<1>1. PICK a : a = <<>>
  OBVIOUS
<1>2. /\ a \in Seq(Event) /\ Len(a) = 0 /\ queue' = queue \o a
  BY <1>0, <1>1
<1>3. \A b, l, x, m : Tells(a, b, l, x, m, m)
  BY <1>1, NoEvents
<1>4. Reports(a)
  BY <1>2, <1>3 DEF Reports, KernelKnows, Logged, Queued
<1> QED BY <1>4

(* A request that is between two LAGs. *)
LEMMA IdleHears ==
  ASSUME Heard, cps'.item = None,
         UNCHANGED <<lags, pubs, nas, kbonds, kbridges, kmem, used, queue, history>>
  PROVE  Heard'
<1>1. Begun(nas, cps', queue, kmem)
  BY DEF Begun
<1>2. Given'
  BY DEF Heard, Given
<1> QED BY <1>1, <1>2 DEF Heard

LEMMA SetHears ==
  ASSUME TypeInv, Heard, NEW b, NEW want, CpsSet(b, want)
  PROVE  Heard'
<1>1. /\ cps' = Serving(b, WorkOf(nas, b, want))
      /\ UNCHANGED <<lags, pubs, nas, kbonds, kbridges, kmem, used, queue, history>>
  BY DEF CpsSet, table, kernel
<1>2. cps'.item = None
  BY <1>1, ServingIdle
<1> QED BY <1>1, <1>2, IdleHears

LEMMA DeleteHears ==
  ASSUME TypeInv, Tracked, Heard, NEW b \in Bridges, CpsDelete(b, "none")
  PROVE  Heard'
<1>0. nas \in VlanState /\ KernelType /\ history \in History
  BY TypeParts DEF TypeInv, ThreadType
<1>1. /\ cps.br = None /\ b \in nas.known /\ nas' = BridgeCleanup(nas, b, "none")
      /\ history' = [history EXCEPT !.stale = @ \cup StaleAfter(nas, b)]
      /\ UNCHANGED <<lags, pubs, kbonds, cps>>
      /\ IF b \in kbridges THEN KernelDelete(b) ELSE UNCHANGED kernel
  BY DEF CpsDelete, SpendRequest, table
<1>2. cps.item = None
  BY <1>1, IdleCps
<1>3. b \in used /\ Given
  BY <1>1 DEF Tracked, Once, Heard
<1>4. (\E a : Reports(a)) /\ kbridges' = kbridges \ {b} /\ used' = used
  <2>1. CASE b \in kbridges
    <3>1. KernelDelete(b)
      BY <1>1, <2>1
    <3> QED BY <2>1, <3>1, HeardKnows, DeleteReports
  <2>2. CASE b \notin kbridges
    BY <1>1, <2>2, HeardKnows, QuietReports DEF kernel
  <2> QED BY <2>1, <2>2
<1>5. kbridges' \subseteq used' /\ Given'
  BY <1>1, <1>3, <1>4 DEF Given
<1>6. /\ Logged(queue', kbridges', kmem', used') /\ Deleted(nas, queue', kbridges')
      /\ Meets(nas, queue', kmem', Present(Bridges, kbridges', used'),
                  Present(Lags, lags, used), Excluded, history.stale)
  BY <1>4, <1>5, ReportHears
<1>7. PICK t : t = nas'
  OBVIOUS
<1>8. /\ t.known = nas.known \ {b} /\ t.entries = nas.entries /\ t.vlans = nas.vlans
      /\ t.vid[b] = 0 /\ t.stored[b] = {}
      /\ \A c \in Bridges \ {b} : /\ t.vid[c] = nas.vid[c] /\ t.stored[c] = nas.stored[c]
                                  /\ \A l : Same(nas, t, c, l)
  BY <1>0, <1>1, <1>7, CleanupSame
<1>9. /\ history'.lost = history.lost /\ history'.misread = history.misread
      /\ history.stale \subseteq history'.stale
  <2>1. PICK S : S = StaleAfter(nas, b)
    OBVIOUS
  <2>2. history' = [history EXCEPT !.stale = @ \cup S]
    BY <1>1, <2>1
  <2> QED BY <1>0, <2>2 DEF History
<1>10. \A c \in Present(Bridges, kbridges', used') : c \in Bridges \ {b}
  BY <1>3, <1>4 DEF Present
<1>11. Meets(t, queue', kmem', Present(Bridges, kbridges', used'),
             Present(Lags, lags', used'), Excluded', history'.stale)
  <2>1. PICK B, L, q, m : /\ B = Present(Bridges, kbridges', used') /\ L = Present(Lags, lags, used)
                          /\ q = queue' /\ m = kmem'
    OBVIOUS
  <2>2. PICK lost, stale, stale1 :
          lost = Excluded /\ stale = history.stale /\ stale1 = history'.stale
    OBVIOUS
  <2>3. Meets(nas, q, m, B, L, lost, stale) /\ stale \subseteq stale1
    BY <1>6, <1>9, <2>1, <2>2
  <2>4. \A c \in B, l \in L :
          <<c, l>> \notin lost => Same(nas, t, c, l) \/ Settled(c, l, t, q, m, stale1)
    BY <1>8, <1>10, <2>1
  <2>5. B \subseteq B /\ L \subseteq L /\ lost \subseteq lost
    OBVIOUS
  <2>6. Meets(t, q, m, B, L, lost, stale1)
    BY <2>3, <2>4, <2>5, MeetsSame
  <2>7. Excluded' = Excluded /\ lags' = lags /\ used' = used
    BY <1>1, <1>4, <1>9 DEF Excluded
  <2> QED BY <2>1, <2>2, <2>6, <2>7
<1>12. Deleted(t, queue', kbridges')
  BY <1>4, <1>6, <1>8 DEF Deleted
<1>13. Cleared(t)
  BY <1>8 DEF Heard, Cleared
<1>14. Begun(t, cps', queue', kmem')
  BY <1>1, <1>2 DEF Begun
<1> QED BY <1>5, <1>6, <1>7, <1>11, <1>12, <1>13, <1>14 DEF Heard, Excluded

(* The work of a request. *)
LEMMA SkipHears ==
  ASSUME TypeInv, Heard, NEW w, CpsSkip(w, "none")
  PROVE  Heard'
<1>1. /\ cps' = Serving(cps.br, cps.work \ {w})
      /\ UNCHANGED <<lags, pubs, nas, kbonds, kbridges, kmem, used, queue, history>>
  BY DEF CpsSkip, Done, table, kernel
<1>2. cps'.item = None
  BY <1>1, ServingIdle
<1> QED BY <1>1, <1>2, IdleHears

LEMMA BeginHears ==
  ASSUME TypeInv, Tracked, Heard, NEW w \in cps.work, CpsBegin(w)
  PROVE  Heard'
<1>0. nas \in VlanState /\ KernelType /\ cps \in CpsState /\ Served /\ None \notin Bridges
  BY TypeParts, NasVlanLagAssumption DEF TypeInv, ThreadType
<1>1. /\ cps.item = None /\ cps' = [cps EXCEPT !.item = w, !.left = nas.mem[w.lag]]
      /\ ~Skipped(w, "none")
      /\ UNCHANGED <<lags, pubs, nas, kbonds, history>>
      /\ IF w.op = "add" THEN KernelJoin(cps.br, w.lag, KernelVid(w)) ELSE UNCHANGED kernel
  BY DEF CpsBegin, table
<1>2. w \in Work /\ w.lag \in Lags /\ w.lag \in Members /\ cps.br \in Bridges
  BY <1>0 DEF CpsState, Work, Served, Members
<1>3. KernelVid(w) \in MaybeVid
  BY <1>0, <1>2 DEF KernelVid, VlanState, MaybeVid
<1>4. cps'.br = cps.br /\ cps'.item = w
  BY <1>0, <1>1 DEF CpsState
<1>5. Given
  BY DEF Heard
<1>6. /\ \E a : Reports(a)
      /\ UNCHANGED <<kbridges, used>>
      /\ w.op = "add" => kmem'[<<w.lag, KernelVid(w)>>] = cps.br
  <2>1. CASE w.op = "add"
    <3>1. cps.br \in kbridges /\ w.lag \in used \cup {Phys} /\ KernelJoin(cps.br, w.lag, KernelVid(w))
      BY <1>1, <1>5, <2>1 DEF Skipped, Refused, Given
    <3> QED BY <1>2, <1>3, <3>1, HeardKnows, JoinReports
  <2>2. CASE w.op # "add"
    BY <1>1, <2>2, HeardKnows, QuietReports DEF kernel
  <2> QED BY <2>1, <2>2
<1>7. kbridges' \subseteq used' /\ Given'
  BY <1>1, <1>5, <1>6 DEF Given
<1>8. /\ Logged(queue', kbridges', kmem', used') /\ Deleted(nas, queue', kbridges')
      /\ Meets(nas, queue', kmem', Present(Bridges, kbridges', used'),
                  Present(Lags, lags, used), Excluded, history.stale)
  BY <1>6, <1>7, ReportHears
<1>9. Begun(nas, cps', queue', kmem')
  BY <1>4, <1>6 DEF Begun, KernelVid
<1>10. Present(Lags, lags', used') = Present(Lags, lags, used) /\ Excluded' = Excluded
       /\ UNCHANGED <<nas, history>> /\ Cleared(nas)
  BY <1>1, <1>6 DEF Excluded, Heard
<1> QED BY <1>7, <1>8, <1>9, <1>10 DEF Heard, Excluded

(* A step at the table alone. *)
LEMMA TableHears ==
  ASSUME Heard, Given', UNCHANGED <<lags, kbonds, kbridges, kmem, used, queue>>,
         NEW t, t = nas', t.known = nas.known, t.vid = nas.vid, t.stored = nas.stored, Cleared(t),
         \A l \in Present(Lags, lags, used), m \in Modes : t.vlans[<<l, m>>] = nas.vlans[<<l, m>>],
         cps'.item = cps.item, cps'.br = cps.br,
         history'.lost = history.lost, history'.misread = history.misread,
         history'.stale = history.stale
  PROVE  Heard'
<1>1. PICK B, L, lost, stale :
        /\ B = Present(Bridges, kbridges, used) /\ L = Present(Lags, lags, used)
        /\ lost = Excluded /\ stale = history.stale
  OBVIOUS
<1>2. Meets(nas, queue, kmem, B, L, lost, stale)
  BY <1>1 DEF Heard, Excluded
<1>3. \A b \in B, l \in L : <<b, l>> \notin lost => Same(nas, t, b, l) \/ Settled(b, l, t, queue, kmem, stale)
  BY <1>1 DEF Same
<1>4. B \subseteq B /\ L \subseteq L /\ lost \subseteq lost /\ stale \subseteq stale
  OBVIOUS
<1>5. Meets(t, queue, kmem, B, L, lost, stale)
  BY <1>2, <1>3, <1>4, MeetsSame
<1>6. Deleted(t, queue, kbridges)
  BY DEF Heard, Deleted
<1>7. Begun(t, cps', queue, kmem)
  BY DEF Heard, Begun
<1>8. Logged(queue, kbridges, kmem, used)
  BY DEF Heard
<1>9. Excluded' = Excluded
  BY DEF Excluded
<1> QED BY <1>1, <1>5, <1>6, <1>7, <1>8, <1>9 DEF Heard, Excluded

LEMMA WalkHears ==
  ASSUME TypeInv, Heard, NEW p \in Ports, CpsWalk(p, "none")
  PROVE  Heard'
<1>0. nas \in VlanState /\ cps \in CpsState
  BY TypeParts DEF TypeInv, ThreadType
<1>1. PICK w, v : w = cps.item /\ v = nas.vid[cps.br]
  OBVIOUS
<1>2. /\ w # None /\ cps' = [cps EXCEPT !.left = @ \ {p}]
      /\ nas' = IF w.op = "add" THEN NpuAdd(nas, v, w.mode, {p}, "none")
                                ELSE NpuDel(nas, v, w.mode, {p}, "none")
      /\ UNCHANGED <<lags, pubs, kbonds, kbridges, kmem, used, queue, history>>
  BY <1>1 DEF CpsWalk, table, kernel
<1>3. w.mode \in Modes
  BY <1>0, <1>1, <1>2 DEF CpsState, Work
<1>4. cps'.item = cps.item /\ cps'.br = cps.br
  BY <1>0, <1>2 DEF CpsState
<1>5. PICK t : t = nas'
  OBVIOUS
<1>6. Still(nas, t) /\ t.vlans = nas.vlans
  BY <1>0, <1>2, <1>3, <1>5, NpuStill
<1>7. Given' /\ Cleared(t)
  BY <1>2, <1>6 DEF Heard, Given, Cleared, Still
<1> QED BY <1>2, <1>4, <1>5, <1>6, <1>7, TableHears DEF Still

(* The id of the LAG's VLAN, at the end of the walk; q and km are what the   *)
(* kernel then has.                                                         *)
Walks(s, t, b, l, m, op, q, km) ==
  LET v == s.vid[b]
      x == IF m = "tagged" THEN v ELSE 0
  IN /\ IF op = "add" THEN IdJoins(s, t, l, m, v) ELSE IdLeaves(s, t, l, m, v)
     /\ t.stored = s.stored
     /\ Silent(q, b, l, x) => (op = "add" <=> km[<<l, x>>] = b)

LEMMA EndSettles ==
  ASSUME NEW s \in VlanState, NEW b \in s.known, NEW l \in Lags, NEW m \in Modes, NEW op,
         NEW t, NEW q, NEW km, Walks(s, t, b, l, m, op, q, km),
         NEW lost, Sharing(s) \subseteq lost, Deleted(s, q, Bridges),
         NEW c \in Bridges, NEW k \in Lags, <<c, k>> \notin lost, NEW stale,
         Settled(c, k, s, q, km, stale)
  PROVE  Settled(c, k, t, q, km, stale)
<1>0. PICK v, x : v = s.vid[b] /\ x = IF m = "tagged" THEN v ELSE 0
  OBVIOUS
<1>1. /\ b \in Bridges /\ s.vid[c] \in MaybeVid /\ v \in MaybeVid
      /\ t.stored = s.stored /\ (Silent(q, b, l, x) => (op = "add" <=> km[<<l, x>>] = b))
      /\ IF op = "add" THEN IdJoins(s, t, l, m, v) ELSE IdLeaves(s, t, l, m, v)
  BY <1>0 DEF VlanState, Walks
<1>2. t.vid = s.vid
  BY <1>1 DEF IdJoins, IdLeaves, Rest
<1>3. \A n \in Modes, w \in MaybeVid :
        ~(k = l /\ n = m /\ w = v) => (w \in t.vlans[<<k, n>>] <=> w \in s.vlans[<<k, n>>])
  BY <1>1 DEF IdJoins, IdLeaves
<1>4. v \in t.vlans[<<l, m>>] <=> op = "add"
  BY <1>1 DEF IdJoins, IdLeaves
<1>5. CASE k # l \/ s.vid[c] # v \/ v = 0
  <2>1. Same(s, t, c, k)
    BY <1>0, <1>1, <1>2, <1>3, <1>5 DEF Same
  <2> QED BY <2>1, SameSettled
<1>6. CASE k = l /\ s.vid[c] = v /\ v # 0
  <2>1. c = b
    <3>1. c \in s.known
      BY <1>0, <1>1, <1>6 DEF Deleted
    <3> QED BY <1>0, <1>1, <1>6, <3>1 DEF Sharing
  <2>2. ASSUME NEW y \in MaybeVid, Silent(q, b, l, y), y \in {0, v},
               <<l, ModeOf(y), v>> \notin stale
        PROVE  km[<<l, y>>] = b <=> v \in t.vlans[<<l, ModeOf(y)>>]
    <3>1. CASE y = x
      <4>1. ModeOf(y) = m
        BY <1>0, <1>1, <1>6, <3>1 DEF ModeOf, Modes
      <4> QED BY <1>1, <1>4, <2>2, <3>1, <4>1
    <3>2. CASE y # x
      <4>1. ModeOf(y) # m /\ ModeOf(y) \in Modes
        BY <1>0, <1>1, <1>6, <2>2, <3>2 DEF ModeOf, Modes
      <4>2. Caught(s, b, l, y, km[<<l, y>>], stale)
        BY <1>6, <2>1, <2>2 DEF Settled
      <4> QED BY <1>0, <1>1, <1>3, <1>6, <2>2, <4>1, <4>2 DEF Caught
    <3> QED BY <3>1, <3>2
  <2>3. \A y \in MaybeVid : Silent(q, b, l, y) => Caught(t, b, l, y, km[<<l, y>>], stale)
    BY <1>0, <1>1, <1>2, <1>6, <2>2 DEF Caught
  <2> QED BY <1>2, <1>6, <2>1, <2>3 DEF Settled
<1> QED BY <1>5, <1>6

LEMMA EndHears ==
  ASSUME TypeInv, TypeInv', Tracked, Heard, CpsEnd("none")
  PROVE  Heard'
<1>0. /\ nas \in VlanState /\ cps \in CpsState /\ KernelType /\ Served /\ history \in History
      /\ None \notin Bridges
  BY TypeParts, NasVlanLagAssumption DEF TypeInv, ThreadType
<1>1. PICK w, b, l, m, v, x :
        /\ w = cps.item /\ b = cps.br /\ l = w.lag /\ m = w.mode /\ v = nas.vid[b]
        /\ x = IF m = "tagged" THEN v ELSE 0
  OBVIOUS
<1>2. /\ w # None /\ KernelVid(w) = x
      /\ nas' = IF l \in nas.entries THEN [nas EXCEPT !.vlans[<<l, m>>] = Listed(w)] ELSE nas
      /\ IF w.op = "del" THEN KernelLeave(l, x) ELSE UNCHANGED kernel
      /\ cps' = Serving(b, cps.work \ {w})
      /\ UNCHANGED <<lags, pubs, kbonds>>
  BY <1>1 DEF CpsEnd, Done, table, KernelVid
<1>3. /\ l \in Lags /\ l \in Members /\ m \in Modes /\ w.op \in {"add", "del"} /\ b \in Bridges
      /\ b # None /\ x \in MaybeVid /\ b \in nas.known /\ nas.vid[b] \in MaybeVid
  BY <1>0, <1>1, <1>2 DEF CpsState, Work, Served, Members, Tracked, Follow, VlanState, MaybeVid
<1>4. cps'.item = None
  BY <1>2, ServingIdle
<1>5. /\ \E a : Reports(a)
      /\ UNCHANGED <<kbridges, used>>
      /\ w.op = "del" => kmem'[<<l, x>>] = None
  <2>1. CASE w.op = "del"
    <3>1. KernelLeave(l, x)
      BY <1>2, <2>1
    <3> QED BY <1>3, <3>1, HeardKnows, LeaveReports
  <2>2. CASE w.op # "del"
    BY <1>2, <2>2, HeardKnows, QuietReports DEF kernel
  <2> QED BY <2>1, <2>2
<1>6. kbridges' \subseteq used' /\ Given'
  BY <1>2, <1>5 DEF Heard, Given
<1>7. /\ Logged(queue', kbridges', kmem', used') /\ Deleted(nas, queue', kbridges')
      /\ Begun(nas, cps, queue', kmem')
      /\ Meets(nas, queue', kmem', Present(Bridges, kbridges', used'),
                  Present(Lags, lags, used), Excluded, history.stale)
  BY <1>5, <1>6, ReportHears
<1>8. /\ history'.lost = history.lost /\ history'.stale = history.stale
      /\ history'.misread = history.misread
  <2>1. PICK T : T = ({v} \cap Vids) \X {m} \X (cps.left \cup cps.touched)
    OBVIOUS
  <2>2. history' = [history EXCEPT !.torn = @ \cup T]
    BY <1>1, <2>1 DEF CpsEnd
  <2> QED BY <1>0, <2>2 DEF History
<1>9. PICK t : t = nas'
  OBVIOUS
<1>10. PICK B, L, q, km, lost, stale :
         /\ B = Present(Bridges, kbridges', used') /\ L = Present(Lags, lags, used)
         /\ q = queue' /\ km = kmem' /\ lost = Excluded /\ stale = history.stale
  OBVIOUS
<1>11. Meets(nas, q, km, B, L, lost, stale) /\ B \subseteq Bridges /\ L \subseteq Lags
  BY <1>7, <1>10 DEF Present
<1>12. Cleared(nas) /\ Sharing(nas) \subseteq lost
  <2>1. Sharing(nas) \subseteq history.lost
    BY DEF Tracked, Follow, Matches
  <2> QED BY <1>10, <2>1 DEF Heard, Excluded
<1>13. CASE l \notin nas.entries
  <2>1. t = nas /\ lags' = lags /\ used' = used /\ Excluded' = Excluded
    BY <1>2, <1>5, <1>8, <1>9, <1>13 DEF Excluded
  <2>2. Begun(t, cps', q, km)
    BY <1>4 DEF Begun
  <2> QED BY <1>6, <1>7, <1>8, <1>9, <1>10, <1>11, <1>12, <2>1, <2>2 DEF Heard, Excluded
<1>14. CASE l \in nas.entries
  <2>1. PICK op : op = w.op
    OBVIOUS
  <2>2. /\ IF op = "add" THEN IdJoins(nas, t, l, m, v) ELSE IdLeaves(nas, t, l, m, v)
        /\ t.stored = nas.stored
    <3>1. PICK u : u = Listed(w)
      OBVIOUS
    <3>2. t = [nas EXCEPT !.vlans[<<l, m>>] = u]
      BY <1>2, <1>9, <1>14, <3>1
    <3>3. t.stored = nas.stored
      BY <1>0, <3>2 DEF VlanState
    <3>4. u = IF op = "add" THEN nas.vlans[<<l, m>>] \cup {v} ELSE nas.vlans[<<l, m>>] \ {v}
      BY <1>1, <2>1, <3>1 DEF Listed
    <3>5. CASE op = "add"
      <4>1. t = [nas EXCEPT !.vlans[<<l, m>>] = @ \cup {v}]
        BY <3>2, <3>4, <3>5
      <4> QED BY <1>0, <1>3, <3>3, <3>5, <4>1, VlansEffect
    <3>6. CASE op # "add"
      <4>1. t = [nas EXCEPT !.vlans[<<l, m>>] = @ \ {v}]
        BY <3>2, <3>4, <3>6
      <4> QED BY <1>0, <1>3, <3>3, <3>6, <4>1, VlansEffect
    <3> QED BY <3>5, <3>6
  <2>3. Silent(q, b, l, x) => (op = "add" <=> km[<<l, x>>] = b)
    <3>1. CASE op = "add"
      BY <1>1, <1>2, <1>7, <1>10, <2>1, <3>1 DEF Begun
    <3>2. CASE op # "add"
      BY <1>3, <1>5, <1>10, <2>1, <3>2
    <3> QED BY <3>1, <3>2
  <2>4. Rest(nas, t) /\ \A k \in Lags \ {l}, n \in Modes, y \in MaybeVid :
                          y \in t.vlans[<<k, n>>] <=> y \in nas.vlans[<<k, n>>]
    BY <2>2 DEF IdJoins, IdLeaves
  <2>5. Deleted(nas, q, Bridges)
    BY <1>0, <1>7 DEF Deleted, VlanState
  <2>6. \A c \in B, k \in L :
          <<c, k>> \notin lost => Same(nas, t, c, k) \/ Settled(c, k, t, q, km, stale)
    <3> SUFFICES ASSUME NEW c \in B, NEW k \in L, <<c, k>> \notin lost
                 PROVE  Settled(c, k, t, q, km, stale)
      OBVIOUS
    <3>1. Settled(c, k, nas, q, km, stale) /\ c \in Bridges /\ k \in Lags
      BY <1>11 DEF Meets
    <3>2. Walks(nas, t, b, l, m, op, q, km)
      BY <1>1, <2>2, <2>3 DEF Walks
    <3> QED BY <1>0, <1>3, <1>12, <2>5, <3>1, <3>2, EndSettles
  <2>7. B \subseteq B /\ L \subseteq L /\ lost \subseteq lost /\ stale \subseteq stale
    OBVIOUS
  <2>8. Meets(t, q, km, B, L, lost, stale)
    BY <1>11, <2>6, <2>7, MeetsSame
  <2>9. Deleted(t, q, kbridges')
    BY <1>7, <1>10, <2>2, <2>4 DEF Deleted, Rest
  <2>10. Cleared(t)
    <3>1. t \in VlanState
      BY <1>9, TypeParts DEF TypeInv, ThreadType
    <3> QED BY <1>12, <1>14, <2>4, <3>1 DEF Cleared, Rest, VlanState
  <2>11. Begun(t, cps', q, km)
    BY <1>4 DEF Begun
  <2>12. lags' = lags /\ used' = used /\ Excluded' = Excluded
    BY <1>2, <1>5, <1>8 DEF Excluded
  <2> QED BY <1>6, <1>7, <1>8, <1>9, <1>10, <2>8, <2>9, <2>10, <2>11, <2>12 DEF Heard, Excluded
<1> QED BY <1>13, <1>14

(* A LAG event. *)
LEMMA LagEventHears ==
  ASSUME TypeInv, Heard, LagEvent("none")
  PROVE  Heard'
<1>0. /\ nas \in VlanState /\ cps \in CpsState /\ history \in History
      /\ pubs \in Seq(Publication)
  BY TypeParts DEF TypeInv, ThreadType, ManagerType
<1>1. PICK e, t, d : e = Head(pubs) /\ t = nas' /\ d = cps'
  OBVIOUS
<1>2. /\ pubs # <<>> /\ pubs' = Tail(pubs) /\ d = Race(e)
      /\ UNCHANGED <<lags, kbonds, kbridges, kmem, used, queue>>
  BY <1>1 DEF LagEvent, table, kernel
<1>3. /\ e \in Publication /\ Len(pubs) \in Nat \ {0} /\ e = pubs[1]
      /\ Len(pubs') = Len(pubs) - 1 /\ \A i \in 1..Len(pubs') : pubs'[i] = pubs[i + 1]
  BY <1>0, <1>1, <1>2, HeadTailProperties, EmptySeq, LenProperties
<1>4. e.lag \in Lags /\ e.op \in {"create", "set", "delete"}
  BY <1>3 DEF Publication
<1>5. Given' /\ (e.op = "delete" => e.lag \in used \ lags)
  <2>1. Removed(pubs, lags, used) /\ kbonds \cup lags \cup kbridges \subseteq used
    BY DEF Heard, Given
  <2>2. \A i \in 1..Len(pubs') : i + 1 \in 1..Len(pubs)
    BY <1>3
  <2>3. Removed(pubs', lags, used)
    BY <1>3, <2>1, <2>2 DEF Removed
  <2>4. 1 \in 1..Len(pubs)
    BY <1>3
  <2> QED BY <1>2, <1>3, <2>1, <2>3, <2>4 DEF Removed, Given
<1>6. d.item = cps.item /\ d.br = cps.br
  <2>1. PICK C, A : C = cps.touched \cup Moved(e)
                    /\ A = cps.left \cup (IF e.op = "set" THEN Arrived(nas, e.lag, e.ports) ELSE {})
    OBVIOUS
  <2>2. d = cps \/ d = [cps EXCEPT !.raced = TRUE, !.touched = C, !.left = A]
    BY <1>2, <2>1 DEF Race
  <2> QED BY <1>0, <2>2 DEF CpsState
<1>7. /\ history'.lost = history.lost /\ history'.misread = history.misread
      /\ history'.stale = history.stale
  <2>1. PICK O, D : O = (IF e.op = "delete" THEN Orphans(e.lag) ELSE {}) /\ D = Doubled(nas')
    OBVIOUS
  <2>2. history' = [history EXCEPT !.orphaned = @ \cup O, !.doubled = @ \cup D]
    BY <1>1, <2>1 DEF LagEvent
  <2> QED BY <1>0, <2>2 DEF History
<1>8. Cleared(nas)
  BY DEF Heard
<1>9. /\ t.known = nas.known /\ t.vid = nas.vid /\ t.stored = nas.stored /\ Cleared(t)
      /\ \A l \in Present(Lags, lags, used), m \in Modes : t.vlans[<<l, m>>] = nas.vlans[<<l, m>>]
  <2>1. CASE e.op = "set"
    <3>1. PICK added : t = MemberUpdate(nas, e.lag, e.ports, added, "none")
      BY <1>1, <2>1 DEF LagEvent
    <3>2. /\ t.known = nas.known /\ t.vid = nas.vid /\ t.stored = nas.stored
          /\ t.vlans = nas.vlans /\ t.entries = nas.entries
      BY <1>0, <3>1 DEF MemberUpdate, VlanState
    <3> QED BY <1>8, <3>2 DEF Cleared
  <2>2. ASSUME NEW u, u = [x \in Lags \X Modes |-> IF x[1] = e.lag THEN {} ELSE nas.vlans[x]],
               t.known = nas.known, t.vid = nas.vid, t.stored = nas.stored, t.vlans = u,
               t.entries \subseteq nas.entries \cup {e.lag} /\ nas.entries \subseteq t.entries \cup {e.lag},
               e.op = "delete" \/ e.lag \notin nas.entries
        PROVE  /\ Cleared(t)
               /\ \A l \in Present(Lags, lags, used), m \in Modes :
                    t.vlans[<<l, m>>] = nas.vlans[<<l, m>>]
    <3>1. \A l \in Lags, m \in Modes :
            u[<<l, m>>] = IF l = e.lag THEN {} ELSE nas.vlans[<<l, m>>]
      BY <2>2
    <3>2. Cleared(t)
      <4>1. ASSUME NEW l \in Lags, NEW m \in Modes, l \notin t.entries
            PROVE  u[<<l, m>>] = {}
        <5>1. l # e.lag => nas.vlans[<<l, m>>] = {}
          BY <1>8, <2>2, <4>1 DEF Cleared
        <5> QED BY <3>1, <5>1
      <4> QED BY <2>2, <4>1 DEF Cleared
    <3>3. ASSUME NEW l \in Present(Lags, lags, used), NEW m \in Modes
          PROVE  t.vlans[<<l, m>>] = nas.vlans[<<l, m>>]
      <4>1. l = e.lag => nas.vlans[<<l, m>>] = {}
        BY <1>4, <1>5, <1>8, <2>2 DEF Present, Cleared
      <4>2. l \in Lags /\ t.vlans = u
        BY <2>2 DEF Present
      <4> QED BY <3>1, <4>1, <4>2
    <3> QED BY <3>2, <3>3
  <2>3. PICK u : u = [x \in Lags \X Modes |-> IF x[1] = e.lag THEN {} ELSE nas.vlans[x]]
    OBVIOUS
  <2>4. CASE e.op = "create"
    <3>1. t = EntryCreate(nas, e.lag)
      BY <1>1, <2>4 DEF LagEvent
    <3>2. CASE e.lag \in nas.entries
      BY <1>8, <3>1, <3>2 DEF EntryCreate
    <3>3. CASE e.lag \notin nas.entries
      <4>1. t = [nas EXCEPT !.entries = @ \cup {e.lag}, !.mem[e.lag] = {}, !.vlans = u]
        BY <2>3, <3>1, <3>3 DEF EntryCreate
      <4>2. /\ t.known = nas.known /\ t.vid = nas.vid /\ t.stored = nas.stored /\ t.vlans = u
            /\ t.entries = nas.entries \cup {e.lag}
        BY <1>0, <4>1 DEF VlanState
      <4> QED BY <2>2, <2>3, <3>3, <4>2
    <3> QED BY <3>2, <3>3
  <2>5. CASE e.op = "delete"
    <3>1. t = EntryDelete(nas, e.lag)
      BY <1>1, <2>5 DEF LagEvent
    <3>2. t = [nas EXCEPT !.entries = @ \ {e.lag}, !.mem[e.lag] = {}, !.vlans = u]
      BY <2>3, <3>1 DEF EntryDelete
    <3>3. /\ t.known = nas.known /\ t.vid = nas.vid /\ t.stored = nas.stored /\ t.vlans = u
          /\ t.entries = nas.entries \ {e.lag}
      BY <1>0, <3>2 DEF VlanState
    <3> QED BY <2>2, <2>3, <2>5, <3>3
  <2> QED BY <1>4, <2>1, <2>4, <2>5
<1> QED BY <1>1, <1>2, <1>5, <1>6, <1>7, <1>9, TableHears

-----------------------------------------------------------------------------
LEMMA HeardInit == Init => HeardInv
<1> SUFFICES ASSUME Init PROVE Heard
  BY DEF HeardInv
<1>1. /\ lags = {} /\ pubs = <<>> /\ kbonds = {} /\ kbridges = {} /\ used = {} /\ queue = <<>>
      /\ kmem = [x \in Members \X MaybeVid |-> None] /\ cps.item = None
      /\ None \notin Bridges
  BY NasVlanLagAssumption DEF Init, Idle
<1>2. PICK s : s = nas
  OBVIOUS
<1>3. /\ s.vlans = [x \in Lags \X Modes |-> {}] /\ s.known = {}
      /\ s.vid = [b \in Bridges |-> 0] /\ s.stored = [b \in Bridges |-> {}]
  BY <1>2 DEF Init
<1>4. PICK q : q = <<>>
  OBVIOUS
<1>5. Len(q) = 0 /\ 1..Len(q) = {}
  BY <1>4
<1>6. Given /\ Cleared(s)
  BY <1>1, <1>3, <1>4, <1>5 DEF Given, Removed, Cleared
<1>7. \A b \in Bridges, l \in Members, x \in MaybeVid : kmem[<<l, x>>] # b
  BY <1>1
<1>8. Logged(q, kbridges, kmem, used)
  BY <1>5, <1>7 DEF Logged, Agrees, Ends
<1>9. Deleted(s, q, kbridges) /\ Begun(s, cps, q, kmem)
  BY <1>1, <1>3 DEF Deleted, Begun
<1>10. ASSUME NEW b \in Bridges, NEW l \in Lags, NEW stale PROVE Settled(b, l, s, q, kmem, stale)
  <2>1. s.vid[b] = 0 /\ s.stored[b] = {} /\ l \in Members
    BY <1>3 DEF Members
  <2>2. \A x \in MaybeVid : Caught(s, b, l, x, kmem[<<l, x>>], stale)
    BY <1>7, <2>1 DEF Caught
  <2>3. \A x \in Vids : Preceded(q, b, l, x) /\ kmem[<<l, x>>] # b
    BY <1>5, <1>7, <2>1 DEF Preceded, MaybeVid
  <2> QED BY <2>2, <2>3 DEF Settled
<1>11. Meets(s, q, kmem, Present(Bridges, kbridges, used), Present(Lags, lags, used),
             history.lost \cup history.misread, history.stale)
  BY <1>10 DEF Meets, Present
<1> QED BY <1>1, <1>2, <1>4, <1>6, <1>8, <1>9, <1>11 DEF Heard

LEMMA HeardNext == TypeInv /\ FollowInv /\ HeardInv /\ [Next]_vars => HeardInv'
<1> SUFFICES ASSUME TypeInv, FollowInv, HeardInv, [Next]_vars, spent'.faults = 0, alive'
             PROVE  Heard'
  BY DEF HeardInv
<1>1. TypeInv' /\ SpentType
  BY TypeNext, TypeParts DEF TypeInv
<1>2. /\ \A f : SpendFault(f) => f = "none" /\ spent.faults = 0
      /\ \A f : SpendRequest(f) => f = "none" /\ spent.faults = 0
      /\ SpendTable \/ SpendExternal \/ UNCHANGED spent => spent.faults = 0
  BY <1>1, FaultFree
<1>3. spent.faults = 0 /\ alive => Heard /\ Tracked
  BY DEF FollowInv, HeardInv
<1>4. CASE LagManager
  <2>1. spent.faults = 0 /\ alive
    BY <1>2, <1>4 DEF LagManager, LagAdd, LagJoin, LagLeave, LagRequest, LagRemove
  <2> QED BY <1>3, <1>4, <2>1, ManagerHears
<1>5. CASE CpsRequest
  <2>1. ASSUME NEW b \in Bridges, NEW v \in VidsOf[b], NEW want, NEW f, CpsCreate(b, v, want, f)
        PROVE  Heard'
    <3>1. f = "none" /\ spent.faults = 0 /\ alive
      BY <1>2, <2>1 DEF CpsCreate, SpendRequest
    <3> QED BY <1>3, <2>1, <3>1, CreateHears
  <2>2. ASSUME NEW b \in Bridges, NEW want, CpsSet(b, want) PROVE Heard'
    <3>1. spent.faults = 0 /\ alive
      BY <1>2, <2>2 DEF CpsSet, SpendRequest
    <3> QED BY <1>3, <2>2, <3>1, SetHears
  <2>3. ASSUME NEW b \in Bridges, NEW f, CpsDelete(b, f) PROVE Heard'
    <3>1. f = "none" /\ spent.faults = 0 /\ alive
      BY <1>2, <2>3 DEF CpsDelete, SpendRequest
    <3> QED BY <1>3, <2>3, <3>1, DeleteHears
  <2> QED BY <1>5, <2>1, <2>2, <2>3 DEF CpsRequest
<1>6. CASE Serve
  <2>1. ASSUME NEW w \in cps.work, CpsBegin(w) PROVE Heard'
    <3>1. spent.faults = 0 /\ alive
      BY <1>2, <2>1 DEF CpsBegin
    <3> QED BY <1>3, <2>1, <3>1, BeginHears
  <2>2. ASSUME NEW w, NEW f, CpsSkip(w, f) PROVE Heard'
    <3>1. f = "none" /\ spent.faults = 0 /\ alive
      BY <1>2, <2>2 DEF CpsSkip
    <3> QED BY <1>3, <2>2, <3>1, SkipHears
  <2>3. ASSUME NEW p \in Ports, NEW f, CpsWalk(p, f) PROVE Heard'
    <3>1. f = "none" /\ spent.faults = 0 /\ alive
      BY <1>2, <2>3 DEF CpsWalk
    <3> QED BY <1>3, <2>3, <3>1, WalkHears
  <2>4. ASSUME NEW f, CpsEnd(f) PROVE Heard'
    <3>1. f = "none" /\ spent.faults = 0 /\ alive
      BY <1>2, <2>4 DEF CpsEnd
    <3> QED BY <1>1, <1>3, <2>4, <3>1, EndHears
  <2>5. ~CpsWalkCrash
    BY DEF CpsWalkCrash
  <2> QED BY <1>6, <2>1, <2>2, <2>3, <2>4, <2>5 DEF Serve
<1>7. ASSUME NEW f, LagEvent(f) PROVE Heard'
  <2>1. f = "none" /\ spent.faults = 0 /\ alive
    BY <1>2, <1>7 DEF LagEvent
  <2> QED BY <1>3, <1>7, <2>1, LagEventHears
<1>8. ASSUME NEW f, VlanEvent(f) PROVE Heard'
  <2>1. f = "none" /\ spent.faults = 0 /\ alive
    BY <1>2, <1>8 DEF VlanEvent, Take
  <2> QED BY <1>3, <1>8, <2>1, VlanEventHears
<1>9. ~VlanEventCrash
  BY DEF VlanEventCrash
<1>10. CASE Other
  <2>1. spent.faults = 0 /\ alive
    BY <1>2, <1>10 DEF Other, OtherCreate, OtherDelete, OtherJoin, OtherLeave, BondGone
  <2> QED BY <1>3, <1>10, <2>1, OtherHears
<1>11. CASE UNCHANGED vars
  <2>1. UNCHANGED <<lags, pubs, nas, kbonds, kbridges, kmem, used, queue, cps, history, spent, alive>>
    BY <1>11 DEF vars
  <2> QED BY <1>3, <2>1 DEF Heard, Given
<1> QED BY <1>4, <1>5, <1>6, <1>7, <1>8, <1>9, <1>10, <1>11 DEF Next, EventThread

LEMMA HeardAlways == Spec => [](TypeInv /\ FollowInv /\ HeardInv)
<1>1. Init => HeardInv
  BY HeardInit
<1>2. TypeInv /\ FollowInv /\ HeardInv /\ [Next]_vars => HeardInv'
  BY HeardNext
<1>3. CopyInv => TypeInv
  BY DEF CopyInv
<1> QED BY <1>1, <1>2, <1>3, FollowAlways, PTL DEF Spec

(* Once the kernel events are handled, and while no request is served and   *)
(* no call has failed, a LAG has in lag_list the ids of exactly the VLANs   *)
(* whose bridges its interfaces are in, in the mode they are there, and is  *)
(* stored with exactly the bridges without an id that its untagged          *)
(* interface is in, however requests, LAG events and kernel events of other *)
(* programs came in between: no event is forgotten, or overtaken by what a  *)
(* request did meanwhile.  Excused are what history has as lost, misread or *)
(* stale.                                                                   *)
THEOREM VlansFollow == Spec => []VlansFollowKernel
<1>1. ASSUME TypeInv, FollowInv, HeardInv PROVE VlansFollowKernel
  <2> SUFFICES ASSUME Quiet, NEW b \in nas.known, NEW l \in nas.entries \cap lags,
                      <<b, l>> \notin history.lost \cup history.misread
               PROVE  LET v == nas.vid[b]
                      IN IF v = 0 THEN (kmem[<<l, 0>>] = b) <=> (l \in nas.stored[b])
                         ELSE \A m \in Modes : <<l, m, v>> \notin history.stale =>
                                (kmem[<<l, IF m = "tagged" THEN v ELSE 0>>] = b)
                                  <=> (v \in nas.vlans[<<l, m>>])
    BY DEF VlansFollowKernel
  <2>0. PICK v : v = nas.vid[b]
    OBVIOUS
  <2>1. Heard /\ queue = <<>>
    BY <1>1 DEF HeardInv, Quiet
  <2>2. /\ nas.known \subseteq Bridges /\ nas.entries \subseteq Lags /\ v \in MaybeVid
    BY <1>1, <2>0, TypeParts DEF TypeInv, ThreadType, VlanState
  <2>3. /\ \A x : Silent(queue, b, l, x)
        /\ ~Queued(queue, BridgeEvent("delBridge", b))
    BY <2>1 DEF Silent, Queued
  <2>4. b \in Present(Bridges, kbridges, used) /\ l \in Present(Lags, lags, used)
    BY <2>1, <2>2, <2>3 DEF Heard, Deleted, Present
  <2>5. Settled(b, l, nas, queue, kmem, history.stale)
    BY <2>1, <2>4 DEF Heard, Meets
  <2>6. \A x \in MaybeVid : Caught(nas, b, l, x, kmem[<<l, x>>], history.stale)
    BY <2>3, <2>5 DEF Settled
  <2>7. CASE v = 0
    BY <2>0, <2>6, <2>7 DEF Caught, MaybeVid
  <2>8. ASSUME v # 0, NEW m \in Modes, <<l, m, v>> \notin history.stale
        PROVE  (kmem[<<l, IF m = "tagged" THEN v ELSE 0>>] = b) <=> (v \in nas.vlans[<<l, m>>])
    <3>1. PICK x \in MaybeVid : x = IF m = "tagged" THEN v ELSE 0
      BY <2>2 DEF MaybeVid
    <3>2. ModeOf(x) = m /\ x \in {0, v}
      BY <2>8, <3>1 DEF ModeOf, Modes
    <3> QED BY <2>0, <2>6, <2>8, <3>1, <3>2 DEF Caught
  <2> QED BY <2>0, <2>7, <2>8
<1> QED BY <1>1, HeardAlways, PTL
=============================================================================
