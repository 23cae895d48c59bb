---------------------------- MODULE NasLagProofs ----------------------------
(***************************************************************************)
(* Proofs about NasLag, for any ports, LAGs, requests and failing calls.   *)
(*                                                                         *)
(* TableInv(s) is the inductive invariant of the tables s: their type,     *)
(* NoNpuOrphans and TablesAgree.  Each function of nas_int_lag_api.cpp     *)
(* preserves it (the *Inv lemmas), hence so does every handler, whatever   *)
(* call fails in it.  The second part shows, with the same invariant, that *)
(* every step implements one of LagTable (the *Step lemmas).               *)
(***************************************************************************)
EXTENDS NasLag, SequenceTheorems, FiniteSetTheorems, TLAPS

OrphanFree(s) ==
  /\ s.npuLags \subseteq s.masters
  /\ \A p \in Ports : s.npuMember[p] # None =>
       /\ s.slave[p] = s.npuMember[p]
       /\ p \in s.ports[s.npuMember[p]]
       /\ s.npuMember[p] \in s.npuLags

Agree(s) ==
  \A l \in Lags : l \in s.npuLags \/ l \notin s.masters =>
    \A p \in Ports : /\ p \in s.ports[l] <=> s.slave[p] = l
                     /\ p \in s.ports[l] <=> s.npuMember[p] = l

TableInv(s) == s \in NasState /\ OrphanFree(s) /\ Agree(s)

-----------------------------------------------------------------------------
(* The functions on the tables. *)

(* nas_lag_master_add keeps the invariant, whichever of its calls fails. *)
LEMMA MasterAddInv ==
  ASSUME NEW s, TableInv(s), NEW l \in Lags, NEW f
  PROVE  TableInv(MasterAdd(s, l, f))
<1> DEFINE t == MasterAdd(s, l, f)
<1> USE NasLagAssumption DEF TableInv
<1>1. CASE l \in s.masters \/ f = "npuLagCreate"
  BY <1>1 DEF MasterAdd
<1>2. CASE ~(l \in s.masters \/ f = "npuLagCreate")
  <2>1. t \in NasState
    BY <1>2 DEF MasterAdd, NasState
  <2>2. OrphanFree(t)
    BY <1>2 DEF MasterAdd, NasState, OrphanFree, MaybeLag
  <2>3. Agree(t)
    BY <1>2 DEF MasterAdd, NasState, OrphanFree, Agree, MaybeLag
  <2> QED BY <2>1, <2>2, <2>3
<1> QED BY <1>1, <1>2

(* nas_lag_member_add keeps it: the NPU accepts only a port in no LAG. *)
LEMMA MemberAddInv ==
  ASSUME NEW s, TableInv(s), NEW l \in Lags, NEW p \in Ports, NEW f
  PROVE  TableInv(MemberAdd(s, l, p, f))
<1> DEFINE t == MemberAdd(s, l, p, f)
<1> USE NasLagAssumption DEF TableInv
<1>1. CASE ~MemberAddOk(s, l, p, f) \/ p \in s.ports[l]
  BY <1>1 DEF MemberAdd
<1>2. CASE ~(~MemberAddOk(s, l, p, f) \/ p \in s.ports[l])
  <2>0. l \in s.npuLags /\ s.npuMember[p] = None
    BY <1>2 DEF MemberAddOk, NpuAccepts
  <2>1. t \in NasState
    BY <1>2 DEF MemberAdd, NasState, MaybeLag
  <2>2. OrphanFree(t)
    BY <1>2, <2>0 DEF MemberAdd, NasState, OrphanFree, MaybeLag
  <2>3. Agree(t)
    BY <1>2, <2>0 DEF MemberAdd, NasState, OrphanFree, Agree, MaybeLag
  <2> QED BY <2>1, <2>2, <2>3
<1> QED BY <1>1, <1>2

(* nas_lag_member_delete keeps it: the slave entry names the right LAG. *)
LEMMA MemberDeleteInv ==
  ASSUME NEW s, TableInv(s), NEW p \in Ports, NEW f
  PROVE  TableInv(MemberDelete(s, p, f))
<1> DEFINE t == MemberDelete(s, p, f)
<1> USE NasLagAssumption DEF TableInv
<1>1. CASE ~MemberDeleteOk(s, p, f)
  BY <1>1 DEF MemberDelete
<1>2. CASE MemberDeleteOk(s, p, f)
  <2>0. s.slave[p] \in Lags /\ s.slave[p] \in s.npuLags
    BY <1>2 DEF MemberDeleteOk, OrphanFree, NasState
  <2>1. t \in NasState
    BY <1>2, <2>0 DEF MemberDelete, NasState, MaybeLag
  <2>2. OrphanFree(t)
    BY <1>2, <2>0 DEF MemberDelete, NasState, OrphanFree, MaybeLag
  <2>3. Agree(t)
    BY <1>2, <2>0 DEF MemberDelete, NasState, OrphanFree, Agree, MaybeLag
  <2> QED BY <2>1, <2>2, <2>3
<1> QED BY <1>1, <1>2

(* So does the event that takes a member out of its LAG. *)
LEMMA StripInv ==
  ASSUME NEW s, TableInv(s), NEW p \in Ports, NEW f, MemberDeleteOk(s, p, f)
  PROVE  TableInv(Strip(s, p, f))
<1> DEFINE d == MemberDelete(s, p, f)
<1>1. TableInv(d) /\ s.slave[p] \in Lags
  BY MemberDeleteInv DEF MemberDeleteOk, TableInv, NasState
<1> HIDE DEF d
<1>2. PICK L \in SUBSET Lags : L = d.stripped \cup {s.slave[p]}
  BY <1>1 DEF TableInv, NasState
<1>3. Strip(s, p, f) = [d EXCEPT !.stripped = L]
  BY <1>1, <1>2 DEF Strip, d
<1> DEFINE t == [d EXCEPT !.stripped = L]
<1>4. t \in NasState
  BY <1>1, <1>2 DEF TableInv, NasState
<1>5. /\ t.masters = d.masters /\ t.npuLags = d.npuLags /\ t.ports = d.ports
      /\ t.slave = d.slave /\ t.npuMember = d.npuMember
  BY <1>1 DEF TableInv, NasState
<1> HIDE DEF t
<1>6. TableInv(t)
  BY <1>1, <1>4, <1>5 DEF TableInv, OrphanFree, Agree
<1> QED BY <1>3, <1>6 DEF t

(* The NPU dropping a LAG with its members keeps it. *)
LEMMA NpuLagDeleteInv ==
  ASSUME NEW s, TableInv(s), NEW l \in Lags
  PROVE  TableInv(NpuLagDelete(s, l))
<1> DEFINE t == NpuLagDelete(s, l)
<1> USE NasLagAssumption DEF TableInv
<1>1. t \in NasState
  BY DEF NpuLagDelete, NasState, MaybeLag
<1>2. OrphanFree(t)
  BY DEF NpuLagDelete, NasState, OrphanFree, MaybeLag
<1>3. Agree(t)
  BY DEF NpuLagDelete, NasState, OrphanFree, Agree, MaybeLag
<1> QED BY <1>1, <1>2, <1>3

(* Erasing the entry of a LAG whose port list still says what the slave     *)
(* table says clears every trace of it.                                     *)
LEMMA MasterEraseInv ==
  ASSUME NEW s, TableInv(s), NEW l \in Lags, l \notin s.npuLags,
         \A p \in Ports : p \in s.ports[l] <=> s.slave[p] = l
  PROVE  TableInv(MasterErase(s, l))
<1> DEFINE t == MasterErase(s, l)
<1> USE NasLagAssumption DEF TableInv
<1>1. t \in NasState
  BY DEF MasterErase, NasState, MaybeLag
<1>2. OrphanFree(t)
  BY DEF MasterErase, NasState, OrphanFree, MaybeLag
<1>3. Agree(t)
  BY DEF MasterErase, NasState, OrphanFree, Agree, MaybeLag
<1> QED BY <1>1, <1>2, <1>3

(* nas_lag_master_delete keeps it, wherever it stops. *)
LEMMA MasterDeleteInv ==
  ASSUME NEW s, TableInv(s), NEW l \in Lags, NEW f, NEW refuse
  PROVE  TableInv(MasterDelete(s, l, f, refuse))
<1> DEFINE t == NpuLagDelete(s, l)
<1> SUFFICES ASSUME NpuLagDeleteOk(s, l, f, refuse)
             PROVE  TableInv(MasterDelete(s, l, f, refuse))
  BY DEF MasterDelete
<1>1. TableInv(t)
  BY NpuLagDeleteInv
<1>2. CASE f = "deregister"
  BY <1>1, <1>2 DEF MasterDelete
<1>3. CASE f = "publish"
  <2>1. TableInv([t EXCEPT !.registered = @ \ {l}])
    BY <1>1 DEF TableInv, NasState, OrphanFree, Agree
  <2> QED BY <1>3, <2>1 DEF MasterDelete
<1>4. CASE f \notin {"deregister", "publish"}
  <2>1. l \notin t.npuLags
    BY DEF NpuLagDelete, TableInv, NasState
  <2>2. t.ports = s.ports /\ t.slave = s.slave
    BY DEF NpuLagDelete, TableInv, NasState
  <2>3. \A p \in Ports : p \in t.ports[l] <=> t.slave[p] = l
    BY <2>2 DEF NpuLagDeleteOk, TableInv, Agree
  <2>4. TableInv(MasterErase(t, l))
    BY <1>1, <2>1, <2>3, MasterEraseInv
  <2> QED BY <1>4, <2>4 DEF MasterDelete
<1> QED BY <1>2, <1>3, <1>4

(* Block states, history and publications are no part of the relation. *)
LEMMA BlockByLinkInv ==
  ASSUME NEW s, TableInv(s), NEW l \in Lags, NEW p \in Ports,
         NEW up \in BOOLEAN, NEW f
  PROVE  TableInv(BlockByLink(s, l, p, up, f))
BY DEF BlockByLink, TableInv, NasState, OrphanFree, Agree

(* nas_cps_set_lag changes only block states. *)
LEMMA ApplyBlocksInv ==
  ASSUME NEW s, TableInv(s), NEW l \in Lags, NEW attrs, NEW skip
  PROVE  TableInv(ApplyBlocks(s, l, attrs, skip))
<1> DEFINE hit == {p \in Blockable(s, l) \ skip : BlockingOf(attrs, p) # {}}
           final(p) == attrs[Max(BlockingOf(attrs, p))].kind = "block"
           eg == [p \in Ports |-> IF p \in hit THEN final(p) ELSE s.egress[p]]
           t == [s EXCEPT !.manual = s.manual \cup hit, !.egress = eg]
<1>1. hit \subseteq Ports
  BY DEF Blockable, TableInv, NasState
<1>2. \A p \in Ports : final(p) \in BOOLEAN
  OBVIOUS
<1>3. eg \in [Ports -> BOOLEAN]
  <2> HIDE DEF hit, final
  <2> QED BY <1>2 DEF TableInv, NasState
<1>4. TableInv(t)
  <2> HIDE DEF hit, eg
  <2> QED BY <1>1, <1>3 DEF TableInv, NasState, OrphanFree, Agree
<1>5. t = ApplyBlocks(s, l, attrs, skip)
  BY DEF ApplyBlocks
<1> QED BY <1>4, <1>5

(* Publishing a LAG changes no table. *)
LEMMA PublishInv ==
  ASSUME NEW s, TableInv(s), NEW l \in Lags, NEW f
  PROVE  TableInv(Publish(s, l, f))
BY DEF Publish, TableInv, NasState, OrphanFree, Agree

-----------------------------------------------------------------------------
(* The event handler. *)

(* nas_lag_ev_handler keeps the invariant on a create event. *)
LEMMA OnCreateInv ==
  ASSUME NEW s, TableInv(s), NEW e \in Event, NEW f,
         link \in [Ports -> BOOLEAN]
  PROVE  TableInv(OnCreate(s, e, f))
<1> DEFINE entry == MasterAdd(s, e.lag, f)
           added == MemberAdd(entry, e.lag, e.port, f)
           shown == IF f = "npuLinkGet" THEN added
                    ELSE BlockByLink(added, e.lag, e.port, link[e.port], f)
<1>1. e.lag \in Lags /\ (e.port = None \/ e.port \in Ports)
  BY DEF Event
<1>2. TableInv(entry) /\ TableInv(Publish(entry, e.lag, f))
  BY <1>1, MasterAddInv, PublishInv
<1>3. ASSUME e.port \in Ports
      PROVE  TableInv(added) /\ TableInv(Publish(shown, e.lag, f))
  <2>1. TableInv(added)
    BY <1>1, <1>2, <1>3, MemberAddInv
  <2>2. link[e.port] \in BOOLEAN
    BY <1>3
  <2>3. TableInv(shown)
    BY <1>1, <1>3, <2>1, <2>2, BlockByLinkInv
  <2> QED BY <1>1, <2>1, <2>3, PublishInv
<1>4. OnCreate(s, e, f) \in {entry, Publish(entry, e.lag, f)}
      \/ (e.port # None /\ OnCreate(s, e, f) \in
                              {added, Publish(shown, e.lag, f)})
  BY DEF OnCreate
<1> QED BY <1>1, <1>2, <1>3, <1>4

(* nas_lag_ev_handler keeps the invariant on a delete event. *)
LEMMA OnDeleteInv ==
  ASSUME NEW s, TableInv(s), NEW e \in Event, NEW f, NEW refuse
  PROVE  TableInv(OnDelete(s, e, f, refuse))
<1>1. e.lag \in Lags /\ (e.port = None \/ e.port \in Ports)
  BY DEF Event
<1>2. CASE e.port = None
  BY <1>1, <1>2, MasterDeleteInv DEF OnDelete
<1>3. CASE e.port # None
  <2>1. CASE MemberDeleteOk(s, e.port, f)
    <3>1. TableInv(Strip(s, e.port, f))
      BY <1>1, <1>3, <2>1, StripInv
    <3>2. TableInv(Publish(Strip(s, e.port, f), e.lag, f))
      BY <1>1, <3>1, PublishInv
    <3> QED BY <1>3, <2>1, <3>2 DEF OnDelete
  <2> QED BY <1>3, <2>1 DEF OnDelete
<1> QED BY <1>2, <1>3

(* The event thread keeps the invariant on every event. *)
LEMMA HandleInv ==
  ASSUME NEW s, TableInv(s), NEW e \in Event, NEW f, NEW refuse,
         link \in [Ports -> BOOLEAN]
  PROVE  TableInv(Handle(s, e, f, refuse))
BY OnCreateInv, OnDeleteInv DEF Handle
-----------------------------------------------------------------------------
(* The kernel keeps its types; a bond that goes releases its ports as a     *)
(* sequence of events about them.                                           *)

KernelType ==
  /\ bonds \subseteq Lags /\ allocated \subseteq Lags
  /\ kmaster \in [Ports -> MaybeLag]
  /\ queue \in Seq(Event)

(* The events the kernel reports are events. *)
LEMMA EventTypes ==
  ASSUME NEW l \in Lags, NEW p \in Ports \cup {None}
  PROVE  Create(l, p) \in Event /\ Delete(l, p) \in Event
BY DEF Create, Delete, Event

(* Creating a bond keeps the type of the kernel's state. *)
LEMMA KernelCreateType ==
  ASSUME KernelType, NEW l \in Lags, KernelCreate(l)
  PROVE  KernelType'
BY EventTypes DEF KernelType, KernelCreate

(* Deleting a bond with its slaves keeps it. *)
LEMMA KernelDeleteType ==
  ASSUME KernelType, NEW l \in Lags, KernelDelete(l)
  PROVE  KernelType'
<1> DEFINE slaves == {p \in Ports : kmaster[p] = l}
           gone(order) == [i \in DOMAIN order |-> Delete(l, order[i])]
<1>1. kmaster' \in [Ports -> MaybeLag]
  BY DEF KernelType, KernelDelete, MaybeLag
<1>2. PICK order \in SetToSeqs(slaves) :
        queue' = queue \o gone(order) \o <<Delete(l, None)>>
  BY DEF KernelDelete
<1>3. order \in [1..Cardinality(slaves) -> slaves]
  BY <1>2 DEF SetToSeqs
<1>4. Cardinality(slaves) \in Nat
  <2>1. IsFiniteSet(slaves)
    BY NasLagAssumption, FS_Subset
  <2> QED BY <2>1, FS_CardinalityType
<1>5. gone(order) \in Seq(Event)
  <2>1. \A i \in 1..Cardinality(slaves) : Delete(l, order[i]) \in Event
    BY <1>3, EventTypes
  <2>2. DOMAIN order = 1..Cardinality(slaves)
    BY <1>3
  <2>3. gone(order) \in [1..Cardinality(slaves) -> Event]
    BY <2>1, <2>2
  <2> HIDE DEF gone, slaves
  <2> QED BY <1>4, <2>3, SeqDef
<1>6. queue' \in Seq(Event)
  <2>1. <<Delete(l, None)>> \in Seq(Event)
    BY EventTypes
  <2> HIDE DEF gone
  <2> QED BY <1>2, <1>5, <2>1 DEF KernelType
<1> QED BY <1>1, <1>6 DEF KernelType, KernelDelete

(* Releasing a slave keeps it. *)
LEMMA KernelReleaseType ==
  ASSUME KernelType, NEW p \in Ports, KernelRelease(p)
  PROVE  KernelType'
<1>1. kmaster' \in [Ports -> MaybeLag]
  BY DEF KernelType, KernelRelease, MaybeLag
<1>2. queue' \in Seq(Event)
  <2>1. kmaster[p] # None => Delete(kmaster[p], p) \in Event
    BY EventTypes DEF KernelType, MaybeLag
  <2> QED BY <2>1 DEF KernelType, KernelRelease
<1> QED BY <1>1, <1>2 DEF KernelType, KernelRelease

(* Enslaving a port keeps it. *)
LEMMA KernelEnslaveType ==
  ASSUME KernelType, NEW l \in Lags, NEW p \in Ports, KernelEnslave(l, p)
  PROVE  KernelType'
<1>1. kmaster' \in [Ports -> MaybeLag]
  BY DEF KernelType, KernelEnslave, MaybeLag
<1>2. queue' \in Seq(Event)
  <2>1. Create(l, p) \in Event
    BY EventTypes
  <2>2. kmaster[p] # None => Delete(kmaster[p], p) \in Event
    BY EventTypes DEF KernelType, MaybeLag
  <2>3. CASE kmaster[p] = l
    <3>1. queue' = queue
      BY <2>3, NasLagAssumption DEF KernelEnslave
    <3> QED BY <3>1 DEF KernelType
  <2>4. CASE kmaster[p] # l /\ kmaster[p] = None
    <3>1. queue' = Append(queue, Create(l, p))
      BY <2>4 DEF KernelEnslave
    <3> QED BY <2>1, <3>1 DEF KernelType
  <2>5. CASE kmaster[p] # l /\ kmaster[p] # None
    <3>1. queue' = queue \o <<Delete(kmaster[p], p), Create(l, p)>>
      BY <2>5 DEF KernelEnslave
    <3>2. <<Delete(kmaster[p], p), Create(l, p)>> \in Seq(Event)
      BY <2>1, <2>2, <2>5
    <3> QED BY <3>1, <3>2 DEF KernelType
  <2> QED BY <2>3, <2>4, <2>5
<1> QED BY <1>1, <1>2 DEF KernelType, KernelEnslave
-----------------------------------------------------------------------------
(* The inductive invariant: the tables, the types of the rest, and that the *)
(* CPS thread serves the ports of a LAG.                                    *)

SpentType == spent \in [{"requests", "external", "link", "faults"} -> Nat]

ThreadType ==
  /\ link \in [Ports -> BOOLEAN]
  /\ linkQueue \in Seq(LinkReport)
  /\ cps \in CpsState /\ (cps.pc = "ports" => cps.lag \in Lags)

IInv == TableInv(nas) /\ KernelType /\ ThreadType /\ SpentType

(* The inductive invariant gives the three that the runs check. *)
LEMMA InvImplies == IInv => TypeOK /\ NoNpuOrphans /\ TablesAgree
BY DEF IInv, TypeOK, NoNpuOrphans, TablesAgree, TableInv, OrphanFree, Agree,
       KernelType, ThreadType, SpentType

(* It holds when the daemon starts. *)
LEMMA InitInv == Init => IInv
BY NasLagAssumption
   DEF Init, IInv, TableInv, OrphanFree, Agree, KernelType, ThreadType,
       SpentType, NasState, MaybeLag, CpsState, Idle

(* The counters of the bounds stay numbers. *)
LEMMA SpendType ==
  ASSUME SpentType, NEW f, SpendFault(f) \/ SpendRequest(f) \/ SpendExternal
  PROVE  SpentType'
<1>1. Faults(f) \in Nat
  BY DEF Faults, SpentType
<1>2. CASE SpendFault(f)
  BY <1>1, <1>2 DEF SpendFault, SpentType
<1>3. CASE SpendRequest(f)
  <2>1. spent.requests + 1 \in Nat
    BY DEF SpentType
  <2>2. spent' = [[spent EXCEPT !.requests = spent.requests + 1]
                     EXCEPT !.faults = Faults(f)]
    BY <1>3 DEF SpendRequest
  <2> QED BY <1>1, <2>1, <2>2 DEF SpentType
<1>4. CASE SpendExternal
  BY <1>4 DEF SpendExternal, SpentType
<1> QED BY <1>2, <1>3, <1>4

(* A request leaves the CPS thread in a state of its type. *)
LEMMA PortsOfType ==
  ASSUME NEW l \in Lags, NEW adding \in BOOLEAN, NEW attrs \in Requests
  PROVE  /\ PortsOf(l, adding, attrs) \in CpsState
         /\ PortsOf(l, adding, attrs).pc = "ports"
              => PortsOf(l, adding, attrs).lag \in Lags
<1>1. Named(attrs) \subseteq Ports
  <2>1. attrs \in Seq(Attr)
    BY NasLagAssumption
  <2>2. \A i \in DOMAIN attrs : attrs[i] \in Attr
    BY <2>1
  <2>3. \A i \in DOMAIN attrs : attrs[i].port \in Ports \cup {None}
    BY <2>2 DEF Attr
  <2> QED BY <2>3 DEF Named
<1> QED BY <1>1 DEF PortsOf, CpsState, Idle, MaybeLag

(* The CPS thread's idle state has its type. *)
LEMMA IdleType == Idle \in CpsState /\ Idle.pc # "ports"
BY DEF Idle, CpsState, MaybeLag

(* Every CPS request keeps the invariant at its first step. *)
LEMMA RequestInv ==
  ASSUME IInv, NEW l \in Lags, NEW f, NEW attrs \in Requests, NEW skip,
         NEW refuse,
         \/ CpsCreateKnown(l, attrs, f, skip) \/ CpsCreateNew(l, attrs, f)
         \/ CpsSet(l, attrs, f, skip) \/ CpsDelete(l, f, refuse)
  PROVE  IInv'
<1>0. SpentType'
  BY SpendType DEF IInv, CpsCreateKnown, CpsCreateNew, CpsSet, CpsDelete
<1>1. CASE CpsCreateKnown(l, attrs, f, skip)
  <2>1. TableInv(nas')
    BY <1>1, ApplyBlocksInv DEF IInv, CpsCreateKnown
  <2>2. KernelType'
    BY <1>1 DEF IInv, CpsCreateKnown, kernel, KernelType
  <2>3. ThreadType'
    BY <1>1, PortsOfType, IdleType DEF IInv, CpsCreateKnown, links, ThreadType
  <2> QED BY <1>0, <2>1, <2>2, <2>3 DEF IInv
<1>2. CASE CpsCreateNew(l, attrs, f)
  <2>1. TableInv(nas')
    BY <1>2, MasterAddInv DEF IInv, CpsCreateNew
  <2>2. KernelType'
    BY <1>2, KernelCreateType DEF IInv, CpsCreateNew
  <2>3. ThreadType'
    BY <1>2, PortsOfType, IdleType DEF IInv, CpsCreateNew, links, ThreadType
  <2> QED BY <1>0, <2>1, <2>2, <2>3 DEF IInv
<1>3. CASE CpsSet(l, attrs, f, skip)
  <2>1. TableInv(nas')
    BY <1>3, ApplyBlocksInv DEF IInv, CpsSet
  <2>2. KernelType'
    BY <1>3 DEF IInv, CpsSet, kernel, KernelType
  <2>3. ThreadType'
    BY <1>3, PortsOfType, IdleType DEF IInv, CpsSet, links, ThreadType
  <2> QED BY <1>0, <2>1, <2>2, <2>3 DEF IInv
<1>4. CASE CpsDelete(l, f, refuse)
  <2>1. TableInv(nas')
    BY <1>4, MasterDeleteInv DEF IInv, CpsDelete
  <2>2. KernelType'
    BY <1>4, KernelDeleteType DEF IInv, CpsDelete
  <2>3. ThreadType'
    BY <1>4 DEF IInv, CpsDelete, links, ThreadType
  <2> QED BY <1>0, <2>1, <2>2, <2>3 DEF IInv
<1> QED BY <1>1, <1>2, <1>3, <1>4

(* Adding one port of a request keeps it. *)
LEMMA AddPortInv ==
  ASSUME IInv, NEW p \in Ports, NEW f, CpsAddPort(p, f)
  PROVE  IInv'
<1>0. SpentType' /\ cps.lag \in Lags
  BY SpendType DEF IInv, CpsAddPort, ThreadType
<1>1. TableInv(nas')
  BY <1>0, MemberAddInv DEF IInv, CpsAddPort
<1>2. KernelType'
  BY <1>0, KernelEnslaveType DEF IInv, CpsAddPort, kernel, KernelType
<1>3. cps' \in CpsState /\ (cps'.pc = "ports" => cps'.lag \in Lags)
  <2>1. [cps EXCEPT !.todo = @ \ {p}] \in CpsState
        /\ [cps EXCEPT !.todo = @ \ {p}].lag = cps.lag
    BY DEF IInv, ThreadType, CpsState
  <2>2. cps' \in {Idle, [cps EXCEPT !.todo = @ \ {p}]}
    BY DEF CpsAddPort
  <2> QED BY <1>0, <2>1, <2>2, IdleType
<1>4. ThreadType'
  BY <1>3 DEF IInv, CpsAddPort, links, ThreadType
<1> QED BY <1>0, <1>1, <1>2, <1>4 DEF IInv

(* Deleting one port of a request keeps it. *)
LEMMA DeletePortInv ==
  ASSUME IInv, NEW p \in Ports, NEW f, CpsDeletePort(p, f)
  PROVE  IInv'
<1>0. SpentType' /\ cps.lag \in Lags
  BY SpendType DEF IInv, CpsDeletePort, ThreadType
<1>1. TableInv(nas')
  BY MemberDeleteInv DEF IInv, CpsDeletePort
<1>2. KernelType'
  BY KernelReleaseType DEF IInv, CpsDeletePort, kernel, KernelType
<1>3. cps' \in CpsState /\ (cps'.pc = "ports" => cps'.lag \in Lags)
  <2>1. [cps EXCEPT !.todo = @ \ {p}] \in CpsState
        /\ [cps EXCEPT !.todo = @ \ {p}].lag = cps.lag
    BY DEF IInv, ThreadType, CpsState
  <2>2. cps' \in {Idle, [cps EXCEPT !.todo = @ \ {p}]}
    BY DEF CpsDeletePort
  <2> QED BY <1>0, <2>1, <2>2, IdleType
<1>4. ThreadType'
  BY <1>3 DEF IInv, CpsDeletePort, links, ThreadType
<1> QED BY <1>0, <1>1, <1>2, <1>4 DEF IInv

(* The end of a request keeps it. *)
LEMMA FinishInv ==
  ASSUME IInv, NEW f, CpsFinish(f)
  PROVE  IInv'
<1>1. TableInv(nas')
  BY PublishInv DEF IInv, CpsFinish, ThreadType
<1>2. KernelType' /\ SpentType'
  BY SpendType DEF IInv, CpsFinish, kernel, KernelType
<1>3. ThreadType'
  BY IdleType DEF IInv, CpsFinish, links, ThreadType
<1> QED BY <1>1, <1>2, <1>3 DEF IInv

(* Handling a kernel event keeps it. *)
LEMMA LagEventInv ==
  ASSUME IInv, NEW f, NEW refuse, LagEvent(f, refuse)
  PROVE  IInv'
<1>1. Head(queue) \in Event /\ Tail(queue) \in Seq(Event)
  BY DEF IInv, KernelType, LagEvent
<1>2. TableInv(nas')
  BY <1>1, HandleInv DEF IInv, LagEvent, ThreadType
<1>3. KernelType' /\ SpentType'
  BY <1>1, SpendType DEF IInv, LagEvent, KernelType
<1>4. ThreadType'
  BY DEF IInv, LagEvent, links, ThreadType
<1> QED BY <1>2, <1>3, <1>4 DEF IInv

(* Handling a link callback keeps it. *)
LEMMA LinkEventInv ==
  ASSUME IInv, NEW f, LinkEvent(f)
  PROVE  IInv'
<1>1. /\ Head(linkQueue) \in LinkReport
      /\ Tail(linkQueue) \in Seq(LinkReport)
  BY DEF IInv, ThreadType, LinkEvent
<1>2. nas.masters \subseteq Lags
  BY DEF IInv, TableInv, NasState
<1>3. TableInv(nas')
  <2> DEFINE c == Head(linkQueue)
  <2>1. c.port \in Ports /\ c.up \in BOOLEAN
    BY <1>1 DEF LinkReport
  <2>2. nas' \in {nas, BlockByLink(nas, nas.slave[c.port], c.port, c.up, f)}
        /\ (nas' # nas => nas.slave[c.port] \in Lags)
    BY <1>2 DEF LinkEvent
  <2> HIDE DEF c
  <2> QED BY <2>1, <2>2, BlockByLinkInv DEF IInv
<1>4. KernelType' /\ SpentType'
  BY SpendType DEF IInv, LinkEvent, kernel, KernelType
<1>5. ThreadType'
  BY <1>1 DEF IInv, LinkEvent, ThreadType
<1> QED BY <1>3, <1>4, <1>5 DEF IInv

(* A link change keeps it. *)
LEMMA LinkChangeInv ==
  ASSUME IInv, NEW p \in Ports, LinkChange(p)
  PROVE  IInv'
<1>1. TableInv(nas') /\ KernelType'
  BY DEF IInv, LinkChange, kernel, KernelType
<1>2. SpentType'
  BY DEF IInv, LinkChange, SpentType
<1>3. ThreadType'
  <2>1. link' \in [Ports -> BOOLEAN]
    BY DEF IInv, LinkChange, ThreadType
  <2>2. (~link[p]) \in BOOLEAN
    BY Zenon DEF IInv, ThreadType
  <2>3. [port |-> p, up |-> ~link[p]] \in LinkReport
    BY <2>2 DEF LinkReport
  <2>4. linkQueue' \in Seq(LinkReport)
    BY <2>3 DEF IInv, LinkChange, ThreadType
  <2> QED BY <2>1, <2>4 DEF IInv, LinkChange, ThreadType
<1> QED BY <1>1, <1>2, <1>3 DEF IInv

(* What other programs do to the kernel keeps it. *)
LEMMA ExternalInv ==
  ASSUME IInv, NEW l, NEW p,
         \/ l \in Lags /\ (OtherCreate(l) \/ OtherDelete(l))
         \/ l \in Lags /\ p \in Ports /\ OtherEnslave(l, p)
         \/ p \in Ports /\ OtherRelease(p)
  PROVE  IInv'
<1>1. KernelType'
  BY KernelCreateType, KernelDeleteType, KernelEnslaveType, KernelReleaseType
     DEF IInv, OtherCreate, OtherDelete, OtherEnslave, OtherRelease
<1>2. SpentType'
  BY SpendType DEF IInv, OtherCreate, OtherDelete, OtherEnslave, OtherRelease
<1>3. TableInv(nas') /\ ThreadType'
  BY DEF IInv, OtherCreate, OtherDelete, OtherEnslave, OtherRelease, links,
         ThreadType
<1> QED BY <1>1, <1>2, <1>3 DEF IInv
(* Every step preserves the invariant. *)
LEMMA NextInv == IInv /\ [Next]_vars => IInv'
<1> SUFFICES ASSUME IInv, [Next]_vars PROVE IInv'
  OBVIOUS
<1>1. CASE Request
  BY <1>1, RequestInv DEF Request
<1>2. CASE Serve
  BY <1>2, AddPortInv, DeletePortInv, FinishInv DEF Serve
<1>3. CASE EventThread
  BY <1>3, LagEventInv DEF EventThread
<1>4. CASE CallbackThread
  BY <1>4, LinkEventInv DEF CallbackThread
<1>5. CASE Other
  <2>1. CASE \E l \in Lags : OtherCreate(l) \/ OtherDelete(l)
    BY <2>1, ExternalInv
  <2>2. CASE \E l \in Lags, p \in Ports : OtherEnslave(l, p)
    BY <2>2, ExternalInv
  <2>3. CASE \E p \in Ports : OtherRelease(p) \/ LinkChange(p)
    BY <2>3, ExternalInv, LinkChangeInv
  <2> QED BY <1>5, <2>1, <2>2, <2>3 DEF Other
<1>6. CASE UNCHANGED vars
  BY <1>6 DEF vars, IInv, TableInv, KernelType, ThreadType, SpentType
<1> QED BY <1>1, <1>2, <1>3, <1>4, <1>5, <1>6 DEF Next

(* The invariant holds in every reachable state. *)
THEOREM Invariance == Spec => []IInv
BY InitInv, NextInv, PTL DEF Spec

(* Every variable keeps its type, for any number of ports and bonds and     *)
(* any failing calls.                                                       *)
THEOREM TypeCorrect == Spec => []TypeOK
BY Invariance, InvImplies, PTL

(* No failure leaves a LAG or a LAG member in the NPU that the tables of    *)
(* the daemon have no entry for.                                            *)
THEOREM NothingOrphaned == Spec => []NoNpuOrphans
BY Invariance, InvImplies, PTL

(* The slave table, the port lists and the NPU stay the same relation.      *)
THEOREM TablesStayInStep == Spec => []TablesAgree
BY Invariance, InvImplies, PTL
-----------------------------------------------------------------------------
(* The daemon implements LagTable.  On consistent tables the LAG a port has *)
(* for LagTable is the one it has in the NPU, so a step is judged by what   *)
(* it does to the NPU: nothing, or one step of LagTable.                    *)

Same(s, t) == t.npuLags = s.npuLags /\ t.npuMember = s.npuMember

Joins(s, t, l, p) ==
  /\ s.npuMember[p] = None
  /\ t.npuLags = s.npuLags \cup {l}
  /\ t.npuMember = [s.npuMember EXCEPT ![p] = l]

Step(s, t) ==
  \/ Same(s, t)
  \/ \E l \in Lags : t.npuLags = s.npuLags \cup {l} /\ t.npuMember = s.npuMember
  \/ \E l \in Lags, p \in Ports : Joins(s, t, l, p)
  \/ \E p \in Ports : /\ t.npuLags = s.npuLags
                      /\ t.npuMember = [s.npuMember EXCEPT ![p] = None]
  \/ \E l \in Lags :
       /\ t.npuLags = s.npuLags \ {l}
       /\ t.npuMember = [p \in Ports |-> IF s.npuMember[p] = l THEN None
                                                            ELSE s.npuMember[p]]

(* The member a port is in, as the mapping has it, is its NPU member. *)
LEMMA LiveIsNpu ==
  ASSUME TableInv(nas), NEW p \in Ports
  PROVE  LiveMaster(p) = nas.npuMember[p]
BY NasLagAssumption DEF TableInv, NasState, OrphanFree, Agree, LiveMaster, MaybeLag

(* A step of the tables that is a step or a stutter of LagTable. *)
LEMMA MapStep ==
  ASSUME TableInv(nas), TableInv(nas'), Step(nas, nas')
  PROVE  Table!Next \/ UNCHANGED Table!vars
<1> DEFINE m == [p \in Ports |-> LiveMaster(p)]
<1>1. m = nas.npuMember
  <2>1. m = [p \in Ports |-> nas.npuMember[p]]
    BY LiveIsNpu
  <2> QED BY <2>1 DEF TableInv, NasState
<1>2. m' = nas'.npuMember
  <2>1. \A p \in Ports : LiveMaster(p)' = nas'.npuMember[p]
    BY NasLagAssumption
       DEF TableInv, NasState, OrphanFree, Agree, LiveMaster, MaybeLag
  <2>2. m' = [p \in Ports |-> nas'.npuMember[p]]
    BY <2>1
  <2> QED BY <2>2 DEF TableInv, NasState
<1> HIDE DEF m
<1>3. CASE Same(nas, nas')
  BY <1>1, <1>2, <1>3 DEF Same, Table!vars, m
<1>4. CASE \E l \in Lags : /\ nas'.npuLags = nas.npuLags \cup {l}
                          /\ nas'.npuMember = nas.npuMember
  BY <1>1, <1>2, <1>4 DEF Table!Next, Table!Add, m
<1>5. CASE \E l \in Lags, p \in Ports : Joins(nas, nas', l, p)
  BY <1>1, <1>2, <1>5 DEF Joins, Table!Next, Table!Join, m
<1>6. CASE \E p \in Ports :
             /\ nas'.npuLags = nas.npuLags
             /\ nas'.npuMember = [nas.npuMember EXCEPT ![p] = None]
  BY <1>1, <1>2, <1>6 DEF Table!Next, Table!Leave, m
<1>7. CASE \E l \in Lags :
             /\ nas'.npuLags = nas.npuLags \ {l}
             /\ nas'.npuMember =
                  [p \in Ports |-> IF nas.npuMember[p] = l THEN None
                                                         ELSE nas.npuMember[p]]
  BY <1>1, <1>2, <1>7 DEF Table!Next, Table!Remove, m
<1> QED BY <1>3, <1>4, <1>5, <1>6, <1>7 DEF Step

(* nas_lag_master_add is Add of LagTable or a stutter. *)
LEMMA MasterAddStep ==
  ASSUME NEW s \in NasState, NEW l \in Lags, NEW f
  PROVE  LET t == MasterAdd(s, l, f)
         IN /\ t.npuMember = s.npuMember
            /\ t.npuLags = s.npuLags \/ t.npuLags = s.npuLags \cup {l}
BY DEF MasterAdd, NasState

(* nas_lag_member_add is Join or a stutter. *)
LEMMA MemberAddStep ==
  ASSUME NEW s, TableInv(s), NEW l \in Lags, NEW p \in Ports, NEW f
  PROVE  LET t == MemberAdd(s, l, p, f)
         IN Same(s, t) \/ (l \in s.npuLags /\ Joins(s, t, l, p))
<1>1. l \in s.npuLags => s.npuLags \cup {l} = s.npuLags
  OBVIOUS
<1> QED BY <1>1
        DEF MemberAdd, MemberAddOk, NpuAccepts, TableInv, NasState, Same, Joins

(* nas_lag_member_delete is Leave or a stutter. *)
LEMMA MemberDeleteStep ==
  ASSUME NEW s \in NasState, NEW p \in Ports, NEW f
  PROVE  Step(s, MemberDelete(s, p, f))
BY DEF MemberDelete, NasState, Same, Step

(* nas_lag_master_delete is Remove, at the NPU call, or a stutter. *)
LEMMA MasterDeleteStep ==
  ASSUME NEW s \in NasState, NEW l \in Lags, NEW f, NEW refuse
  PROVE  Step(s, MasterDelete(s, l, f, refuse))
<1> DEFINE t == NpuLagDelete(s, l)
           u == MasterDelete(s, l, f, refuse)
<1> SUFFICES Step(s, u)
  OBVIOUS
<1>1. /\ t.npuLags = s.npuLags \ {l}
      /\ t.npuMember = [p \in Ports |-> IF s.npuMember[p] = l THEN None
                                                          ELSE s.npuMember[p]]
  BY DEF NpuLagDelete, NasState
<1>2. t \in NasState
  BY NasLagAssumption DEF NpuLagDelete, NasState, MaybeLag
<1>3. Same(t, MasterErase(t, l)) /\ Same(t, [t EXCEPT !.registered = @ \ {l}])
  <2> HIDE DEF t
  <2> QED BY <1>2 DEF MasterErase, Same, NasState
<1>4. u = s \/ Same(t, u)
  <2> HIDE DEF t
  <2>1. Same(t, t)
    BY DEF Same
  <2> QED BY <1>3, <2>1 DEF MasterDelete, t
<1>5. CASE u = s
  BY <1>5 DEF Step, Same
<1>6. CASE Same(t, u)
  <2> HIDE DEF t, u
  <2> QED BY <1>1, <1>6 DEF Step, Same
<1> QED BY <1>4, <1>5, <1>6

(* Block states and publications are stutters. *)
LEMMA QuietStep ==
  ASSUME NEW s \in NasState, NEW l, NEW p, NEW up, NEW f, NEW attrs, NEW skip
  PROVE  /\ Same(s, BlockByLink(s, l, p, up, f))
         /\ Same(s, ApplyBlocks(s, l, attrs, skip))
         /\ Same(s, Publish(s, l, f))
BY DEF Same, NasState, BlockByLink, ApplyBlocks, Publish

(* Tables with the same NPU state map to the same table. *)
LEMMA StepSame ==
  ASSUME NEW s, NEW d, NEW t
  PROVE  /\ Same(s, t) => Step(s, t)
         /\ Step(s, d) /\ Same(d, t) => Step(s, t)
<1>1. Same(s, t) => Step(s, t)
  BY DEF Step
<1>2. ASSUME Same(d, t) PROVE Step(s, d) => Step(s, t)
  <2>1. t.npuLags = d.npuLags /\ t.npuMember = d.npuMember
    BY <1>2 DEF Same
  <2> QED BY <2>1 DEF Step, Same, Joins
<1> QED BY <1>1, <1>2

(* A create event is Add, Join or a stutter. *)
LEMMA OnCreateStep ==
  ASSUME NEW s, TableInv(s), NEW e \in Event, NEW f
  PROVE  Step(s, OnCreate(s, e, f))
<1> DEFINE entry == MasterAdd(s, e.lag, f)
           added == MemberAdd(entry, e.lag, e.port, f)
           shown == IF f = "npuLinkGet" THEN added
                    ELSE BlockByLink(added, e.lag, e.port, link[e.port], f)
           t == OnCreate(s, e, f)
<1> SUFFICES Step(s, t)
  OBVIOUS
<1>1. e.lag \in Lags /\ (e.port = None \/ e.port \in Ports)
  BY DEF Event
<1>2. TableInv(entry)
  BY <1>1, MasterAddInv
<1>3. /\ entry.npuMember = s.npuMember
      /\ entry.npuLags = s.npuLags \/ entry.npuLags = s.npuLags \cup {e.lag}
  BY <1>1, MasterAddStep DEF TableInv
<1>4. Same(entry, t) => Step(s, t)
  <2> HIDE DEF entry, t
  <2> QED BY <1>1, <1>3 DEF Same, Step
<1>5. Same(entry, entry) /\ Same(entry, Publish(entry, e.lag, f))
  BY <1>2, QuietStep DEF TableInv, Same
<1>6. CASE t \in {entry, Publish(entry, e.lag, f)}
  <2> HIDE DEF entry, t
  <2> QED BY <1>4, <1>5, <1>6
<1>7. CASE e.port # None /\ t \in {added, Publish(shown, e.lag, f)}
  <2>1. /\ TableInv(added)
        /\ Same(entry, added)
              \/ (e.lag \in entry.npuLags /\ Joins(entry, added, e.lag, e.port))
    BY <1>1, <1>2, <1>7, MemberAddInv, MemberAddStep
  <2>2. Same(added, shown) /\ shown \in NasState
    <3>1. CASE f = "npuLinkGet"
      BY <2>1, <3>1 DEF TableInv, Same
    <3>2. CASE f # "npuLinkGet"
      <4>1. shown = BlockByLink(added, e.lag, e.port, link[e.port], f)
        BY <3>2
      <4>2. shown \in NasState
        BY <2>1, <4>1 DEF TableInv, NasState, BlockByLink
      <4> QED BY <2>1, <4>1, <4>2, QuietStep DEF TableInv
    <3> QED BY <3>1, <3>2
  <2>3. Same(added, t)
    <3>1. Same(shown, Publish(shown, e.lag, f))
      BY <2>2, QuietStep
    <3> HIDE DEF added, shown
    <3> QED BY <1>7, <2>2, <3>1 DEF Same
  <2>4. CASE Same(entry, added)
    <3> HIDE DEF entry, added, t
    <3> QED BY <1>4, <2>3, <2>4 DEF Same
  <2>5. CASE e.lag \in entry.npuLags /\ Joins(entry, added, e.lag, e.port)
    <3>1. Joins(s, t, e.lag, e.port)
      <4> HIDE DEF entry, added, t
      <4> QED BY <1>3, <2>3, <2>5 DEF Joins, Same
    <3> HIDE DEF t
    <3> QED BY <1>1, <1>7, <3>1 DEF Step
  <2> QED BY <2>1, <2>4, <2>5
<1>8. t \in {entry, Publish(entry, e.lag, f)}
      \/ (e.port # None /\ t \in {added, Publish(shown, e.lag, f)})
  BY DEF OnCreate
<1> QED BY <1>6, <1>7, <1>8

(* A delete event is Leave, Remove or a stutter. *)
LEMMA OnDeleteStep ==
  ASSUME NEW s, TableInv(s), NEW e \in Event, NEW f, NEW refuse
  PROVE  Step(s, OnDelete(s, e, f, refuse))
<1> DEFINE m == MemberDelete(s, e.port, f)
           d == Strip(s, e.port, f)
           t == OnDelete(s, e, f, refuse)
<1> SUFFICES Step(s, t)
  OBVIOUS
<1>1. e.lag \in Lags /\ (e.port = None \/ e.port \in Ports) /\ s \in NasState
  BY DEF Event, TableInv
<1>2. CASE e.port = None
  BY <1>1, <1>2, MasterDeleteStep DEF OnDelete
<1>3. CASE e.port # None
  <2>1. TableInv(m) /\ Step(s, m)
    BY <1>1, <1>3, MemberDeleteInv, MemberDeleteStep
  <2>2. CASE MemberDeleteOk(s, e.port, f)
    <3>1. TableInv(d)
      BY <1>1, <1>3, <2>2, StripInv
    <3>2. d = [m EXCEPT !.stripped = @ \cup {s.slave[e.port]}]
      BY DEF Strip
    <3> HIDE DEF m, d
    <3>3. Same(m, d) /\ Same(d, Publish(d, e.lag, f))
      <4>1. Same(m, d)
        BY <2>1, <3>2 DEF TableInv, NasState, Same
      <4> QED BY <3>1, <4>1, QuietStep DEF TableInv
    <3>4. t = Publish(d, e.lag, f)
      BY <1>3, <2>2 DEF OnDelete, d
    <3>5. Same(m, t)
      BY <3>3, <3>4 DEF Same
    <3> QED BY <2>1, <3>5, StepSame
  <2>3. CASE ~MemberDeleteOk(s, e.port, f)
    <3>1. t = s
      BY <1>3, <2>3 DEF OnDelete
    <3> QED BY <3>1, StepSame DEF Same
  <2> QED BY <2>2, <2>3
<1> QED BY <1>2, <1>3

(* So is each event the event thread handles. *)
LEMMA LagEventStep ==
  ASSUME IInv, NEW f, NEW refuse, LagEvent(f, refuse)
  PROVE  Step(nas, nas')
<1>1. Head(queue) \in Event
  BY DEF IInv, KernelType, LagEvent
<1> QED BY <1>1, OnCreateStep, OnDeleteStep DEF LagEvent, Handle, IInv

(* A link callback is a stutter. *)
LEMMA LinkEventStep ==
  ASSUME IInv, NEW f, LinkEvent(f)
  PROVE  Step(nas, nas')
<1> DEFINE c == Head(linkQueue)
<1>1. nas \in NasState
  BY DEF IInv, TableInv
<1>2. nas' \in {nas, BlockByLink(nas, nas.slave[c.port], c.port, c.up, f)}
  BY DEF LinkEvent
<1>3. Same(nas, nas')
  <2> HIDE DEF c
  <2>1. Same(nas, nas)
    BY DEF Same
  <2> QED BY <1>1, <1>2, <2>1, QuietStep
<1> QED BY <1>3, StepSame

(* A CPS request is Add, Remove or a stutter at its first step. *)
LEMMA RequestStep ==
  ASSUME IInv, NEW l \in Lags, NEW f, NEW attrs, NEW skip, NEW refuse,
         \/ CpsCreateKnown(l, attrs, f, skip) \/ CpsCreateNew(l, attrs, f)
         \/ CpsSet(l, attrs, f, skip) \/ CpsDelete(l, f, refuse)
  PROVE  Step(nas, nas')
<1>1. nas \in NasState
  BY DEF IInv, TableInv
<1>2. Same(nas, nas) /\ Same(nas, ApplyBlocks(nas, l, attrs, skip))
  BY <1>1, QuietStep DEF Same
<1>3. CASE CpsCreateKnown(l, attrs, f, skip) \/ CpsSet(l, attrs, f, skip)
  <2>1. nas' \in {nas, ApplyBlocks(nas, l, attrs, skip)}
    BY <1>3 DEF CpsCreateKnown, CpsSet
  <2> QED BY <1>2, <2>1, StepSame
<1>4. CASE CpsCreateNew(l, attrs, f)
  BY <1>1, <1>4, MasterAddStep DEF CpsCreateNew, Step, Same
<1>5. CASE CpsDelete(l, f, refuse)
  BY <1>1, <1>5, MasterDeleteStep DEF CpsDelete
<1> QED BY <1>3, <1>4, <1>5

(* Each further step of a request is Join, Leave or a stutter. *)
LEMMA ServeStep ==
  ASSUME IInv, NEW p, NEW f,
         \/ p \in Ports /\ (CpsAddPort(p, f) \/ CpsDeletePort(p, f))
         \/ CpsFinish(f)
  PROVE  Step(nas, nas')
<1>1. TableInv(nas) /\ nas \in NasState
  BY DEF IInv, TableInv
<1>2. Same(nas, nas) /\ Same(nas, Publish(nas, cps.lag, f))
  BY <1>1, QuietStep DEF Same
<1>3. CASE p \in Ports /\ CpsAddPort(p, f)
  <2>1. cps.lag \in Lags
    BY <1>3 DEF IInv, ThreadType, CpsAddPort
  <2>2. nas' = nas \/ nas' = MemberAdd(nas, cps.lag, p, f)
    BY <1>3 DEF CpsAddPort
  <2>3. Same(nas, nas') \/ Joins(nas, nas', cps.lag, p)
    BY <1>1, <1>2, <1>3, <2>1, <2>2, MemberAddStep
  <2> QED BY <1>3, <2>1, <2>3 DEF Step
<1>4. CASE p \in Ports /\ CpsDeletePort(p, f)
  BY <1>1, <1>4, MemberDeleteStep DEF CpsDeletePort
<1>5. CASE CpsFinish(f)
  BY <1>2, <1>5, StepSame DEF CpsFinish
<1> QED BY <1>3, <1>4, <1>5

(* Every step of the LAG manager is a step or a stutter of LagTable. *)
LEMMA NextStep == IInv /\ [Next]_vars => Step(nas, nas')
<1> SUFFICES ASSUME IInv, [Next]_vars PROVE Step(nas, nas')
  OBVIOUS
<1>1. CASE Request
  BY <1>1, RequestStep DEF Request
<1>2. CASE Serve
  BY <1>2, ServeStep DEF Serve
<1>3. CASE EventThread
  BY <1>3, LagEventStep DEF EventThread
<1>4. CASE CallbackThread
  BY <1>4, LinkEventStep DEF CallbackThread
<1>5. CASE Other \/ UNCHANGED vars
  <2>1. Same(nas, nas')
    BY <1>5 DEF Other, OtherCreate, OtherDelete, OtherEnslave, OtherRelease,
                LinkChange, vars, Same
  <2> QED BY <2>1, StepSame
<1> QED BY <1>1, <1>2, <1>3, <1>4, <1>5 DEF Next

(* Whatever fails and however requests, events and other programs           *)
(* interleave, what the daemon holds and programs is a LagTable: a port     *)
(* changes LAG only by leaving the first, and a LAG takes only its own      *)
(* members with it when it goes.                                            *)
THEOREM Implementation == Spec => ImplementsTable
<1>1. Init => Table!Init
  BY NasLagAssumption DEF Init, Table!Init, LiveMaster
<1>2. IInv /\ IInv' /\ [Next]_vars => [Table!Next]_Table!vars
  <2> SUFFICES ASSUME IInv, IInv', [Next]_vars
               PROVE  Table!Next \/ UNCHANGED Table!vars
    OBVIOUS
  <2>1. TableInv(nas) /\ TableInv(nas')
    BY DEF IInv
  <2> QED BY <2>1, NextStep, MapStep
<1> QED BY <1>1, <1>2, Invariance, PTL
           DEF Spec, ImplementsTable, Table!Spec
=============================================================================
