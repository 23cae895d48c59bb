------------------------------- MODULE NasLag -------------------------------
(***************************************************************************)
(* The LAG manager: the master and slave tables of nas_int_lag_api.cpp,    *)
(* the CPS handlers of nas_int_lag_cps.cpp, the kernel event handler       *)
(* nas_lag_ev_handler and the link state callback, with the kernel and the *)
(* NPU they program.                                                       *)
(*                                                                         *)
(* Three threads take part.  The CPS thread serves requests and holds      *)
(* lag_lock for a whole request; the event thread replays, in order, what  *)
(* the kernel reported; the NDI callback thread reports link changes.  The *)
(* last two take lag_lock for a whole handler, so each of their handlers   *)
(* is one step.  A CPS request is one step per member port, because the    *)
(* kernel it calls is shared with other programs: cps.pc # "idle" is       *)
(* lag_lock held by the CPS thread.                                        *)
(*                                                                         *)
(* A kernel ifindex is never reused, so each member of Lags is one         *)
(* incarnation of a bond; two incarnations may have the same name.         *)
(***************************************************************************)
EXTENDS Naturals, Sequences, FiniteSets, SequencesExt

CONSTANTS
  Ports,            \* ifindexes of the physical ports
  Lags,             \* ifindexes the kernel may give to bonds
  NameOf,           \* the interface name of each of them
  None,             \* "no LAG" (master index -1), "no port"
  Requests,         \* the attribute lists CPS clients send, in object order
  FaultKinds,       \* which calls may fail, see Calls
  MaxRequests,      \* bound on the CPS requests
  MaxExternal,      \* bound on what other programs do to the kernel
  MaxLinkChanges,   \* bound on the link changes
  MaxFaults         \* bound on the failing calls

(* The calls of the LAG manager that can fail. *)
Calls == {"kernel", "npuLagCreate", "npuLagDelete", "npuMemberAdd",
          "npuMemberDel", "npuBlock", "npuLinkGet", "register", "deregister",
          "publish"}

Names == {NameOf[l] : l \in Lags}
Attr == [kind : {"member", "block", "unblock"}, port : Ports \cup {None}]

ASSUME NasLagAssumption ==
  /\ None \notin Lags /\ None \notin Ports
  /\ IsFiniteSet(Ports)
  /\ Requests \subseteq Seq(Attr)
  /\ FaultKinds \subseteq Calls
  /\ {MaxRequests, MaxExternal, MaxLinkChanges, MaxFaults} \subseteq Nat

VARIABLES
  nas,         \* the daemon's tables and what it has programmed in the NPU
  bonds,       \* bonds that exist in the kernel
  kmaster,     \* the bond each port is enslaved to in the kernel
  allocated,   \* ifindexes the kernel has given out
  queue,       \* kernel events the event thread has not handled
  link,        \* the link state of each port, TRUE is up
  linkQueue,   \* link callbacks not yet delivered
  cps,         \* the CPS request being served
  spent        \* how much of each bound is used

vars == <<nas, bonds, kmaster, allocated, queue, link, linkQueue, cps, spent>>
kernel == <<bonds, kmaster, allocated, queue>>
links == <<link, linkQueue>>

MaybeLag == Lags \cup {None}

(***************************************************************************)
(* nas: the two tables, the interface registry, the published LAG objects  *)
(* and the NPU.  An NPU LAG object is named by the table entry that holds  *)
(* its id.  Two fields are history: manual, the members whose block state  *)
(* was last set by a client and not by the link state; and stripped, the   *)
(* LAGs that lost a member to an event of another LAG and were not         *)
(* published since.                                                        *)
(***************************************************************************)
NasState ==
  [masters    : SUBSET Lags,               \* keys of nas_lag_master_table
   ports      : [Lags -> SUBSET Ports],    \* port_list of each entry
   slave      : [Ports -> MaybeLag],       \* nas_lag_slave_table, master_idx
   registered : SUBSET Lags,               \* dn_hal_if_register
   announced  : SUBSET Lags,               \* last published CREATE or DELETE
   published  : [Lags -> SUBSET Ports],    \* port list last published
   npuLags    : SUBSET Lags,               \* LAG objects in the NPU
   npuMember  : [Ports -> MaybeLag],       \* LAG member objects in the NPU
   egress     : [Ports -> BOOLEAN],        \* egress_disable of the member
   manual     : SUBSET Ports,
   stripped   : SUBSET Lags]

CpsState == [pc : {"idle", "ports"}, lag : MaybeLag, adding : BOOLEAN,
             named : SUBSET Ports, todo : SUBSET Ports]
LinkReport == [port : Ports, up : BOOLEAN]
Event == [op : {"create", "delete"}, lag : Lags, port : Ports \cup {None}]

Idle == [pc |-> "idle", lag |-> None, adding |-> FALSE,
         named |-> {}, todo |-> {}]
Create(l, p) == [op |-> "create", lag |-> l, port |-> p]
Delete(l, p) == [op |-> "delete", lag |-> l, port |-> p]

-----------------------------------------------------------------------------
(* The functions of nas_int_lag_api.cpp on the tables.  f names the call    *)
(* that fails in this handler, if any.                                      *)

(* nas_lag_master_add: a failure after the insertion leaves the entry. *)
MasterAddOk(s, l, f) ==
  l \notin s.masters /\ f \notin {"npuLagCreate", "register", "publish"}

MasterAdd(s, l, f) ==
  IF l \in s.masters \/ f = "npuLagCreate" THEN s
  ELSE [s EXCEPT
          !.masters = @ \cup {l}, !.ports[l] = {}, !.npuLags = @ \cup {l},
          !.registered = IF f = "register" THEN @ ELSE @ \cup {l},
          !.announced = IF f \in {"register", "publish"} THEN @ ELSE @ \cup {l}]

(* The NPU refuses a LAG object that is gone and a port already in a LAG. *)
NpuAccepts(s, l, p, f) ==
  f # "npuMemberAdd" /\ l \in s.npuLags /\ s.npuMember[p] = None

(* nas_lag_member_add: a port already listed is not programmed again. *)
MemberAddOk(s, l, p, f) ==
  l \in s.masters /\ (p \in s.ports[l] \/ NpuAccepts(s, l, p, f))

(* Mutant of MemberAdd: the slave entry gets the arguments swapped. *)
MemberAddSwapped(s, l, p, f) ==
  IF ~MemberAddOk(s, l, p, f) \/ p \in s.ports[l] THEN s
  ELSE [s EXCEPT !.ports[l] = @ \cup {p}, !.slave[p] = p, !.npuMember[p] = l,
                 !.egress[p] = FALSE, !.manual = @ \ {p}]

MemberAdd(s, l, p, f) ==
  IF ~MemberAddOk(s, l, p, f) \/ p \in s.ports[l] THEN s
  ELSE [s EXCEPT !.ports[l] = @ \cup {p}, !.slave[p] = l, !.npuMember[p] = l,
                 !.egress[p] = FALSE, !.manual = @ \ {p}]

(* nas_lag_member_delete: the LAG is the one the slave table names. *)
MemberDeleteOk(s, p, f) ==
  /\ s.slave[p] \in s.masters
  /\ s.npuMember[p] # None /\ f # "npuMemberDel"

MemberDelete(s, p, f) ==
  IF ~MemberDeleteOk(s, p, f) THEN s
  ELSE [s EXCEPT !.ports[s.slave[p]] = @ \ {p}, !.slave[p] = None,
                 !.npuMember[p] = None]

(* The same by an event; as history, the LAG the member was taken out of. *)
Strip(s, p, f) ==
  [MemberDelete(s, p, f) EXCEPT !.stripped = @ \cup {s.slave[p]}]

(* nas_lag_master_delete: the NPU object goes first, its members are not    *)
(* removed before it, so the NPU may refuse a LAG in use or drop them with  *)
(* it.  A failure after that leaves the tables as they were.                *)
NpuLagDeleteOk(s, l, f, refuse) ==
  /\ l \in s.masters \cap s.npuLags /\ f # "npuLagDelete"
  /\ ~(refuse /\ \E p \in Ports : s.npuMember[p] = l)

NpuLagDelete(s, l) ==
  [s EXCEPT !.npuLags = @ \ {l},
            !.npuMember = [p \in Ports |-> IF @[p] = l THEN None ELSE @[p]]]

(* Mutants of MasterErase: nas_lag_remove_all_slave left out, or removing   *)
(* the slaves of every LAG and their NPU objects.                           *)
MasterEraseNoSlaves(s, l) ==
  [s EXCEPT !.registered = @ \ {l}, !.announced = @ \ {l},
            !.published[l] = {}, !.masters = @ \ {l}, !.ports[l] = {}]

MasterEraseAllSlaves(s, l) ==
  [s EXCEPT !.registered = @ \ {l}, !.announced = @ \ {l},
            !.published[l] = {}, !.masters = @ \ {l}, !.ports[l] = {},
            !.slave = [p \in Ports |-> None],
            !.npuMember = [p \in Ports |-> None]]

MasterErase(s, l) ==
  [s EXCEPT !.registered = @ \ {l}, !.announced = @ \ {l},
            !.published[l] = {}, !.masters = @ \ {l}, !.ports[l] = {},
            !.stripped = @ \ {l},
            !.slave = [p \in Ports |->
                         IF p \in s.ports[l] THEN None ELSE @[p]]]

(* Mutant of MasterDelete: the NPU's answer is not looked at. *)
MasterDeleteUnchecked(s, l, f, refuse) ==
  IF l \notin s.masters THEN s
  ELSE MasterErase(IF NpuLagDeleteOk(s, l, f, refuse) THEN NpuLagDelete(s, l) ELSE s, l)

MasterDelete(s, l, f, refuse) ==
  IF ~NpuLagDeleteOk(s, l, f, refuse) THEN s
  ELSE LET t == NpuLagDelete(s, l)
       IN CASE f = "deregister" -> t
            [] f = "publish"    -> [t EXCEPT !.registered = @ \ {l}]
            [] OTHER            -> MasterErase(t, l)

(* nas_lag_block_port: a port that is not listed is skipped with success. *)
Blockable(s, l) ==
  {p \in s.ports[l] : s.slave[p] # None /\ s.npuMember[p] # None}

BlockPortOk(s, l, p, f) ==
  p \notin s.ports[l] \/ (p \in Blockable(s, l) /\ f # "npuBlock")

BlockByLink(s, l, p, up, f) ==
  IF p \in Blockable(s, l) /\ f # "npuBlock"
  THEN [s EXCEPT !.egress[p] = ~up, !.manual = @ \ {p}]
  ELSE s

(* lag_object_publish of a SET: a snapshot of the port list. *)
Publish(s, l, f) ==
  IF l \in s.masters /\ f # "publish"
  THEN [s EXCEPT !.published[l] = s.ports[l], !.stripped = @ \ {l}]
  ELSE s

-----------------------------------------------------------------------------
(* nas_lag_ev_handler, under lag_lock.  The event of a bond carries its     *)
(* admin status, which is stored and published; a member event publishes    *)
(* only when the member operation succeeded.                                *)

(* Mutants of OnCreate: a member event that only creates the LAG, and one   *)
(* that does not look at the link state of the new member.                  *)
OnCreateMasterOnly(s, e, f) == Publish(MasterAdd(s, e.lag, f), e.lag, f)

OnCreateNoBlock(s, e, f) ==
  LET entry == MasterAdd(s, e.lag, f)
      added == IF e.port = None THEN entry ELSE MemberAdd(entry, e.lag, e.port, f)
  IN Publish(added, e.lag, f)

OnCreate(s, e, f) ==
  LET entry == MasterAdd(s, e.lag, f)
      added == MemberAdd(entry, e.lag, e.port, f)
      shown == IF f = "npuLinkGet" THEN added
               ELSE BlockByLink(added, e.lag, e.port, link[e.port], f)
  IN IF e.lag \notin s.masters /\ ~MasterAddOk(s, e.lag, f) THEN entry
     ELSE IF e.port = None THEN Publish(entry, e.lag, f)
     ELSE IF ~MemberAddOk(entry, e.lag, e.port, f) THEN entry
     ELSE IF ~BlockPortOk(added, e.lag, e.port, f) THEN added
     ELSE Publish(shown, e.lag, f)

(* Mutant of OnDelete: a member event does not publish the port list. *)
OnDeleteSilent(s, e, f, refuse) ==
  IF e.port = None THEN MasterDelete(s, e.lag, f, refuse)
  ELSE MemberDelete(s, e.port, f)

(* The member leaves the LAG the slave table names, and the LAG of the      *)
(* event is published: after a move of the port these may be two.           *)
OnDelete(s, e, f, refuse) ==
  IF e.port = None THEN MasterDelete(s, e.lag, f, refuse)
  ELSE IF MemberDeleteOk(s, e.port, f)
       THEN Publish(Strip(s, e.port, f), e.lag, f)
       ELSE s

Handle(s, e, f, refuse) ==
  IF e.op = "create" THEN OnCreate(s, e, f) ELSE OnDelete(s, e, f, refuse)

-----------------------------------------------------------------------------
(* The attributes of a request.  nas_cps_set_lag collects every port it     *)
(* meets in one list, and each block or unblock attribute is applied to     *)
(* all that were collected up to it: a port ends as the last such attribute *)
(* from its first mention on says.                                          *)

Named(attrs) == {attrs[i].port : i \in DOMAIN attrs} \ {None}
HasMember(attrs) == \E i \in DOMAIN attrs : attrs[i].kind = "member"

BlockingOf(attrs, p) ==
  {i \in DOMAIN attrs : /\ attrs[i].kind \in {"block", "unblock"}
                        /\ \E j \in 1..i : attrs[j].port = p}

(* skip: the ports a failing NPU call leaves as they are. *)
ApplyBlocks(s, l, attrs, skip) ==
  LET hit == {p \in Blockable(s, l) \ skip : BlockingOf(attrs, p) # {}}
      final(p) == attrs[Max(BlockingOf(attrs, p))].kind = "block"
  IN [s EXCEPT !.manual = @ \cup hit,
               !.egress = [p \in Ports |-> IF p \in hit THEN final(p) ELSE @[p]]]

(* What is left to do once the attributes were read: cps_lag_update_ports   *)
(* when a member attribute was there, even an empty one.                    *)
PortsOf(l, adding, attrs) ==
  IF HasMember(attrs)
  THEN [pc |-> "ports", lag |-> l, adding |-> adding,
        named |-> Named(attrs), todo |-> Named(attrs)]
  ELSE Idle

-----------------------------------------------------------------------------
Init ==
  /\ nas = [masters |-> {}, ports |-> [l \in Lags |-> {}],
            slave |-> [p \in Ports |-> None], registered |-> {},
            announced |-> {}, published |-> [l \in Lags |-> {}],
            npuLags |-> {}, npuMember |-> [p \in Ports |-> None],
            egress |-> [p \in Ports |-> FALSE], manual |-> {}, stripped |-> {}]
  /\ bonds = {} /\ allocated = {} /\ queue = <<>>
  /\ kmaster = [p \in Ports |-> None]
  /\ link \in [Ports -> BOOLEAN] /\ linkQueue = <<>>
  /\ cps = Idle
  /\ spent = [requests |-> 0, external |-> 0, link |-> 0, faults |-> 0]

(* A step that may lose one call, and the bounded inputs. *)
Failing(f) == f = "none" \/ (f \in FaultKinds /\ spent.faults < MaxFaults)
Faults(f) == spent.faults + (IF f = "none" THEN 0 ELSE 1)
SpendFault(f) == Failing(f) /\ spent' = [spent EXCEPT !.faults = Faults(f)]
SpendRequest(f) ==
  /\ cps = Idle /\ spent.requests < MaxRequests /\ Failing(f)
  /\ spent' = [spent EXCEPT !.requests = @ + 1, !.faults = Faults(f)]
SpendExternal ==
  /\ spent.external < MaxExternal
  /\ spent' = [spent EXCEPT !.external = @ + 1]

-----------------------------------------------------------------------------
(* The kernel: what each call does and the events it reports. *)

KernelCreate(l) ==
  /\ l \notin allocated
  /\ \A b \in bonds : NameOf[b] # NameOf[l]
  /\ bonds' = bonds \cup {l} /\ allocated' = allocated \cup {l}
  /\ queue' = Append(queue, Create(l, None))
  /\ UNCHANGED kmaster

(* Deleting a bond releases its slaves first, in some order. *)
KernelDelete(l) ==
  /\ l \in bonds /\ bonds' = bonds \ {l}
  /\ kmaster' = [p \in Ports |-> IF kmaster[p] = l THEN None ELSE kmaster[p]]
  /\ \E order \in SetToSeqs({p \in Ports : kmaster[p] = l}) :
       queue' = queue \o [i \in DOMAIN order |-> Delete(l, order[i])]
                      \o <<Delete(l, None)>>
  /\ UNCHANGED allocated

KernelRelease(p) ==
  /\ kmaster' = [kmaster EXCEPT ![p] = None]
  /\ queue' = IF kmaster[p] = None THEN queue
              ELSE Append(queue, Delete(kmaster[p], p))
  /\ UNCHANGED <<bonds, allocated>>

(* Enslaving a port of another bond moves it. *)
KernelEnslave(l, p) ==
  /\ l \in bonds /\ kmaster' = [kmaster EXCEPT ![p] = l]
  /\ queue' = CASE kmaster[p] = l    -> queue
                [] kmaster[p] = None -> Append(queue, Create(l, p))
                [] OTHER -> queue \o <<Delete(kmaster[p], p), Create(l, p)>>
  /\ UNCHANGED <<bonds, allocated>>

(* The kernel refuses: the bond is gone, or the port belongs to another. *)
KernelRefuses(l, p, f) ==
  f = "kernel" \/ l \notin bonds \/ kmaster[p] \notin {l, None}

-----------------------------------------------------------------------------
(* CPS requests. *)

(* nas_cps_create_lag for a name the registry resolves is a set. *)
CpsCreateKnown(l, attrs, f, skip) ==
  /\ SpendRequest(f) /\ l \in nas.registered
  /\ f = "npuBlock" \/ skip = {}
  /\ nas' = IF l \in nas.masters THEN ApplyBlocks(nas, l, attrs, skip) ELSE nas
  /\ cps' = IF l \in nas.masters THEN PortsOf(l, TRUE, attrs) ELSE Idle
  /\ UNCHANGED <<kernel, links>>

(* Otherwise the kernel, then the tables and the NPU, then the attributes. *)
CpsCreateNew(l, attrs, f) ==
  /\ SpendRequest(f) /\ f # "kernel"
  /\ \A r \in nas.registered : NameOf[r] # NameOf[l]
  /\ KernelCreate(l)
  /\ nas' = MasterAdd(nas, l, f)
  /\ cps' = IF MasterAddOk(nas, l, f) THEN PortsOf(l, TRUE, attrs) ELSE Idle
  /\ UNCHANGED links

(* nas_cps_set_lag of a SET or DELETE request. *)
CpsSet(l, attrs, f, skip) ==
  /\ SpendRequest(f) /\ l \in nas.masters
  /\ f = "npuBlock" \/ skip = {}
  /\ nas' = ApplyBlocks(nas, l, attrs, skip)
  /\ cps' = PortsOf(l, FALSE, attrs)
  /\ UNCHANGED <<kernel, links>>

(* cps_lag_update_ports: one port of the list.  The first error ends the    *)
(* request without publishing.                                              *)
CpsAddPort(p, f) ==
  /\ cps.pc = "ports" /\ cps.adding /\ p \in cps.todo \ nas.ports[cps.lag]
  /\ SpendFault(f)
  /\ \/ /\ KernelRefuses(cps.lag, p, f)
        /\ cps' = Idle /\ UNCHANGED <<nas, kernel>>
     \/ /\ f # "kernel" /\ KernelEnslave(cps.lag, p)
        /\ nas' = MemberAdd(nas, cps.lag, p, f)
        /\ cps' = IF MemberAddOk(nas, cps.lag, p, f)
                  THEN [cps EXCEPT !.todo = @ \ {p}] ELSE Idle
  /\ UNCHANGED links

(* Mutant of CpsDeletePort: the port is not released in the kernel. *)
CpsDeletePortNoKernel(p, f) ==
  /\ cps.pc = "ports" /\ ~cps.adding /\ p \in cps.todo \cap nas.ports[cps.lag]
  /\ SpendFault(f)
  /\ nas' = MemberDelete(nas, p, f)
  /\ cps' = IF MemberDeleteOk(nas, p, f) THEN [cps EXCEPT !.todo = @ \ {p}] ELSE Idle
  /\ UNCHANGED <<kernel, links>>

CpsDeletePort(p, f) ==
  /\ cps.pc = "ports" /\ ~cps.adding /\ p \in cps.todo \cap nas.ports[cps.lag]
  /\ SpendFault(f)
  /\ nas' = MemberDelete(nas, p, f)
  /\ IF MemberDeleteOk(nas, p, f) /\ f # "kernel"
     THEN KernelRelease(p) /\ cps' = [cps EXCEPT !.todo = @ \ {p}]
     ELSE cps' = Idle /\ UNCHANGED kernel
  /\ UNCHANGED links

(* Every listed port is as the request wants it: publish the port list. *)
CpsFinish(f) ==
  /\ cps.pc = "ports"
  /\ \A p \in cps.todo : (p \in nas.ports[cps.lag]) = cps.adding
  /\ SpendFault(f)
  /\ nas' = Publish(nas, cps.lag, f) /\ cps' = Idle
  /\ UNCHANGED <<kernel, links>>

(* nas_cps_delete_lag: the kernel first, then the NPU and the tables. *)
CpsDelete(l, f, refuse) ==
  /\ SpendRequest(f) /\ f # "kernel"
  /\ KernelDelete(l)
  /\ nas' = MasterDelete(nas, l, f, refuse)
  /\ UNCHANGED <<cps, links>>

-----------------------------------------------------------------------------
(* The event thread and the NDI callback thread: each waits for lag_lock.   *)

LagEvent(f, refuse) ==
  /\ cps = Idle /\ queue # <<>> /\ SpendFault(f)
  /\ nas' = Handle(nas, Head(queue), f, refuse) /\ queue' = Tail(queue)
  /\ UNCHANGED <<bonds, kmaster, allocated, links, cps>>

(* nas_lag_port_oper_state_cb *)
LinkEvent(f) ==
  /\ cps = Idle /\ linkQueue # <<>> /\ SpendFault(f)
  /\ LET c == Head(linkQueue)
     IN nas' = IF nas.slave[c.port] \in nas.masters
               THEN BlockByLink(nas, nas.slave[c.port], c.port, c.up, f)
               ELSE nas
  /\ linkQueue' = Tail(linkQueue)
  /\ UNCHANGED <<kernel, link, cps>>

(* The environment: a cable, and other programs at the kernel. *)
LinkChange(p) ==
  /\ spent.link < MaxLinkChanges /\ spent' = [spent EXCEPT !.link = @ + 1]
  /\ link' = [link EXCEPT ![p] = ~@]
  /\ linkQueue' = Append(linkQueue, [port |-> p, up |-> ~link[p]])
  /\ UNCHANGED <<nas, kernel, cps>>

OtherCreate(l) == SpendExternal /\ KernelCreate(l) /\ UNCHANGED <<nas, links, cps>>
OtherDelete(l) == SpendExternal /\ KernelDelete(l) /\ UNCHANGED <<nas, links, cps>>
OtherEnslave(l, p) ==
  /\ SpendExternal /\ kmaster[p] # l /\ KernelEnslave(l, p)
  /\ UNCHANGED <<nas, links, cps>>
OtherRelease(p) ==
  /\ SpendExternal /\ kmaster[p] # None /\ KernelRelease(p)
  /\ UNCHANGED <<nas, links, cps>>

-----------------------------------------------------------------------------
MaybeFault == FaultKinds \cup {"none"}

Request ==
  \E l \in Lags, f \in MaybeFault, attrs \in Requests, skip \in SUBSET Ports :
    \/ CpsCreateKnown(l, attrs, f, skip)
    \/ CpsCreateNew(l, attrs, f)
    \/ CpsSet(l, attrs, f, skip)
    \/ \E refuse \in BOOLEAN : CpsDelete(l, f, refuse)

Serve ==
  \E f \in MaybeFault :
    \/ \E p \in Ports : CpsAddPort(p, f) \/ CpsDeletePort(p, f)
    \/ CpsFinish(f)

EventThread == \E f \in MaybeFault, refuse \in BOOLEAN : LagEvent(f, refuse)
CallbackThread == \E f \in MaybeFault : LinkEvent(f)

Other ==
  \/ \E l \in Lags : OtherCreate(l) \/ OtherDelete(l)
  \/ \E l \in Lags, p \in Ports : OtherEnslave(l, p)
  \/ \E p \in Ports : OtherRelease(p) \/ LinkChange(p)

Next == Request \/ Serve \/ EventThread \/ CallbackThread \/ Other

Spec == Init /\ [][Next]_vars

(* The CPS thread finishes what it started, and the two callback threads    *)
(* keep taking lag_lock; clients, cables and other programs owe nothing.    *)
FairSpec ==
  /\ Spec
  /\ WF_vars(Serve) /\ WF_vars(EventThread) /\ WF_vars(CallbackThread)
-----------------------------------------------------------------------------
(* Properties. *)

(* Every variable keeps its type. *)
TypeOK ==
  /\ nas \in NasState
  /\ bonds \subseteq Lags /\ allocated \subseteq Lags
  /\ kmaster \in [Ports -> MaybeLag]
  /\ queue \in Seq(Event)
  /\ link \in [Ports -> BOOLEAN]
  /\ linkQueue \in Seq(LinkReport)
  /\ cps \in CpsState
  /\ spent \in [{"requests", "external", "link", "faults"} -> Nat]

(* Whatever calls failed, the daemon can still reach everything it put in   *)
(* the NPU: a LAG object has its master entry, and a LAG member object has  *)
(* its slave entry, in the port list of the same LAG, whose object exists.  *)
(* Otherwise no later request or event could remove it.                     *)
NoNpuOrphans ==
  /\ nas.npuLags \subseteq nas.masters
  /\ \A p \in Ports : nas.npuMember[p] # None =>
       /\ nas.slave[p] = nas.npuMember[p]
       /\ p \in nas.ports[nas.npuMember[p]]
       /\ nas.npuMember[p] \in nas.npuLags

(* The slave table, the port lists and the NPU hold the same relation for   *)
(* every LAG whose NPU object exists, and no trace of a LAG that has no     *)
(* master entry: insertions and removals always come in pairs.  An entry    *)
(* whose deregistration or publication failed half way through a deletion   *)
(* is stuck without its NPU object, and does not disturb the other LAGs.    *)
TablesAgree ==
  \A l \in Lags : l \in nas.npuLags \/ l \notin nas.masters =>
    \A p \in Ports : /\ p \in nas.ports[l] <=> nas.slave[p] = l
                     /\ p \in nas.ports[l] <=> nas.npuMember[p] = l

(* Nothing is on its way between the kernel and the tables. *)
Settled == cps = Idle /\ queue = <<>>

(* However requests, stale events and other programs interleaved, once the  *)
(* events are handled and no call failed the LAGs and members in the        *)
(* tables are those of the kernel.                                          *)
FollowsKernel ==
  Settled /\ spent.faults = 0 =>
    /\ nas.masters = bonds /\ nas.registered = bonds
    /\ nas.slave = kmaster

(* What was published last is what the tables hold: the VLAN manager        *)
(* programs the members of a LAG from these publications alone.  Every      *)
(* member is published; a port that left is not, unless an event of another *)
(* LAG took it out of the LAG (nas_int_ev_handlers.cpp:205-229).            *)
PublishedIsCurrent ==
  Settled /\ spent.faults = 0 =>
    /\ nas.announced = nas.masters
    /\ \A l \in nas.masters :
         /\ nas.ports[l] \subseteq nas.published[l]
         /\ l \notin nas.stripped => nas.published[l] = nas.ports[l]

(* A member whose block state was last set from its link state passes       *)
(* traffic only while its link is up: no order of link callbacks, member    *)
(* events and flaps leaves a stale block state behind.                      *)
BlockFollowsLink ==
  Settled /\ linkQueue = <<>> /\ spent.faults = 0 =>
    \A p \in Ports : nas.slave[p] # None /\ p \notin nas.manual =>
                       nas.egress[p] = ~link[p]

(* A member of a bond in the kernel becomes one in the NPU, or leaves it. *)
AttachReachesNpu ==
  \A l \in Lags, p \in Ports :
    kmaster[p] = l ~> (nas.npuMember[p] = l \/ kmaster[p] # l)

(* The LAGs that are not stuck, as the rest of the daemon sees them. *)
LiveMaster(p) == IF nas.slave[p] \in nas.npuLags THEN nas.slave[p] ELSE None
Table == INSTANCE LagTable WITH
           lags <- nas.npuLags, member <- [p \in Ports |-> LiveMaster(p)]
ImplementsTable == Table!Spec
=============================================================================
