------------------------------ MODULE NasVlan -------------------------------
(***************************************************************************)
(* The VLAN manager for physical ports: the bridge table of                *)
(* nas_int_bridge.cpp, the CPS handlers of nas_vlan_cps.cpp and the kernel *)
(* event handlers nas_bridge_ev_handler and nas_vlan_ev_handler, with the  *)
(* kernel and the NPU they program.                                        *)
(*                                                                         *)
(* A VLAN is a Linux bridge.  The bridge learns its VLAN id from the CPS   *)
(* request that creates it or, when another program created it, from its   *)
(* first tagged member; untagged members are stored until then.            *)
(*                                                                         *)
(* Both threads hold br_lock for a whole handler.  A kernel event is one   *)
(* step; a CPS request is one step per port, because other programs use    *)
(* the kernel meanwhile: cps.work # {} is br_lock held by the CPS thread.  *)
(* A port's interface in VLAN v is tagged, in VLAN 0 untagged.  An ifindex *)
(* is never reused, so each of Bridges is created once.                    *)
(***************************************************************************)
EXTENDS Naturals, Sequences, FiniteSets, SequencesExt

CONSTANTS
  Ports,         \* ifindexes of the physical ports
  Bridges,       \* ifindexes the kernel may give to bridges
  None,          \* "no bridge"
  Vids,          \* VLAN ids in use
  VidsOf,        \* those that clients and programs use on each bridge
  DefaultVlan,   \* SYSTEM_DEFAULT_VLAN, which always exists in the NPU
  Requests,      \* the port lists of CPS requests, see Request
  FaultKinds,    \* which calls may fail, see Calls
  MaxRequests,   \* bound on the CPS requests
  MaxExternal,   \* bound on what other programs do to the kernel
  MaxFaults      \* bound on the failing calls

Modes == {"tagged", "untagged"}
ModeOf(v) == IF v = 0 THEN "untagged" ELSE "tagged"

(* The calls of the VLAN manager that can fail.  "nodeReused" is the read   *)
(* of a freed list node in nas_cps_del_port_from_vlan (line 618) after      *)
(* another thread was given its memory: the kernel is told of some other    *)
(* interface.                                                               *)
Calls == {"kernel", "vlanCreate", "vlanDelete", "portAdd", "bulkAdd",
          "portDel", "register", "nodeReused"}

(* A request carries a list for each mode it has an attribute of. *)
Request == UNION {[D -> SUBSET Ports] : D \in SUBSET Modes}

ASSUME NasVlanAssumption ==
  /\ None \notin Bridges /\ IsFiniteSet(Ports)
  /\ IsFiniteSet(Vids) /\ Vids \subseteq Nat \ {0}
  /\ VidsOf \in [Bridges -> SUBSET Vids] /\ DefaultVlan \in Nat
  /\ Requests \subseteq Request /\ FaultKinds \subseteq Calls
  /\ {MaxRequests, MaxExternal, MaxFaults} \subseteq Nat

VARIABLES
  nas,       \* the bridge table, the registry, the events sent, the NPU
  alive,     \* FALSE once the daemon died
  kbridges,  \* bridges that exist in the kernel
  kmem,      \* the bridge of each port's interface in each VLAN
  used,      \* ifindexes the kernel has given to bridges
  queue,     \* kernel events the event thread has not handled
  cps,       \* the CPS request being served
  byCps,     \* history: bridges created by CPS requests
  spent      \* how much of each bound is used

vars == <<nas, alive, kbridges, kmem, used, queue, cps, byCps, spent>>
kernel == <<kbridges, kmem, used, queue>>

MaybeBridge == Bridges \cup {None}
MaybeVid == Vids \cup {0}

VlanState ==
  [known      : SUBSET Bridges,                     \* keys of bridge_list
   vid        : [Bridges -> MaybeVid],
   list       : [Bridges \X Modes -> SUBSET Ports], \* the two port lists
   registered : SUBSET Bridges,                     \* dn_hal_if_register
   seen       : [Bridges \X Modes -> SUBSET Ports], \* as subscribers know it
   npuVlans   : SUBSET (Vids \cup {DefaultVlan}),
   npu        : [Vids \X Modes -> SUBSET Ports],    \* members of each VLAN
   pvid       : [Ports -> MaybeVid]]                \* VLAN of untagged frames

Work == [mode : Modes, op : {"add", "del"}, port : Ports]
CpsState == [br : MaybeBridge, work : SUBSET Work]
Event == [op : {"newBridge", "delBridge", "addPort", "delPort"},
          br : Bridges, port : Ports \cup {None}, vid : MaybeVid]

Idle == [br |-> None, work |-> {}]
BridgeEvent(op, b) == [op |-> op, br |-> b, port |-> None, vid |-> 0]
PortEvent(op, b, p, v) == [op |-> op, br |-> b, port |-> p, vid |-> v]

-----------------------------------------------------------------------------
(* The NPU: it refuses to touch a VLAN it does not have.  f names the call  *)
(* that fails in this handler, if any.                                      *)

NpuAddOk(s, v, f) == v \in s.npuVlans \cap Vids /\ f # "portAdd"
NpuDelOk(s, v, f) == v \in s.npuVlans \cap Vids /\ f # "portDel"
NpuAdd(s, v, m, S) ==
  [s EXCEPT !.npu[<<v, m>>] = @ \cup S,
            !.pvid = [p \in Ports |-> IF m = "untagged" /\ p \in S THEN v ELSE @[p]]]
NpuDel(s, v, m, p) == [s EXCEPT !.npu[<<v, m>>] = @ \ {p}]

(* nas_process_member_addition_to_vlan, the first VLAN id of a bridge: the  *)
(* stored untagged members follow the first tagged one.  The id stays set   *)
(* whatever fails after it.                                                 *)
FirstTaggedOk(s, v, f) ==
  v \notin s.npuVlans /\ f \notin {"vlanCreate", "register", "portAdd"}

FirstTagged(s, b, v, p, f) ==
  LET stored == s.list[b, "untagged"]
      tagged == [s EXCEPT !.vid[b] = v, !.npuVlans = @ \cup {v},
                          !.registered = @ \cup {b}, !.npu[<<v, "tagged">>] = @ \cup {p}]
  IN IF v \in s.npuVlans \/ f = "vlanCreate" THEN [s EXCEPT !.vid[b] = v]
     ELSE CASE f = "register" -> [s EXCEPT !.vid[b] = v, !.npuVlans = @ \cup {v}]
       [] f = "portAdd"  -> [s EXCEPT !.vid[b] = v, !.npuVlans = @ \cup {v},
                                      !.registered = @ \cup {b}]
       [] f = "bulkAdd"  -> tagged
       [] OTHER          -> NpuAdd(tagged, v, "untagged", stored)

Insert(s, b, m, p) == [s EXCEPT !.list[<<b, m>>] = @ \cup {p}]

(* Mutants of MemberAdd: an untagged member takes the path of the first     *)
(* tagged one, or a later member is listed without being programmed.        *)
MemberAddAnyFirst(s, b, p, v, f) ==
  LET m == ModeOf(v)
      t == Insert(s, b, m, p)
  IN CASE p \in s.list[b, m] -> s
       [] p \notin s.list[b, m] /\ s.vid[b] = 0 -> FirstTagged(t, b, v, p, f)
       [] p \notin s.list[b, m] /\ s.vid[b] # 0 /\ NpuAddOk(s, s.vid[b], f) ->
            NpuAdd(t, s.vid[b], m, {p})
       [] OTHER -> t

MemberAddFirstOnly(s, b, p, v, f) ==
  LET m == ModeOf(v)
      t == Insert(s, b, m, p)
  IN CASE p \in s.list[b, m] -> s
       [] p \notin s.list[b, m] /\ s.vid[b] = 0 /\ v # 0 -> FirstTagged(t, b, v, p, f)
       [] OTHER -> t

(* nas_process_member_addition_to_vlan of a port; v = 0 when untagged. *)
MemberAdd(s, b, p, v, f) ==
  LET m == ModeOf(v)
      t == Insert(s, b, m, p)
  IN CASE p \in s.list[b, m] -> s
       [] p \notin s.list[b, m] /\ s.vid[b] = 0 /\ v # 0 -> FirstTagged(t, b, v, p, f)
       [] p \notin s.list[b, m] /\ s.vid[b] # 0 /\ NpuAddOk(s, s.vid[b], f) ->
            NpuAdd(t, s.vid[b], m, {p})
       [] OTHER -> t

MemberAddOk(s, b, p, v, f) ==
  \/ p \in s.list[b, ModeOf(v)]
  \/ s.vid[b] = 0 /\ (v = 0 \/ FirstTaggedOk(s, v, f))
  \/ s.vid[b] # 0 /\ NpuAddOk(s, s.vid[b], f)

Show(s, b, m, p) == [s EXCEPT !.seen[<<b, m>>] = @ \cup {p}]
Hide(s, b, m, p) == [s EXCEPT !.seen[<<b, m>>] = @ \ {p}]

(* nas_process_add_vlan_mem_from_os: the VLAN id is compared with the other *)
(* bridges' only when this bridge already has one.                          *)
Mismatch(s, b, v) ==
  /\ v # 0 /\ s.vid[b] # 0
  /\ v # s.vid[b] \/ \E o \in s.known \ {b} : s.vid[o] = v

OnAddPort(s, b, p, v, f) ==
  IF Mismatch(s, b, v) THEN s
  ELSE IF MemberAddOk(s, b, p, v, f)
       THEN Show(MemberAdd(s, b, p, v, f), b, ModeOf(v), p)
       ELSE MemberAdd(s, b, p, v, f)

(* Mutant of OnDelPort: the port leaves the list whatever the NPU says. *)
OnDelPortUnchecked(s, b, p, m, f) ==
  IF b \notin s.known THEN s
  ELSE LET t == IF NpuDelOk(s, s.vid[b], f) THEN NpuDel(s, s.vid[b], m, p) ELSE s
       IN Hide([t EXCEPT !.list[<<b, m>>] = @ \ {p}], b, m, p)

(* nas_process_del_vlan_mem_from_os: the port leaves the list only when the *)
(* NPU let it go.                                                           *)
OnDelPort(s, b, p, m, f) ==
  IF b \notin s.known \/ (p \in s.list[b, m] /\ ~NpuDelOk(s, s.vid[b], f)) THEN s
  ELSE IF p \in s.list[b, m]
       THEN Hide([NpuDel(s, s.vid[b], m, p) EXCEPT !.list[<<b, m>>] = @ \ {p}], b, m, p)
       ELSE Hide(s, b, m, p)

(* nas_create_insert_bridge_node; an ifindex is inserted again when a stale *)
(* event names it.                                                          *)
BridgeInsert(s, b) ==
  IF b \in s.known THEN s
  ELSE [s EXCEPT !.known = @ \cup {b}, !.vid[b] = 0]

(* nas_cleanup_bridge: the NPU VLAN goes with its members, the default VLAN *)
(* stays.  What fails is reported and the rest is done all the same.        *)
BridgeCleanup(s, b, f) ==
  LET v == s.vid[b]
      gone == v \in s.npuVlans \ {DefaultVlan} /\ f # "vlanDelete"
  IN [s EXCEPT
        !.known = @ \ {b}, !.vid[b] = 0,
        !.list = [x \in Bridges \X Modes |-> IF x[1] = b THEN {} ELSE @[x]],
        !.seen = [x \in Bridges \X Modes |->
                    IF x[1] = b /\ v # 0 THEN {} ELSE @[x]],
        !.registered = IF v = 0 \/ f = "register" THEN @ ELSE @ \ {b},
        !.npuVlans = IF gone THEN @ \ {v} ELSE @,
        !.npu = [x \in Vids \X Modes |-> IF gone /\ x[1] = v THEN {} ELSE @[x]]]

-----------------------------------------------------------------------------
Init ==
  /\ nas = [known |-> {}, vid |-> [b \in Bridges |-> 0],
            list |-> [x \in Bridges \X Modes |-> {}], registered |-> {},
            seen |-> [x \in Bridges \X Modes |-> {}],
            npuVlans |-> {DefaultVlan}, npu |-> [x \in Vids \X Modes |-> {}],
            pvid |-> [p \in Ports |-> 0]]
  /\ alive = TRUE
  /\ kbridges = {} /\ used = {} /\ queue = <<>>
  /\ kmem = [x \in Ports \X MaybeVid |-> None]
  /\ cps = Idle /\ byCps = {}
  /\ spent = [requests |-> 0, external |-> 0, faults |-> 0]

Failing(f) == f = "none" \/ (f \in FaultKinds /\ spent.faults < MaxFaults)
Faults(f) == spent.faults + (IF f = "none" THEN 0 ELSE 1)
SpendFault(f) == Failing(f) /\ spent' = [spent EXCEPT !.faults = Faults(f)]
SpendRequest(f) ==
  /\ alive /\ cps.work = {} /\ spent.requests < MaxRequests /\ Failing(f)
  /\ spent' = [spent EXCEPT !.requests = @ + 1, !.faults = Faults(f)]
SpendExternal ==
  /\ spent.external < MaxExternal
  /\ spent' = [spent EXCEPT !.external = @ + 1]

-----------------------------------------------------------------------------
(* The kernel: what each call does and the events it reports. *)

KernelCreate(b) ==
  /\ b \notin used /\ used' = used \cup {b} /\ kbridges' = kbridges \cup {b}
  /\ queue' = Append(queue, BridgeEvent("newBridge", b))
  /\ UNCHANGED kmem

(* The interfaces of S leave their bridges, in some order. *)
Leaving(S, order) ==
  [i \in 1..Cardinality(S) |->
     PortEvent("delPort", kmem[order[i]], order[i][1], order[i][2])]

(* A bridge that goes releases its members first; the VLAN interfaces also  *)
(* are deleted after it.                                                    *)
KernelDelete(b, gone, also) ==
  LET mine == {x \in Ports \X MaybeVid : gone /\ kmem[x] = b}
      others == {x \in also \ mine : kmem[x] # None}
  IN /\ kbridges' = IF gone THEN kbridges \ {b} ELSE kbridges
     /\ kmem' = [x \in Ports \X MaybeVid |->
                   IF x \in mine \cup others THEN None ELSE kmem[x]]
     /\ \E o1 \in SetToSeqs(mine), o2 \in SetToSeqs(others) :
          queue' = queue \o Leaving(mine, o1)
                         \o (IF gone THEN <<BridgeEvent("delBridge", b)>> ELSE <<>>)
                         \o Leaving(others, o2)
     /\ UNCHANGED used

(* A member of another bridge moves. *)
KernelJoin(b, p, v) ==
  LET old == kmem[p, v]
      joined == PortEvent("addPort", b, p, v)
  IN /\ b \in kbridges /\ kmem' = [kmem EXCEPT ![<<p, v>>] = b]
     /\ queue' = CASE old = b    -> queue
                   [] old = None -> Append(queue, joined)
                   [] OTHER -> queue \o <<PortEvent("delPort", old, p, v), joined>>
     /\ UNCHANGED <<kbridges, used>>

KernelLeave(p, v) ==
  /\ kmem' = [kmem EXCEPT ![<<p, v>>] = None]
  /\ queue' = IF kmem[p, v] = None THEN queue
              ELSE Append(queue, PortEvent("delPort", kmem[p, v], p, v))
  /\ UNCHANGED <<kbridges, used>>

-----------------------------------------------------------------------------
(* CPS requests. *)

(* nas_process_cps_ports of each list in the request, tagged ports first;   *)
(* within a list what is missing is deleted before what is new is added.    *)
WorkOf(s, b, want) ==
  {w \in Work : w.mode \in DOMAIN want /\
     \/ w.op = "del" /\ w.port \in s.list[b, w.mode] \ want[w.mode]
     \/ w.op = "add" /\ w.port \in want[w.mode] \ s.list[b, w.mode]}

Rank(w) == (IF w.mode = "tagged" THEN 0 ELSE 2) + (IF w.op = "del" THEN 0 ELSE 1)
Now == {w \in cps.work : \A o \in cps.work : Rank(w) <= Rank(o)}

(* nas_cps_create_vlan: a failure after the kernel leaves the bridge there  *)
(* and in the table, with its VLAN id.                                      *)
CpsCreate(b, v, want, f) ==
  /\ SpendRequest(f) /\ f # "kernel" /\ KernelCreate(b)
  /\ LET s == [BridgeInsert(nas, b) EXCEPT !.vid[b] = v]
         made == IF v = DefaultVlan THEN s ELSE [s EXCEPT !.npuVlans = @ \cup {v}]
         ok == v = DefaultVlan \/ (v \notin s.npuVlans /\ f # "vlanCreate")
     IN IF ok /\ f # "register"
        THEN /\ nas' = [made EXCEPT !.registered = @ \cup {b}]
             /\ cps' = [br |-> b, work |-> WorkOf(s, b, want)]
        ELSE nas' = (IF ok THEN made ELSE s) /\ UNCHANGED cps
  /\ byCps' = byCps \cup {b}
  /\ UNCHANGED alive

(* nas_cps_set_vlan *)
CpsSet(b, want) ==
  /\ SpendRequest("none") /\ b \in nas.known
  /\ cps' = [br |-> b, work |-> WorkOf(nas, b, want)]
  /\ UNCHANGED <<nas, alive, kernel, byCps>>

(* nas_cps_add_port_to_vlan: a port the kernel refused is inserted and      *)
(* programmed all the same, and its VID is set even if the NPU refused too. *)
(* The kernel has no VLAN interface without id.                             *)
CpsAddPort(w, f) ==
  LET b == cps.br
      v == nas.vid[b]
      kv == IF w.mode = "tagged" THEN v ELSE 0
      refused == f = "kernel" \/ b \notin kbridges \/ (w.mode = "tagged" /\ v = 0)
      s == Insert(nas, b, w.mode, w.port)
      t == IF w.mode = "untagged" THEN [s EXCEPT !.pvid[w.port] = v] ELSE s
  IN /\ alive /\ w \in Now /\ w.op = "add" /\ SpendFault(f)
     /\ IF refused THEN UNCHANGED kernel ELSE KernelJoin(b, w.port, kv)
     /\ nas' = Show(IF NpuAddOk(t, v, f) THEN NpuAdd(t, v, w.mode, {w.port}) ELSE t,
                    b, w.mode, w.port)
     /\ cps' = [cps EXCEPT !.work = @ \ {w}]
     /\ UNCHANGED <<alive, byCps>>

(* Mutant of CpsDelPort: the port is not released in the kernel. *)
CpsDelPortNoKernel(w, f) ==
  LET b == cps.br
      v == nas.vid[b]
      t == [NpuDel(nas, v, w.mode, w.port) EXCEPT !.list[<<b, w.mode>>] = @ \ {w.port}]
  IN /\ alive /\ w \in Now /\ w.op = "del" /\ SpendFault(f)
     /\ nas' = Hide(IF NpuDelOk(nas, v, f) THEN t ELSE nas, b, w.mode, w.port)
     /\ cps' = [cps EXCEPT !.work = @ \ {w}]
     /\ UNCHANGED <<alive, byCps, kernel>>

(* nas_cps_del_port_from_vlan: the kernel releases an untagged port from    *)
(* the bridge it is in, whichever that is.                                  *)
CpsDelPort(w, f) ==
  LET b == cps.br
      v == nas.vid[b]
      t == [NpuDel(nas, v, w.mode, w.port) EXCEPT !.list[<<b, w.mode>>] = @ \ {w.port}]
  IN /\ alive /\ w \in Now /\ w.op = "del" /\ SpendFault(f)
     /\ nas' = Hide(IF NpuDelOk(nas, v, f) THEN t ELSE nas, b, w.mode, w.port)
     /\ IF NpuDelOk(nas, v, f) /\ f \notin {"kernel", "nodeReused"}
        THEN KernelLeave(w.port, IF w.mode = "tagged" THEN v ELSE 0)
        ELSE UNCHANGED kernel
     /\ cps' = [cps EXCEPT !.work = @ \ {w}]
     /\ UNCHANGED <<alive, byCps>>

(* nas_cps_delete_vlan: a kernel failure is logged, the rest is done. *)
CpsDelete(b, f) ==
  /\ SpendRequest(f) /\ b \in nas.known
  /\ KernelDelete(b, b \in kbridges /\ f # "kernel",
                  IF nas.vid[b] = 0 THEN {}
                  ELSE {<<p, nas.vid[b]>> : p \in nas.list[b, "tagged"]})
  /\ nas' = BridgeCleanup(nas, b, f)
  /\ UNCHANGED <<alive, cps, byCps>>

-----------------------------------------------------------------------------
(* The event thread.  nas_process_add_vlan_mem_from_os releases br_lock for *)
(* a bridge it does not know and then goes on with a null bridge.           *)
Take(f) ==
  /\ alive /\ cps.work = {} /\ queue # <<>> /\ SpendFault(f)
  /\ queue' = Tail(queue)
  /\ UNCHANGED <<kbridges, kmem, used, cps, byCps>>

Fatal(s, e) == e.op = "addPort" /\ e.br \notin s.known

Handle(s, e, f) ==
  CASE e.op = "newBridge" -> BridgeInsert(s, e.br)
    [] e.op = "delBridge" -> IF e.br \in s.known THEN BridgeCleanup(s, e.br, f) ELSE s
    [] e.op = "addPort"   -> OnAddPort(s, e.br, e.port, e.vid, f)
    [] e.op = "delPort"   -> OnDelPort(s, e.br, e.port, ModeOf(e.vid), f)

VlanEvent(f) ==
  /\ Take(f) /\ ~Fatal(nas, Head(queue))
  /\ nas' = Handle(nas, Head(queue), f) /\ UNCHANGED alive

VlanEventCrash ==
  /\ Take("none") /\ Fatal(nas, Head(queue))
  /\ alive' = FALSE /\ UNCHANGED nas

(* Other programs at the kernel. *)
OtherCreate(b) ==
  SpendExternal /\ KernelCreate(b) /\ UNCHANGED <<nas, alive, cps, byCps>>
OtherDelete(b) ==
  /\ SpendExternal /\ b \in kbridges /\ KernelDelete(b, TRUE, {})
  /\ UNCHANGED <<nas, alive, cps, byCps>>
OtherJoin(b, p, v) ==
  /\ SpendExternal /\ kmem[p, v] # b /\ KernelJoin(b, p, v)
  /\ UNCHANGED <<nas, alive, cps, byCps>>
OtherLeave(p, v) ==
  /\ SpendExternal /\ kmem[p, v] # None /\ KernelLeave(p, v)
  /\ UNCHANGED <<nas, alive, cps, byCps>>

-----------------------------------------------------------------------------
MaybeFault == FaultKinds \cup {"none"}

CpsRequest ==
  \E b \in Bridges, want \in Requests, f \in MaybeFault :
    \/ \E v \in VidsOf[b] : CpsCreate(b, v, want, f)
    \/ CpsSet(b, want)
    \/ CpsDelete(b, f)

Serve == \E w \in cps.work, f \in MaybeFault : CpsAddPort(w, f) \/ CpsDelPort(w, f)

EventThread == VlanEventCrash \/ \E f \in MaybeFault : VlanEvent(f)

Other ==
  \/ \E b \in Bridges : OtherCreate(b) \/ OtherDelete(b)
  \/ \E b \in Bridges, p \in Ports : \E v \in VidsOf[b] \cup {0} : OtherJoin(b, p, v)
  \/ \E p \in Ports, v \in MaybeVid : OtherLeave(p, v)

Next == CpsRequest \/ Serve \/ EventThread \/ Other

Spec == Init /\ [][Next]_vars
-----------------------------------------------------------------------------
(* Properties. *)

(* Every variable keeps its type. *)
TypeOK ==
  /\ nas \in VlanState /\ alive \in BOOLEAN
  /\ kbridges \subseteq Bridges /\ used \subseteq Bridges
  /\ kmem \in [Ports \X MaybeVid -> MaybeBridge]
  /\ queue \in Seq(Event) /\ cps \in CpsState /\ byCps \subseteq Bridges
  /\ spent \in [{"requests", "external", "faults"} -> Nat]

(* Whatever fails but the deletion of an NPU VLAN itself, the NPU holds     *)
(* nothing the bridge table cannot account for: a VLAN belongs to a bridge  *)
(* in the table, and its members are in the lists of bridges with that id.  *)
(* Members of the default VLAN outlive its bridge.                          *)
NoNpuStray ==
  /\ \A v \in nas.npuVlans \ {DefaultVlan} : \E b \in nas.known : nas.vid[b] = v
  /\ \A v \in Vids \ {DefaultVlan}, m \in Modes : \A p \in nas.npu[v, m] :
       /\ v \in nas.npuVlans
       /\ \E b \in nas.known : nas.vid[b] = v /\ p \in nas.list[b, m]

Settled == alive /\ cps.work = {} /\ queue = <<>>
Quiet == Settled /\ spent.faults = 0

(* Once the events are handled and no call failed, the table has the        *)
(* bridges of the kernel and knows all their members; it has no others in   *)
(* the bridges that CPS created.                                            *)
FollowsKernel ==
  Quiet =>
    /\ nas.known = kbridges
    /\ \A b \in nas.known, p \in Ports :
         /\ kmem[p, 0] = b => p \in nas.list[b, "untagged"]
         /\ \A v \in Vids : kmem[p, v] = b => p \in nas.list[b, "tagged"]
         /\ b \in byCps => /\ p \in nas.list[b, "untagged"] => kmem[p, 0] = b
                           /\ p \in nas.list[b, "tagged"] => kmem[p, nas.vid[b]] = b

(* Then also the NPU forwards for exactly those members, and subscribers    *)
(* were told of exactly those, in every bridge that CPS created.            *)
NpuFollowsLists ==
  Quiet => \A b \in nas.known \cap byCps, m \in Modes :
    /\ nas.vid[b] \in nas.npuVlans
    /\ nas.list[b, m] \subseteq nas.npu[nas.vid[b], m]
    /\ nas.vid[b] # DefaultVlan => nas.npu[nas.vid[b], m] = nas.list[b, m]
    /\ nas.seen[b, m] = nas.list[b, m]

(* A kernel event for a bridge that is gone is an error to report, as it is *)
(* in nas_process_del_vlan_mem_from_os, and the daemon goes on.             *)
UnknownBridgeIsReported == alive
=============================================================================
