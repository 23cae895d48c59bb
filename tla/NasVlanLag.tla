----------------------------- MODULE NasVlanLag ------------------------------
(***************************************************************************)
(* LAGs as members of VLANs: lag_list of nas_vlan_lag_api.cpp, between the *)
(* LAG manager (NasLag in short: its tables and what it publishes of them) *)
(* and the VLAN manager whose CPS handlers and kernel event handlers use   *)
(* it.                                                                     *)
(*                                                                         *)
(* lag_list is a copy of the LAG table: nas_vlan_lag_event_func_cb feeds   *)
(* it from the publications, on the event thread and WITHOUT br_lock.  It  *)
(* also has the ids of the VLANs each LAG is in, so that a port that joins *)
(* or leaves a LAG joins or leaves its VLANs in the NPU.  Not every change *)
(* of the table is published: a port may leave one LAG by the event of     *)
(* another, and a set request may fail after its first ports.  That the    *)
(* creation or the deletion of a LAG fails half way is left to NasLag.     *)
(*                                                                         *)
(* A kernel event is one step.  A CPS request, which holds br_lock, is one *)
(* step per member port it programs, because the kernel and the LAG events *)
(* go on meanwhile: a LAG event that changes the members it is walking     *)
(* makes cps.raced true, and what the walk does from then on is undefined. *)
(* A LAG's interface in VLAN v is tagged, in VLAN 0 untagged.  An ifindex  *)
(* is never reused.                                                        *)
(***************************************************************************)
EXTENDS Naturals, Sequences, FiniteSets, SequencesExt

CONSTANTS
  Ports,         \* ifindexes of the physical ports that join LAGs
  Lags,          \* ifindexes the kernel may give to bonds
  Phys,          \* a physical port that is itself a tagged VLAN member
  Bridges,       \* ifindexes the kernel may give to bridges
  None,          \* "no LAG", "no bridge", "no work"
  Vids,          \* VLAN ids in use
  VidsOf,        \* those that clients and programs use on each bridge
  DefaultVlan,   \* SYSTEM_DEFAULT_VLAN, which always exists in the NPU
  Requests,      \* the LAG lists of CPS requests, see Request
  FaultKinds,    \* which calls may fail, see Calls
  MaxTable,      \* bound on the member events and set requests of LAGs
  MaxRequests,   \* bound on the CPS requests
  MaxExternal,   \* bound on what other programs do to the bridges
  MaxFaults      \* bound on the failing calls

Modes == {"tagged", "untagged"}
ModeOf(v) == IF v = 0 THEN "untagged" ELSE "tagged"
Members == Lags \cup {Phys}

(* The calls that can fail; "npuPort" is the lookup of a new member's NPU   *)
(* port, after which the rest of the members are not looked at.             *)
Calls == {"kernel", "vlanCreate", "vlanDelete", "portAdd", "portDel",
          "register", "npuPort"}

(* A request carries a list for each mode it has an attribute of. *)
Request == UNION {[D -> SUBSET Lags] : D \in SUBSET Modes}

ASSUME NasVlanLagAssumption ==
  /\ None \notin Bridges \cup Lags /\ Phys \notin Lags
  /\ IsFiniteSet(Lags)
  /\ IsFiniteSet(Vids) /\ Vids \subseteq Nat \ {0}
  /\ VidsOf \in [Bridges -> SUBSET Vids] /\ DefaultVlan \in Nat
  /\ Requests \subseteq Request /\ FaultKinds \subseteq Calls
  /\ {MaxTable, MaxRequests, MaxExternal, MaxFaults} \subseteq Nat

VARIABLES
  lags, member,  \* the LAG manager's table
  pubs,          \* its publications that lag_list has not seen
  nas,           \* lag_list, the bridge table and the NPU
  alive,         \* FALSE once the daemon died
  kbonds,        \* bonds that exist in the kernel
  kbridges,      \* bridges that exist in the kernel
  kmem,          \* the bridge of each member's interface in each VLAN
  used,          \* ifindexes the kernel has given away
  queue,         \* kernel events the event thread has not handled
  cps,           \* the CPS request being served
  history,       \* what went wrong for a named reason, see History
  spent          \* how much of each bound is used

vars == <<lags, member, pubs, nas, alive, kbonds, kbridges, kmem, used, queue,
          cps, history, spent>>
table == <<lags, member>>
kernel == <<kbridges, kmem, used, queue>>

MaybeBridge == Bridges \cup {None}
MaybeVid == Vids \cup {0}

(* What the publications up to some point say, the last one of each LAG. *)
View == [lags : SUBSET Lags, mem : [Lags -> SUBSET Ports]]

(* The field view is history: what was published up to this publication. *)
Publication == [op : {"create", "set", "delete"}, lag : Lags,
                ports : SUBSET Ports, view : View]

VlanState ==
  [entries  : SUBSET Lags,                       \* keys of lag_list
   mem      : [Lags -> SUBSET Ports],            \* lag_mem
   vlans    : [Lags \X Modes -> SUBSET MaybeVid],\* tagged_list, untagged_list
   known    : SUBSET Bridges,                    \* keys of bridge_list
   vid      : [Bridges -> MaybeVid],
   stored   : [Bridges -> SUBSET Lags],          \* untagged_lag
   npuVlans : SUBSET (Vids \cup {DefaultVlan}),
   npu      : [Vids \X Modes -> SUBSET Ports]]   \* the LAGs' ports in each VLAN

Work == [mode : Modes, op : {"add", "del"}, lag : Lags]

(* item is what the request works on, left the members it has to visit,     *)
(* touched those that LAG events changed under it.                          *)
CpsState == [br : MaybeBridge, work : SUBSET Work, item : Work \cup {None},
             left : SUBSET Ports, raced : BOOLEAN, touched : SUBSET Ports]

Event == [op : {"newBridge", "delBridge", "addPort", "delPort"},
          br : Bridges, port : Members \cup {None}, vid : MaybeVid]

(* torn: memberships a walk may have missed or overdone after a LAG event   *)
(* changed the LAG under it.  orphaned: those of a LAG deleted with them.   *)
(* stale: VLAN ids a LAG kept when the VLAN was deleted.  lost: kernel      *)
(* events that found no entry of the LAG, and all LAGs of bridges that had  *)
(* the same VLAN id.  misread: events that took or left out the id of the   *)
(* wrong interface, see MisreadBy.  published: what has been published.     *)
(* unpublished: LAGs whose members changed since their list was published.  *)
(* silent: ports that left a LAG when its list was not published.  doubled: *)
(* ports that lag_list had in two LAGs at once.                             *)
History == [torn : SUBSET (Vids \X Modes \X Ports),
            orphaned : SUBSET (Vids \X Modes \X Ports),
            stale : SUBSET (Lags \X Modes \X MaybeVid),
            lost : SUBSET (Bridges \X Lags),
            misread : SUBSET (Bridges \X Lags),
            published : View, unpublished : SUBSET Lags,
            silent : SUBSET Ports, doubled : SUBSET Ports]

Idle == [br |-> None, work |-> {}, item |-> None, left |-> {},
         raced |-> FALSE, touched |-> {}]
BridgeEvent(op, b) == [op |-> op, br |-> b, port |-> None, vid |-> 0]
PortEvent(op, b, p, v) == [op |-> op, br |-> b, port |-> p, vid |-> v]

MembersOf(l) == {p \in Ports : member[p] = l}
-----------------------------------------------------------------------------
(* lag_list.  f names the calls that fail in this handler, if any. *)

EntryCreate(s, l) ==
  IF l \in s.entries THEN s
  ELSE [s EXCEPT !.entries = @ \cup {l}, !.mem[l] = {},
                 !.vlans = [x \in Lags \X Modes |-> IF x[1] = l THEN {} ELSE @[x]]]

EntryDelete(s, l) ==
  [s EXCEPT !.entries = @ \ {l}, !.mem[l] = {},
            !.vlans = [x \in Lags \X Modes |-> IF x[1] = l THEN {} ELSE @[x]]]

(* nas_add_or_del_port_to_vlan: the NPU refuses a VLAN it does not have. *)
Has(s, v) == v \in s.npuVlans \cap Vids
NpuAdd(s, v, m, S, f) ==
  IF Has(s, v) /\ f # "portAdd" THEN [s EXCEPT !.npu[<<v, m>>] = @ \cup S] ELSE s
NpuDel(s, v, m, S, f) ==
  IF Has(s, v) /\ f # "portDel" THEN [s EXCEPT !.npu[<<v, m>>] = @ \ S] ELSE s

Departed(s, l, ports) == s.mem[l] \ ports
Arrived(s, l, ports) == ports \ s.mem[l]

(* Mutant of MemberUpdate: a port that left keeps its VLANs in the NPU. *)
MemberUpdateAddOnly(s, l, ports, added, f) ==
  IF l \notin s.entries THEN s
  ELSE [s EXCEPT !.mem[l] = (@ \cap ports) \cup added,
         !.npu = [x \in Vids \X Modes |->
                    IF x[1] \in s.vlans[<<l, x[2]>>] /\ Has(s, x[1])
                    THEN @[x] \cup (IF f = "portAdd" THEN {} ELSE added)
                    ELSE @[x]]]

(* Mutant of MemberUpdate: the loop over untagged_list is missing. *)
MemberUpdateTagged(s, l, ports, added, f) ==
  IF l \notin s.entries THEN s
  ELSE [s EXCEPT !.mem[l] = (@ \cap ports) \cup added,
         !.npu = [x \in Vids \X Modes |->
                    IF x[2] = "tagged" /\ x[1] \in s.vlans[<<l, x[2]>>] /\ Has(s, x[1])
                    THEN (@[x] \ (IF f = "portDel" THEN {} ELSE Departed(s, l, ports)))
                           \cup (IF f = "portAdd" THEN {} ELSE added)
                    ELSE @[x]]]

(* Mutant of MemberUpdate: what is missing in the list is not erased. *)
MemberUpdateKeeps(s, l, ports, added, f) ==
  IF l \notin s.entries THEN s
  ELSE [s EXCEPT !.mem[l] = @ \cup added,
         !.npu = [x \in Vids \X Modes |->
                    IF x[1] \in s.vlans[<<l, x[2]>>] /\ Has(s, x[1])
                    THEN @[x] \cup (IF f = "portAdd" THEN {} ELSE added)
                    ELSE @[x]]]

(* Mutant of MemberUpdate: a new port joins the VLANs of every LAG. *)
MemberUpdateEverywhere(s, l, ports, added, f) ==
  LET in(m) == UNION {s.vlans[<<k, m>>] : k \in s.entries}
  IN IF l \notin s.entries THEN s
     ELSE [s EXCEPT !.mem[l] = (@ \cap ports) \cup added,
            !.npu = [x \in Vids \X Modes |->
                       IF x[1] \in in(x[2]) /\ Has(s, x[1])
                       THEN (@[x] \ (IF f = "portDel" THEN {} ELSE Departed(s, l, ports)))
                              \cup (IF f = "portAdd" THEN {} ELSE added)
                       ELSE @[x]]]

(* nas_process_lag_mem_updates_for_vlan: what is missing in the list leaves *)
(* the LAG's VLANs, then the ports of added join them.  What the NPU        *)
(* refuses is logged.                                                       *)
MemberUpdate(s, l, ports, added, f) ==
  IF l \notin s.entries THEN s
  ELSE [s EXCEPT !.mem[l] = (@ \cap ports) \cup added,
         !.npu = [x \in Vids \X Modes |->
                    IF x[1] \in s.vlans[<<l, x[2]>>] /\ Has(s, x[1])
                    THEN (@[x] \ (IF f = "portDel" THEN {} ELSE Departed(s, l, ports)))
                           \cup (IF f = "portAdd" THEN {} ELSE added)
                    ELSE @[x]]]

(* nas_handle_lag_update_for_vlan for a kernel event. *)
AddLag(s, l, v, m, f) ==
  IF l \notin s.entries \/ v \in s.vlans[<<l, m>>] THEN s
  ELSE [NpuAdd(s, v, m, s.mem[l], f) EXCEPT !.vlans[<<l, m>>] = @ \cup {v}]

(* nas_base_handle_lag_del: the mode is the list that has the id, tagged    *)
(* first, not the mode of the event.                                        *)
DelMode(s, l, v) == IF v \in s.vlans[<<l, "tagged">>] THEN "tagged" ELSE "untagged"

DelLag(s, l, v, f) ==
  LET m == DelMode(s, l, v)
  IN IF l \notin s.entries \/ v \notin s.vlans[<<l, m>>] THEN s
     ELSE [NpuDel(s, v, m, s.mem[l], f) EXCEPT !.vlans[<<l, m>>] = @ \ {v}]
-----------------------------------------------------------------------------
(* The bridge table. *)

BridgeInsert(s, b) ==
  IF b \in s.known THEN s
  ELSE [s EXCEPT !.known = @ \cup {b}, !.vid[b] = 0]

(* nas_cleanup_bridge: the VLAN goes from the NPU, the default VLAN stays;  *)
(* the lists of the LAGs are not told.                                      *)
BridgeCleanup(s, b, f) ==
  LET v == s.vid[b]
      gone == v \in s.npuVlans \ {DefaultVlan} /\ f # "vlanDelete"
  IN [s EXCEPT
        !.known = @ \ {b}, !.vid[b] = 0, !.stored[b] = {},
        !.npuVlans = IF gone THEN @ \ {v} ELSE @,
        !.npu = [x \in Vids \X Modes |-> IF gone /\ x[1] = v THEN {} ELSE @[x]]]

StaleAfter(s, b) ==
  {x \in Lags \X Modes \X {s.vid[b]} : x[3] \in s.vlans[<<x[1], x[2]>>]}

(* nas_add_all_ut_lags_to_vlan: no LAG's failure keeps the others out. *)
AddStored(s, b, f) ==
  LET v == s.vid[b]
      new == {l \in s.stored[b] \cap s.entries : v \notin s.vlans[<<l, "untagged">>]}
  IN [NpuAdd(s, v, "untagged", UNION {s.mem[l] : l \in new}, f) EXCEPT
        !.vlans = [x \in Lags \X Modes |->
                     IF x[1] \in new /\ x[2] = "untagged" THEN @[x] \cup {v} ELSE @[x]]]

(* nas_process_member_addition_to_vlan, the first VLAN id of a bridge: the  *)
(* id stays whatever fails, the LAG and the stored LAGs follow only when    *)
(* the VLAN was created and registered.                                     *)
FirstTagged(s, b, v, p, f) ==
  LET named == [s EXCEPT !.vid[b] = v]
      made == [named EXCEPT !.npuVlans = @ \cup {v}]
  IN CASE v \in s.npuVlans \/ f = "vlanCreate" -> named
       [] v \notin s.npuVlans /\ (f = "register" \/ (p = Phys /\ f = "portAdd")) -> made
       [] OTHER -> AddStored(IF p = Phys THEN made ELSE AddLag(made, p, v, "tagged", f), b, f)

(* Mutant of MemberAdd: an untagged member takes the path of the first      *)
(* tagged one.                                                              *)
MemberAddAnyFirst(s, b, p, v, f) ==
  IF s.vid[b] = 0 THEN FirstTagged(s, b, v, p, f)
  ELSE IF p = Phys THEN s ELSE AddLag(s, p, s.vid[b], ModeOf(v), f)

(* nas_process_member_addition_to_vlan, v = 0 when untagged.  The member    *)
(* lists of physical ports are those of NasVlan.                            *)
MemberAdd(s, b, p, v, f) ==
  CASE s.vid[b] = 0 /\ v # 0 -> FirstTagged(s, b, v, p, f)
    [] s.vid[b] = 0 /\ v = 0 /\ p # Phys -> [s EXCEPT !.stored[b] = @ \cup {p}]
    [] s.vid[b] # 0 /\ p # Phys -> AddLag(s, p, s.vid[b], ModeOf(v), f)
    [] OTHER -> s

(* nas_process_add_vlan_mem_from_os; an interface that is not registered is *)
(* skipped.                                                                 *)
Mismatch(s, b, v) ==
  /\ v # 0 /\ s.vid[b] # 0
  /\ v # s.vid[b] \/ \E o \in s.known \ {b} : s.vid[o] = v

OnAddPort(s, b, p, v, f) ==
  IF Mismatch(s, b, v) \/ p \notin lags \cup {Phys} THEN s ELSE MemberAdd(s, b, p, v, f)

(* Mutant of OnDelPort: a stored LAG stays stored when it leaves. *)
OnDelPortKeepsStored(s, b, p, f) ==
  IF b \notin s.known \/ p \notin lags THEN s ELSE DelLag(s, p, s.vid[b], f)

(* nas_process_del_vlan_mem_from_os *)
OnDelPort(s, b, p, f) ==
  IF b \notin s.known \/ p \notin lags THEN s
  ELSE [DelLag(s, p, s.vid[b], f) EXCEPT !.stored[b] = @ \ {p}]
-----------------------------------------------------------------------------
Init ==
  /\ lags = {} /\ member = [p \in Ports |-> None]
  /\ pubs = <<>>
  /\ nas = [entries |-> {}, mem |-> [l \in Lags |-> {}],
            vlans |-> [x \in Lags \X Modes |-> {}], known |-> {},
            vid |-> [b \in Bridges |-> 0], stored |-> [b \in Bridges |-> {}],
            npuVlans |-> {DefaultVlan}, npu |-> [x \in Vids \X Modes |-> {}]]
  /\ alive = TRUE
  /\ kbonds = {} /\ kbridges = {} /\ used = {} /\ queue = <<>>
  /\ kmem = [x \in Members \X MaybeVid |-> None]
  /\ cps = Idle
  /\ history = [torn |-> {}, orphaned |-> {}, stale |-> {}, lost |-> {},
                misread |-> {},
                published |-> [lags |-> {}, mem |-> [l \in Lags |-> {}]],
                unpublished |-> {}, silent |-> {}, doubled |-> {}]
  /\ spent = [table |-> 0, requests |-> 0, external |-> 0, faults |-> 0]

Failing(f) == f = "none" \/ (f \in FaultKinds /\ spent.faults < MaxFaults)
Faults(f) == spent.faults + (IF f = "none" THEN 0 ELSE 1)
SpendFault(f) == Failing(f) /\ spent' = [spent EXCEPT !.faults = Faults(f)]
SpendTable ==
  /\ spent.table < MaxTable /\ spent' = [spent EXCEPT !.table = @ + 1]
SpendRequest(f) ==
  /\ alive /\ cps.br = None /\ spent.requests < MaxRequests /\ Failing(f)
  /\ spent' = [spent EXCEPT !.requests = @ + 1, !.faults = Faults(f)]
SpendExternal ==
  /\ spent.external < MaxExternal
  /\ spent' = [spent EXCEPT !.external = @ + 1]

-----------------------------------------------------------------------------
(* The LAG manager. *)

(* What has been published once this is. *)
Saying(op, l, S) ==
  [lags |-> CASE op = "create" -> history.published.lags \cup {l}
              [] op = "delete" -> history.published.lags \ {l}
              [] OTHER -> history.published.lags,
   mem |-> [history.published.mem EXCEPT ![l] = S]]

(* How the members change, and the LAG whose list is published, or None. *)
Changed(told) ==
  [history EXCEPT
     !.unpublished = (@ \cup {l \in Lags : MembersOf(l)' # MembersOf(l)}) \ {told},
     !.silent = @ \cup {p \in Ports : member[p] \notin {None, told, member'[p]}}]

(* Mutant of Publish: a member change is published with what the list was. *)
PublishOld(op, l) ==
  LET S == IF op = "set" THEN MembersOf(l) ELSE {}
  IN /\ pubs' = Append(pubs, [op |-> op, lag |-> l, ports |-> S, view |-> Saying(op, l, S)])
     /\ history' = [Changed(l) EXCEPT !.published = Saying(op, l, S)]

(* lag_object_publish: a set has the whole list. *)
Publish(op, l) ==
  LET S == IF op = "set" THEN MembersOf(l)' ELSE {}
  IN /\ pubs' = Append(pubs, [op |-> op, lag |-> l, ports |-> S, view |-> Saying(op, l, S)])
     /\ history' = [Changed(l) EXCEPT !.published = Saying(op, l, S)]

Withhold == UNCHANGED pubs /\ history' = Changed(None)

LagAdd(l) ==
  /\ alive /\ l \notin used /\ used' = used \cup {l} /\ kbonds' = kbonds \cup {l}
  /\ lags' = lags \cup {l} /\ UNCHANGED member /\ Publish("create", l)
  /\ UNCHANGED <<nas, alive, kbridges, kmem, queue, cps, spent>>

(* nas_lag_ev_handler for a new member; one of another LAG the NPU refuses. *)
LagJoin(l, p) ==
  /\ alive /\ SpendTable /\ l \in lags /\ member[p] = None
  /\ member' = [member EXCEPT ![p] = l] /\ Publish("set", l)
  /\ UNCHANGED <<lags, nas, alive, kbonds, kernel, cps>>

(* nas_lag_ev_handler for a member that left l: it is taken out of the LAG  *)
(* the slave table names, and l is published.                               *)
LagLeave(l, p) ==
  /\ alive /\ SpendTable /\ member[p] # None
  /\ member' = [member EXCEPT ![p] = None]
  /\ IF l \in lags THEN Publish("set", l) ELSE Withhold
  /\ UNCHANGED <<lags, nas, alive, kbonds, kernel, cps>>

(* nas_cps_set_lag: the ports of S join or leave l, and the list is         *)
(* published at the end unless a port after them failed.  A request that    *)
(* has nothing to do publishes too.                                         *)
LagRequest(l, S, adding, ok) ==
  /\ alive /\ SpendTable /\ l \in lags
  /\ \A p \in S : member[p] = IF adding THEN None ELSE l
  /\ member' = [p \in Ports |-> IF p \notin S THEN member[p] ELSE IF adding THEN l ELSE None]
  /\ IF ok THEN Publish("set", l) ELSE Withhold
  /\ UNCHANGED <<lags, nas, alive, kbonds, kernel, cps>>

(* The bond is gone already; its members may still be in the table. *)
LagRemove(l) ==
  /\ alive /\ l \in lags \ kbonds /\ lags' = lags \ {l}
  /\ member' = [p \in Ports |-> IF member[p] = l THEN None ELSE member[p]]
  /\ Publish("delete", l)
  /\ UNCHANGED <<nas, alive, kbonds, kernel, cps, spent>>

-----------------------------------------------------------------------------
(* The kernel: what each call does and the events it reports. *)

KernelCreate(b) ==
  /\ b \notin used /\ used' = used \cup {b} /\ kbridges' = kbridges \cup {b}
  /\ queue' = Append(queue, BridgeEvent("newBridge", b))
  /\ UNCHANGED kmem

(* The interfaces of S leave their bridges, in some order. *)
Release(S, last) ==
  /\ kmem' = [x \in Members \X MaybeVid |-> IF x \in S THEN None ELSE kmem[x]]
  /\ \E order \in SetToSeqs(S) :
       queue' = queue \o [i \in 1..Cardinality(S) |->
                            PortEvent("delPort", kmem[order[i]], order[i][1], order[i][2])]
                      \o last
  /\ UNCHANGED used

KernelDelete(b) ==
  /\ kbridges' = kbridges \ {b}
  /\ Release({x \in Members \X MaybeVid : kmem[x] = b}, <<BridgeEvent("delBridge", b)>>)

(* A member of another bridge moves. *)
KernelJoin(b, p, v) ==
  LET old == kmem[<<p, v>>]
      joined == PortEvent("addPort", b, p, v)
  IN /\ kmem' = [kmem EXCEPT ![<<p, v>>] = b]
     /\ queue' = CASE old = b    -> queue
                   [] old = None -> Append(queue, joined)
                   [] OTHER -> queue \o <<PortEvent("delPort", old, p, v), joined>>
     /\ UNCHANGED <<kbridges, used>>

KernelLeave(p, v) ==
  /\ kmem' = [kmem EXCEPT ![<<p, v>>] = None]
  /\ queue' = IF kmem[<<p, v>>] = None THEN queue
              ELSE Append(queue, PortEvent("delPort", kmem[<<p, v>>], p, v))
  /\ UNCHANGED <<kbridges, used>>

-----------------------------------------------------------------------------
(* CPS requests. *)

(* nas_process_cps_ports of each list in the request, tagged first; within  *)
(* a list nas_handle_lag_index_in_cps_set takes the missing LAGs out before *)
(* the others are added.                                                    *)
WorkOf(s, b, want) ==
  {w \in Work : w.mode \in DOMAIN want /\
     \/ w.op = "del" /\ w.lag \in s.entries \ want[w.mode] /\ s.vid[b] \in s.vlans[<<w.lag, w.mode>>]
     \/ w.op = "add" /\ w.lag \in want[w.mode]}

Rank(w) == (IF w.mode = "tagged" THEN 0 ELSE 2) + (IF w.op = "del" THEN 0 ELSE 1)
Now == {w \in cps.work : \A o \in cps.work : Rank(w) <= Rank(o)}
Serving(b, work) == IF work = {} THEN Idle ELSE [Idle EXCEPT !.br = b, !.work = work]

(* Bridges that have one VLAN id confuse all that is done for either. *)
Sharing(s) ==
  {b \in s.known : \E o \in s.known \ {b} : s.vid[b] # 0 /\ s.vid[o] = s.vid[b]} \X Lags

(* nas_cps_create_vlan *)
CpsCreate(b, v, want, f) ==
  /\ SpendRequest(f) /\ f # "kernel" /\ KernelCreate(b)
  /\ LET s == [BridgeInsert(nas, b) EXCEPT !.vid[b] = v]
         made == IF v = DefaultVlan THEN s ELSE [s EXCEPT !.npuVlans = @ \cup {v}]
         ok == v = DefaultVlan \/ (v \notin s.npuVlans /\ f # "vlanCreate")
     IN IF ok
        THEN /\ nas' = made
             /\ cps' = IF f = "register" THEN Idle ELSE Serving(b, WorkOf(made, b, want))
        ELSE nas' = s /\ UNCHANGED cps
  /\ history' = [history EXCEPT !.lost = @ \cup Sharing(nas')]
  /\ UNCHANGED <<table, pubs, alive, kbonds>>

(* nas_cps_set_vlan *)
CpsSet(b, want) ==
  /\ SpendRequest("none") /\ b \in nas.known
  /\ cps' = Serving(b, WorkOf(nas, b, want))
  /\ UNCHANGED <<table, pubs, nas, alive, kbonds, kernel, history>>

(* nas_cps_delete_vlan: a kernel failure is logged, the rest is done. *)
CpsDelete(b, f) ==
  /\ SpendRequest(f) /\ b \in nas.known
  /\ IF b \in kbridges /\ f # "kernel" THEN KernelDelete(b) ELSE UNCHANGED kernel
  /\ nas' = BridgeCleanup(nas, b, f)
  /\ history' = [history EXCEPT !.stale = @ \cup StaleAfter(nas, b)]
  /\ UNCHANGED <<table, pubs, alive, kbonds, cps>>

(* nas_handle_lag_update_for_vlan for a request, up to the walk.  A LAG     *)
(* that is unknown, that has the id already or that the kernel refuses is   *)
(* left as it is.                                                           *)
KernelVid(w) == IF w.mode = "tagged" THEN nas.vid[cps.br] ELSE 0
Refused(w, f) ==
  \/ f = "kernel" \/ cps.br \notin kbridges \/ w.lag \notin kbonds
  \/ w.mode = "tagged" /\ nas.vid[cps.br] = 0

Skipped(w, f) ==
  \/ w.lag \notin nas.entries
  \/ w.op = "add" /\ (nas.vid[cps.br] \in nas.vlans[<<w.lag, w.mode>>] \/ Refused(w, f))
  \/ w.op = "del" /\ nas.vid[cps.br] \notin nas.vlans[<<w.lag, w.mode>>]

Done(w) == Serving(cps.br, cps.work \ {w})

CpsSkip(w, f) ==
  /\ alive /\ w \in Now /\ cps.item = None /\ f \in {"none", "kernel"}
  /\ SpendFault(f) /\ Skipped(w, f)
  /\ cps' = Done(w)
  /\ UNCHANGED <<table, pubs, nas, alive, kbonds, kernel, history>>

CpsBegin(w) ==
  /\ alive /\ w \in Now /\ cps.item = None /\ ~Skipped(w, "none")
  /\ IF w.op = "add" THEN KernelJoin(cps.br, w.lag, KernelVid(w)) ELSE UNCHANGED kernel
  /\ cps' = [cps EXCEPT !.item = w, !.left = nas.mem[w.lag]]
  /\ UNCHANGED <<table, pubs, nas, alive, kbonds, history, spent>>

(* nas_add_or_del_lag_in_vlan, one member. *)
CpsWalk(p, f) ==
  LET w == cps.item
      v == nas.vid[cps.br]
  IN /\ alive /\ w # None /\ p \in cps.left /\ SpendFault(f)
     /\ nas' = IF w.op = "add" THEN NpuAdd(nas, v, w.mode, {p}, f)
                               ELSE NpuDel(nas, v, w.mode, {p}, f)
     /\ cps' = [cps EXCEPT !.left = @ \ {p}]
     /\ UNCHANGED <<table, pubs, alive, kbonds, kernel, history>>

Listed(w) ==
  LET v == nas.vid[cps.br]
  IN IF w.op = "add" THEN nas.vlans[<<w.lag, w.mode>>] \cup {v}
                     ELSE nas.vlans[<<w.lag, w.mode>>] \ {v}

(* The end of the walk, which comes anywhere once the list changed under    *)
(* it, and the id in the entry; an entry erased meanwhile is written to in  *)
(* vain.  The kernel releases an untagged LAG from whichever bridge it is   *)
(* in.                                                                      *)
CpsEnd(f) ==
  LET w == cps.item
      v == nas.vid[cps.br]
  IN /\ alive /\ w # None /\ (cps.left = {} \/ cps.raced) /\ SpendFault(f)
     /\ nas' = IF w.lag \in nas.entries
               THEN [nas EXCEPT !.vlans[<<w.lag, w.mode>>] = Listed(w)] ELSE nas
     /\ IF w.op = "del" /\ f # "kernel"
        THEN KernelLeave(w.lag, KernelVid(w)) ELSE UNCHANGED kernel
     /\ history' = [history EXCEPT !.torn =
                      @ \cup ({v} \cap Vids) \X {w.mode} \X (cps.left \cup cps.touched)]
     /\ cps' = Done(w)
     /\ UNCHANGED <<table, pubs, alive, kbonds>>

(* The walk follows an entry or a member that was freed. *)
CpsWalkCrash ==
  /\ alive /\ cps.item # None /\ cps.raced /\ alive' = FALSE
  /\ UNCHANGED <<table, pubs, nas, kbonds, kernel, cps, history, spent>>

-----------------------------------------------------------------------------
(* The event thread.  A LAG event is handled whether or not a request holds *)
(* br_lock.                                                                 *)

Moved(e) ==
  CASE e.lag \notin nas.entries -> {}
    [] e.lag \in nas.entries /\ e.op = "delete" -> nas.mem[e.lag]
    [] e.lag \in nas.entries /\ e.op = "set" ->
         Departed(nas, e.lag, e.ports) \cup Arrived(nas, e.lag, e.ports)
    [] OTHER -> {}

(* What a request that walks the LAG of this event sees of it. *)
Race(e) ==
  IF cps.item # None /\ cps.item.lag = e.lag
     /\ (Moved(e) # {} \/ (e.op = "delete" /\ e.lag \in nas.entries))
  THEN [cps EXCEPT !.raced = TRUE, !.touched = @ \cup Moved(e),
                   !.left = @ \cup (IF e.op = "set" THEN Arrived(nas, e.lag, e.ports) ELSE {})]
  ELSE cps

Orphans(l) ==
  {x \in Vids \X Modes \X Ports : x[1] \in nas.vlans[<<l, x[2]>>] /\ x[3] \in nas.mem[l]}

(* Ports that lag_list has in two LAGs. *)
Doubled(s) ==
  {p \in Ports : \E l \in s.entries : \E k \in s.entries \ {l} : p \in s.mem[l] \cap s.mem[k]}

(* nas_vlan_lag_event_func_cb.  When the lookup of a member fails, some of  *)
(* the others may have been added before.                                   *)
LagEvent(f) ==
  /\ alive /\ pubs # <<>> /\ SpendFault(f)
  /\ pubs' = Tail(pubs)
  /\ LET e == Head(pubs)
     IN /\ CASE e.op = "create" -> nas' = EntryCreate(nas, e.lag)
             [] e.op = "delete" -> nas' = EntryDelete(nas, e.lag)
             [] e.op = "set" ->
                  \E added \in SUBSET Arrived(nas, e.lag, e.ports) :
                    /\ (added = Arrived(nas, e.lag, e.ports)) <=> (f # "npuPort")
                    /\ nas' = MemberUpdate(nas, e.lag, e.ports, added, f)
        /\ cps' = Race(e)
        /\ history' = [history EXCEPT
             !.orphaned = @ \cup IF e.op = "delete" THEN Orphans(e.lag) ELSE {},
             !.doubled = @ \cup Doubled(nas')]
  /\ UNCHANGED <<table, alive, kbonds, kernel>>

(* The events of bridges and their members wait for br_lock. *)
Fatal(s, e) == e.op = "addPort" /\ e.br \notin s.known

Handle(s, e, f) ==
  CASE e.op = "newBridge" -> BridgeInsert(s, e.br)
    [] e.op = "delBridge" -> IF e.br \in s.known THEN BridgeCleanup(s, e.br, f) ELSE s
    [] e.op = "addPort"   -> OnAddPort(s, e.br, e.port, e.vid, f)
    [] e.op = "delPort"   -> OnDelPort(s, e.br, e.port, f)

(* LAGs that have no entry yet when this event is to add them. *)
LostBy(s, e) ==
  LET first == s.vid[e.br] = 0 /\ e.vid # 0
  IN {x \in {e.br} \X Lags :
        /\ e.op = "addPort" /\ x[2] \notin s.entries
        /\ x[2] = e.port \/ (first /\ x[2] \in s.stored[e.br])}

(* LAGs whose ids this event leaves different from the kernel's: the id of  *)
(* one interface is erased when another one leaves the bridge, and the      *)
(* first id of a bridge does not reach the LAGs when the NPU has the VLAN.  *)
MisreadBy(s, e) ==
  LET v == s.vid[e.br]
      first == v = 0 /\ e.vid \in s.npuVlans \ {0}
      erased(l) == IF DelMode(s, l, v) = "tagged" THEN v ELSE 0
  IN {x \in {e.br} \X Lags :
        \/ e.op = "addPort" /\ first /\ (x[2] = e.port \/ x[2] \in s.stored[e.br])
        \/ /\ e.op = "delPort" /\ x[2] = e.port /\ e.vid # erased(x[2])
           /\ v \in s.vlans[<<x[2], DelMode(s, x[2], v)>>]}

Take(f) ==
  /\ alive /\ cps.br = None /\ queue # <<>> /\ SpendFault(f)
  /\ queue' = Tail(queue)
  /\ UNCHANGED <<table, pubs, kbonds, kbridges, kmem, used, cps>>

VlanEvent(f) ==
  LET e == Head(queue)
  IN /\ Take(f) /\ ~Fatal(nas, e)
     /\ nas' = Handle(nas, e, f)
     /\ history' = [history EXCEPT
          !.lost = @ \cup LostBy(nas, e) \cup Sharing(nas'),
          !.misread = @ \cup MisreadBy(nas, e),
          !.stale = @ \cup IF e.op = "delBridge" /\ e.br \in nas.known
                           THEN StaleAfter(nas, e.br) ELSE {}]
     /\ UNCHANGED alive

VlanEventCrash ==
  /\ Take("none") /\ Fatal(nas, Head(queue))
  /\ alive' = FALSE /\ UNCHANGED <<nas, history>>

(* Other programs at the kernel. *)
OtherCreate(b) ==
  /\ SpendExternal /\ KernelCreate(b)
  /\ UNCHANGED <<table, pubs, nas, alive, kbonds, cps, history>>
OtherDelete(b) ==
  /\ SpendExternal /\ b \in kbridges /\ KernelDelete(b)
  /\ UNCHANGED <<table, pubs, nas, alive, kbonds, cps, history>>
OtherJoin(b, p, v) ==
  /\ SpendExternal /\ b \in kbridges /\ p \in kbonds \cup {Phys} /\ kmem[<<p, v>>] # b
  /\ p = Phys => v # 0
  /\ KernelJoin(b, p, v)
  /\ UNCHANGED <<table, pubs, nas, alive, kbonds, cps, history>>
OtherLeave(p, v) ==
  /\ SpendExternal /\ kmem[<<p, v>>] # None /\ KernelLeave(p, v)
  /\ UNCHANGED <<table, pubs, nas, alive, kbonds, cps, history>>

(* A bond goes, by whomever; its interfaces leave their bridges. *)
BondGone(l) ==
  /\ l \in kbonds /\ kbonds' = kbonds \ {l}
  /\ Release({x \in {l} \X MaybeVid : kmem[x] # None}, <<>>)
  /\ UNCHANGED <<table, pubs, nas, alive, kbridges, cps, history, spent>>

-----------------------------------------------------------------------------
MaybeFault == FaultKinds \cup {"none"}

LagManager ==
  \/ \E l \in Lags : LagAdd(l) \/ LagRemove(l)
  \/ \E l \in Lags, p \in Ports : LagJoin(l, p) \/ LagLeave(l, p)
  \/ \E l \in Lags, S \in SUBSET Ports, adding, ok \in BOOLEAN : LagRequest(l, S, adding, ok)

CpsRequest ==
  \E b \in Bridges, want \in Requests, f \in MaybeFault :
    \/ \E v \in VidsOf[b] : CpsCreate(b, v, want, f)
    \/ CpsSet(b, want)
    \/ CpsDelete(b, f)

Serve ==
  \/ \E w \in cps.work : CpsBegin(w) \/ \E f \in MaybeFault : CpsSkip(w, f)
  \/ \E p \in Ports, f \in MaybeFault : CpsWalk(p, f)
  \/ \E f \in MaybeFault : CpsEnd(f)
  \/ CpsWalkCrash

EventThread ==
  \/ \E f \in MaybeFault : LagEvent(f) \/ VlanEvent(f)
  \/ VlanEventCrash

Other ==
  \/ \E b \in Bridges : OtherCreate(b) \/ OtherDelete(b)
  \/ \E b \in Bridges, p \in Members : \E v \in VidsOf[b] \cup {0} : OtherJoin(b, p, v)
  \/ \E p \in Members, v \in MaybeVid : OtherLeave(p, v)
  \/ \E l \in Lags : BondGone(l)

Next == LagManager \/ CpsRequest \/ Serve \/ EventThread \/ Other

Spec == Init /\ [][Next]_vars
-----------------------------------------------------------------------------
(* Properties. *)

(* Every variable keeps its type. *)
TypeOK ==
  /\ lags \subseteq Lags /\ member \in [Ports -> Lags \cup {None}]
  /\ pubs \in Seq(Publication) /\ nas \in VlanState /\ alive \in BOOLEAN
  /\ kbonds \subseteq Lags /\ kbridges \subseteq Bridges
  /\ used \subseteq Lags \cup Bridges
  /\ kmem \in [Members \X MaybeVid -> MaybeBridge]
  /\ queue \in Seq(Event) /\ cps \in CpsState /\ history \in History
  /\ spent \in [{"table", "requests", "external", "faults"} -> Nat]

(* Once the publications are handled, lag_list has the LAGs of the LAG       *)
(* manager's table and, of every LAG whose last change was published, its    *)
(* members: whatever requests and kernel events came in between, and what    *)
(* failed in the VLAN manager but the lookup of a port.                      *)
CopyIsCurrent ==
  pubs = <<>> /\ "npuPort" \notin FaultKinds =>
    nas.entries = lags /\ \A l \in lags \ history.unpublished : nas.mem[l] = MembersOf(l)

(* However far lag_list is behind, it has a port in two LAGs only when the   *)
(* port once left a LAG whose list was not published then: as the event of   *)
(* another LAG does, or a request that fails.  A port that moves from LAG to *)
(* LAG otherwise leaves the copy of the first before it joins the second.    *)
PortsApart == Doubled(nas) \subseteq history.silent

(* While no walk is going on and no call has failed, every port of a LAG is *)
(* in every VLAN the LAG is in: a port that joins while requests and kernel *)
(* events move the LAG is not forgotten.  Not so for a VLAN whose id the    *)
(* LAG kept from a deleted VLAN, for the ports a LAG event changed while a  *)
(* request walked them, and for a port that lag_list had in two LAGs: what  *)
(* it loses with the first it does not get back for the second.             *)
MembersInVlans ==
  spent.faults = 0 /\ cps.item = None =>
    \A b \in nas.known, l \in nas.entries, m \in Modes :
      LET v == nas.vid[b]
      IN v \in Vids \cap nas.vlans[<<l, m>>] /\ <<b, l>> \notin history.lost
         /\ <<l, m, v>> \notin history.stale
         => /\ v \in nas.npuVlans
            /\ \A p \in nas.mem[l] \ nas.npu[<<v, m>>] :
                 <<v, m, p>> \in history.torn \/ p \in history.doubled

(* Then also no other port is in a VLAN for a LAG, but for those of such a  *)
(* walk and those of LAGs that were deleted with members.                   *)
NoStrayMembers ==
  spent.faults = 0 /\ cps.item = None =>
    \A v \in Vids, m \in Modes : \A p \in nas.npu[<<v, m>>] :
      \/ \E l \in nas.entries : v \in nas.vlans[<<l, m>>] /\ p \in nas.mem[l]
      \/ <<v, m, p>> \in history.torn \cup history.orphaned

Quiet == alive /\ cps.br = None /\ queue = <<>> /\ spent.faults = 0

(* Once the kernel events are handled, a LAG has the ids of exactly the     *)
(* VLANs whose bridges it is in, in the mode it has there, and is stored    *)
(* with exactly the bridges that have no id yet, unless an event was lost   *)
(* or misread or it kept the id of a deleted VLAN.                          *)
VlansFollowKernel ==
  Quiet => \A b \in nas.known, l \in nas.entries \cap lags :
    LET v == nas.vid[b]
    IN <<b, l>> \notin history.lost \cup history.misread =>
         IF v = 0 THEN (kmem[<<l, 0>>] = b) <=> (l \in nas.stored[b])
         ELSE \A m \in Modes : <<l, m, v>> \notin history.stale =>
                (kmem[<<l, IF m = "tagged" THEN v ELSE 0>>] = b) <=> (v \in nas.vlans[<<l, m>>])
=============================================================================
