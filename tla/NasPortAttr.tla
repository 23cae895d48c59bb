---------------------------- MODULE NasPortAttr -----------------------------
(***************************************************************************)
(* The attributes of one front panel port: nas_int_logical_cps.cpp and     *)
(* nas_int_ev_handler.                                                     *)
(*                                                                         *)
(* The kernel's network device and the NPU's port both have an admin state *)
(* and an MTU.  Two threads keep them equal and no lock orders them: the   *)
(* CPS thread sets an attribute in the kernel and then in the NPU, the     *)
(* event thread copies what the kernel reports to the NPU.  The NPU may    *)
(* refuse; then the kernel is put back.                                    *)
(*                                                                         *)
(* Every call to the kernel, to the NPU and to the event service is a step *)
(* of its own.  The attributes that only one side has are "mac" (kernel),  *)
(* "phy" (NPU: speed, duplex, autonegotiation and tagging mode, which have *)
(* the same handler) and "mode" (the daemon's table).                      *)
(***************************************************************************)
EXTENDS Naturals, Sequences, FiniteSets, SequencesExt

CONSTANTS
  Mtus,          \* MTUs in use
  DefaultMtu,    \* the MTU of a new network device
  Values,        \* values of mac, learn, phy and mode
  DefaultValue,  \* their value in a new device and in the NPU
  None,          \* "no interface", "nothing announced", "no mode"
  Requests,      \* the attribute lists of CPS requests, sequences of Setting
  Refusable,     \* settings the NPU may refuse, any time it is asked
  FaultKinds,    \* other calls that may fail, see Calls
  MaxSets,       \* bound on the CPS requests
  MaxCreates,    \* bound on the interfaces created
  MaxExternal,   \* bound on what other programs set in the kernel
  MaxFaults      \* bound on the failing calls

Attributes == {"enabled", "mtu", "mac", "learn", "phy", "mode"}
ValueOf(a) == CASE a = "enabled" -> BOOLEAN [] a = "mtu" -> Mtus [] OTHER -> Values
Setting == UNION {[attr : {a}, val : ValueOf(a)] : a \in Attributes}

(* "kernel" is a set at the kernel, "get" a read from it or from the NPU. *)
Calls == {"kernel", "get"}

ASSUME NasPortAttrAssumption ==
  /\ DefaultMtu \in Mtus /\ DefaultValue \in Values
  /\ None \notin BOOLEAN /\ None \notin Values
  /\ Requests \subseteq Seq(Setting) /\ Refusable \subseteq Setting
  /\ FaultKinds \subseteq Calls
  /\ {MaxSets, MaxCreates, MaxExternal, MaxFaults} \subseteq Nat

VARIABLES
  kernel,     \* the network device
  known,      \* ifindex the daemon has registered for the port, 0 if none
  npu,        \* the NPU's port
  mode,       \* the port's entry in _logical_port_tbl
  announced,  \* admin state last announced for the interface
  queue,      \* kernel events the event thread has not taken
  cps,        \* the CPS request being served
  event,      \* the kernel event being handled
  history,    \* what went apart for a named reason, see History
  spent       \* how much of each bound is used

vars == <<kernel, known, npu, mode, announced, queue, cps, event, history, spent>>

(* ifindex 0: there is no device. *)
Kernel == [ifindex : 0..MaxCreates, enabled : BOOLEAN, mtu : Mtus, mac : Values, learn : Values]
Npu == [enabled : BOOLEAN, mtu : Mtus, learn : Values, phy : Values]
Report == [ifindex : 1..MaxCreates, enabled : BOOLEAN, mtu : Mtus]
NoReport == [ifindex |-> 0, enabled |-> FALSE, mtu |-> DefaultMtu]

(* The head of todo is the attribute being set, back the MTU the kernel is  *)
(* to be put back to, asked the whole list, ok the answer to it.            *)
Cps == [pc : {"idle", "register", "read", "walk", "npu", "kernel", "revert", "announce", "down"},
        todo : Seq(Setting), back : Mtus,
        asked : Seq(Setting), ok : BOOLEAN]
Handling == [pc : {"idle", "admin", "set", "announce", "mtu", "revert"},
             e : Report \cup {NoReport}, back : Mtus]

(* apart: attributes the NPU may keep different from the kernel's: the CPS  *)
(* thread wrote a value the kernel had lost meanwhile, the event thread     *)
(* wrote for an interface that was deleted under it, a report came before   *)
(* the interface was registered, or the NPU refused and the kernel was not  *)
(* put back.  late: the last announcement was of a state the port did not   *)
(* have, or the port changed for an interface that was deleted.  mixed: the *)
(* list of attributes was changed while it was walked.                      *)
History == [apart : SUBSET {"enabled", "mtu"}, late : BOOLEAN, mixed : BOOLEAN]

Idle == [pc |-> "idle", todo |-> <<>>, back |-> DefaultMtu, asked |-> <<>>, ok |-> FALSE]
Rest == [pc |-> "idle", e |-> NoReport, back |-> DefaultMtu]
-----------------------------------------------------------------------------
Init ==
  /\ kernel = [ifindex |-> 0, enabled |-> FALSE, mtu |-> DefaultMtu,
               mac |-> DefaultValue, learn |-> DefaultValue]
  /\ known = 0 /\ mode = None /\ announced = None /\ queue = <<>>
  /\ npu \in [enabled : {FALSE}, mtu : Mtus, learn : {DefaultValue}, phy : {DefaultValue}]
  /\ cps = Idle /\ event = Rest
  /\ history = [apart |-> {}, late |-> FALSE, mixed |-> FALSE]
  /\ spent = [sets |-> 0, creates |-> 0, external |-> 0, faults |-> 0]

Failing(f) == f = "none" \/ (f \in FaultKinds /\ spent.faults < MaxFaults)
Faults(f) == spent.faults + (IF f = "none" THEN 0 ELSE 1)
SpendFault(f) == Failing(f) /\ spent' = [spent EXCEPT !.faults = Faults(f)]

(* The kernel reports a device with its admin state and MTU whenever one of *)
(* its attributes changes.                                                  *)
Reported(k) == Append(queue, [ifindex |-> k.ifindex, enabled |-> k.enabled, mtu |-> k.mtu])
KernelSet(a, v) ==
  /\ kernel' = [kernel EXCEPT ![a] = v]
  /\ queue' = IF kernel[a] = v THEN queue ELSE Reported(kernel')

(* What the kernel has of an attribute; a port without device is down. *)
InKernel(a, v) == IF kernel.ifindex = 0 THEN a = "mtu" \/ v = FALSE ELSE kernel[a] = v
Leave(a, differs) ==
  IF differs THEN [history EXCEPT !.apart = @ \cup {a}]
  ELSE [history EXCEPT !.apart = @ \ {a}]

(* An announcement, by either thread (nas_send_admin_state_event). *)
Announce(ifindex, v) ==
  IF ifindex = known
  THEN announced' = v /\ history' = [history EXCEPT !.late = (v # npu.enabled)]
  ELSE UNCHANGED <<announced, history>>
-----------------------------------------------------------------------------
(* The CPS thread. *)

Answer(ok) == [cps EXCEPT !.pc = "idle", !.todo = <<>>, !.back = DefaultMtu, !.ok = ok]
Goto(pc) == [cps EXCEPT !.pc = pc]
Onward == [cps EXCEPT !.pc = "walk", !.todo = Tail(@), !.back = DefaultMtu]
Now == Head(cps.todo)

(* _if_create: the device, then its registration, then _if_update. *)
Create(request) ==
  /\ cps.pc = "idle" /\ known = 0 /\ spent.creates < MaxCreates
  /\ spent' = [spent EXCEPT !.creates = @ + 1]
  /\ kernel' = [ifindex |-> spent.creates + 1, enabled |-> FALSE, mtu |-> DefaultMtu,
                mac |-> DefaultValue, learn |-> DefaultValue]
  /\ queue' = Reported(kernel')
  /\ cps' = [Idle EXCEPT !.pc = "register", !.todo = request, !.asked = request]
  /\ UNCHANGED <<known, npu, mode, announced, event, history>>

Register ==
  /\ cps.pc = "register" /\ known' = kernel.ifindex /\ cps' = Goto("read")
  /\ UNCHANGED <<kernel, npu, mode, announced, queue, event, history, spent>>

Set(request) ==
  /\ cps.pc = "idle" /\ known # 0 /\ spent.sets < MaxSets
  /\ spent' = [spent EXCEPT !.sets = @ + 1]
  /\ cps' = [Idle EXCEPT !.pc = "read", !.todo = request, !.asked = request]
  /\ UNCHANGED <<kernel, known, npu, mode, announced, queue, event, history>>

(* Mutant of Same: the kernel is asked for all of them. *)
SameInKernel(s) ==
  CASE s.attr \in {"mtu", "mac", "learn"} -> kernel[s.attr] = s.val
    [] s.attr = "phy"                     -> npu.phy = s.val
    [] OTHER                              -> FALSE

(* remove_same_values: the device's values are the kernel's, the rest the   *)
(* NPU's; the admin state is set in any case, and the mode is not compared. *)
Same(s) ==
  CASE s.attr \in {"mtu", "mac"}   -> kernel[s.attr] = s.val
    [] s.attr \in {"learn", "phy"} -> npu[s.attr] = s.val
    [] OTHER                       -> FALSE

(* The list without the settings that are the same, in its order.  *)
Kept(list) ==
  LET K == {i \in DOMAIN list : ~Same(list[i])}
      positions == {q \in [1..Cardinality(K) -> K] : \A i, j \in DOMAIN q : i < j => q[i] < q[j]}
  IN {[i \in 1..Cardinality(K) |-> list[q[i]]] : q \in positions}

(* _if_get_prev_from_cache *)
Read(f) ==
  /\ cps.pc = "read" /\ SpendFault(f)
  /\ IF f = "get" THEN cps' = Answer(FALSE)
     ELSE \E rest \in Kept(cps.todo) : cps' = [Goto("walk") EXCEPT !.todo = rest]
  /\ UNCHANGED <<kernel, known, npu, mode, announced, queue, event, history>>

(* _if_update stops at the first attribute that fails; what is done stays. *)
End ==
  /\ cps.pc = "walk" /\ cps.todo = <<>> /\ cps' = Answer(TRUE)
  /\ UNCHANGED <<kernel, known, npu, mode, announced, queue, event, history, spent>>

Walking(attributes) == cps.pc = "walk" /\ cps.todo # <<>> /\ Now.attr \in attributes

(* _set_attr_up, _set_attr_mtu and _set_attr_mac: first the kernel. *)
SetKernel(f) ==
  /\ Walking({"enabled", "mtu", "mac"}) /\ SpendFault(f)
  /\ IF f = "kernel" THEN cps' = Answer(FALSE) /\ UNCHANGED <<kernel, queue>>
     ELSE /\ KernelSet(Now.attr, Now.val)
          /\ cps' = IF Now.attr = "mac" THEN Onward ELSE Goto("npu")
  /\ UNCHANGED <<known, npu, mode, announced, event, history>>

(* _set_mac_learn_mode has the NPU first; the kernel's refusal is ignored. *)
SetNpu ==
  /\ Walking({"learn", "phy"})
  /\ npu' = [npu EXCEPT ![Now.attr] = Now.val]
  /\ cps' = IF Now.attr = "learn" THEN Goto("kernel") ELSE Onward
  /\ UNCHANGED <<kernel, known, mode, announced, queue, event, history, spent>>

SetNpuRefused ==
  /\ Walking({"learn", "phy"}) /\ Now \in Refusable /\ cps' = Answer(FALSE)
  /\ UNCHANGED <<kernel, known, npu, mode, announced, queue, event, history, spent>>

SetLearning(f) ==
  /\ cps.pc = "kernel" /\ SpendFault(f)
  /\ kernel' = IF f = "kernel" THEN kernel ELSE [kernel EXCEPT !.learn = Now.val]
  /\ cps' = Onward
  /\ UNCHANGED <<known, npu, mode, announced, queue, event, history>>

(* _set_attr_mode *)
SetMode ==
  /\ Walking({"mode"}) /\ mode' = Now.val /\ cps' = Onward
  /\ UNCHANGED <<kernel, known, npu, announced, queue, event, history, spent>>

(* Then the NPU. *)
Follow ==
  /\ cps.pc = "npu"
  /\ npu' = [npu EXCEPT ![Now.attr] = Now.val]
  /\ history' = Leave(Now.attr, ~InKernel(Now.attr, Now.val))
  /\ cps' = IF Now.attr = "enabled" THEN Goto("announce") ELSE Onward
  /\ UNCHANGED <<kernel, known, mode, announced, queue, event, spent>>

(* The NPU refuses: the admin state goes back to the opposite, whatever it  *)
(* was, the MTU to what the NPU has.                                        *)
FollowRefused(f) ==
  /\ cps.pc = "npu" /\ Now \in Refusable /\ SpendFault(f)
  /\ f = "get" => Now.attr = "mtu"
  /\ cps' = CASE Now.attr = "enabled"         -> Goto("revert")
              [] Now.attr = "mtu" /\ f # "get" -> [Goto("revert") EXCEPT !.back = npu.mtu]
              [] OTHER                         -> Answer(FALSE)
  /\ history' = IF f = "get" THEN Leave("mtu", TRUE) ELSE history
  /\ UNCHANGED <<kernel, known, npu, mode, announced, queue, event>>

(* The value in the list is replaced while the list is walked: the walk may *)
(* skip the next attribute, and may meet the new value at the end.          *)
Replaced(rest, new) ==
  LET skipped == {rest} \cup (IF rest = <<>> THEN {} ELSE {Tail(rest)})
  IN skipped \cup {Append(r, new) : r \in skipped}

Revert(f) ==
  /\ cps.pc = "revert" /\ SpendFault(f)
  /\ IF f = "kernel" THEN UNCHANGED <<kernel, queue>>
     ELSE KernelSet(Now.attr, IF Now.attr = "mtu" THEN cps.back ELSE ~Now.val)
  /\ IF Now.attr = "mtu" THEN cps' = Answer(FALSE)
     ELSE \E rest \in Replaced(Tail(cps.todo), [attr |-> "enabled", val |-> ~Now.val]) :
            cps' = [Goto("announce") EXCEPT !.todo = <<Now>> \o rest]
  /\ history' = [history EXCEPT !.mixed = @ \/ Now.attr = "enabled",
                   !.apart = @ \cup IF f = "kernel" THEN {Now.attr} ELSE {}]
  /\ UNCHANGED <<known, npu, mode, announced, event>>

(* The announcement is of the state that was asked for. *)
AnnounceSet ==
  /\ cps.pc = "announce" /\ Announce(known, Now.val) /\ cps' = Onward
  /\ UNCHANGED <<kernel, known, npu, mode, queue, event, spent>>

(* Mutant of Delete: the device that goes is reported like any other. *)
DeleteReported ==
  /\ cps.pc = "idle" /\ known # 0 /\ spent.sets < MaxSets
  /\ spent' = [spent EXCEPT !.sets = @ + 1]
  /\ known' = 0 /\ kernel' = [kernel EXCEPT !.ifindex = 0] /\ announced' = None
  /\ cps' = [Idle EXCEPT !.pc = "down"] /\ queue' = Reported(kernel')
  /\ UNCHANGED <<npu, mode, event, history>>

(* _if_delete: the interface goes, then the NPU's port is shut down.  The   *)
(* entry of _logical_port_tbl stays.                                        *)
Delete ==
  /\ cps.pc = "idle" /\ known # 0 /\ spent.sets < MaxSets
  /\ spent' = [spent EXCEPT !.sets = @ + 1]
  /\ known' = 0 /\ kernel' = [kernel EXCEPT !.ifindex = 0] /\ announced' = None
  /\ cps' = [Idle EXCEPT !.pc = "down"]
  /\ UNCHANGED <<npu, mode, queue, event, history>>

ShutDown ==
  /\ cps.pc = "down" /\ cps' = Answer(TRUE)
  /\ \/ npu' = [npu EXCEPT !.enabled = FALSE] /\ history' = Leave("enabled", FALSE)
     \/ /\ [attr |-> "enabled", val |-> FALSE] \in Refusable
        /\ npu' = npu /\ history' = Leave("enabled", TRUE)
  /\ UNCHANGED <<kernel, known, mode, announced, queue, event, spent>>
-----------------------------------------------------------------------------
(* The event thread: nas_int_ev_handler. *)

(* Mutant of Take: such a report is kept, to be looked at again. *)
TakeRetries ==
  /\ event.pc = "idle" /\ queue # <<>>
  /\ IF Head(queue).ifindex = known
     THEN queue' = Tail(queue) /\ event' = [event EXCEPT !.pc = "admin", !.e = Head(queue)]
     ELSE UNCHANGED <<queue, event>>
  /\ UNCHANGED <<kernel, known, npu, mode, announced, cps, history, spent>>

(* A report of an interface that is not registered is dropped. *)
Take ==
  /\ event.pc = "idle" /\ queue # <<>> /\ queue' = Tail(queue)
  /\ LET e == Head(queue)
     IN IF e.ifindex = known
        THEN event' = [event EXCEPT !.pc = "admin", !.e = e] /\ UNCHANGED history
        ELSE /\ UNCHANGED event
             /\ history' = IF e.ifindex = kernel.ifindex
                           THEN [history EXCEPT !.apart = {"enabled", "mtu"}] ELSE history
  /\ UNCHANGED <<kernel, known, npu, mode, announced, cps, spent>>

(* The value is the NPU's now, or the NPU kept its own. *)
Gone == event.e.ifindex # known
Handled(a, taken) == Leave(a, ~taken \/ Gone)

Upto(pc) == [event EXCEPT !.pc = pc]

Compare(f) ==
  /\ event.pc = "admin" /\ SpendFault(f)
  /\ event' = Upto(IF f = "get" \/ npu.enabled = event.e.enabled THEN "mtu" ELSE "set")
  /\ history' = IF event'.pc = "set" THEN history ELSE Handled("enabled", f # "get")
  /\ UNCHANGED <<kernel, known, npu, mode, announced, queue, cps>>

(* Mutant of CopyAdmin: a state that was set is taken for announced. *)
CopyAdminSilent ==
  /\ event.pc = "set" /\ npu' = [npu EXCEPT !.enabled = event.e.enabled]
  /\ event' = Upto("mtu") /\ history' = Handled("enabled", TRUE)
  /\ UNCHANGED <<kernel, known, mode, announced, queue, cps, spent>>

CopyAdmin ==
  /\ event.pc = "set" /\ event' = Upto("announce")
  /\ \/ /\ npu' = [npu EXCEPT !.enabled = event.e.enabled]
        /\ history' = [Handled("enabled", TRUE) EXCEPT !.late = @ \/ Gone]
     \/ /\ [attr |-> "enabled", val |-> event.e.enabled] \in Refusable
        /\ npu' = npu /\ history' = Handled("enabled", FALSE)
  /\ UNCHANGED <<kernel, known, mode, announced, queue, cps, spent>>

(* The state is announced even when the NPU refused it. *)
AnnounceCopy ==
  /\ event.pc = "announce" /\ Announce(event.e.ifindex, event.e.enabled) /\ event' = Upto("mtu")
  /\ UNCHANGED <<kernel, known, npu, mode, queue, cps, spent>>

CopyMtu ==
  /\ event.pc = "mtu" /\ npu' = [npu EXCEPT !.mtu = event.e.mtu]
  /\ history' = Handled("mtu", TRUE) /\ event' = Rest
  /\ UNCHANGED <<kernel, known, mode, announced, queue, cps, spent>>

(* Mutant of CopyMtuRefused: the kernel keeps an MTU the NPU refused. *)
CopyMtuRefusedKept(f) ==
  /\ event.pc = "mtu" /\ [attr |-> "mtu", val |-> event.e.mtu] \in Refusable
  /\ SpendFault(f) /\ event' = Rest
  /\ UNCHANGED <<kernel, known, npu, mode, announced, queue, cps, history>>

CopyMtuRefused(f) ==
  /\ event.pc = "mtu" /\ [attr |-> "mtu", val |-> event.e.mtu] \in Refusable
  /\ SpendFault(f)
  /\ event' = IF f = "get" THEN Rest ELSE [Upto("revert") EXCEPT !.back = npu.mtu]
  /\ history' = Handled("mtu", f # "get")
  /\ UNCHANGED <<kernel, known, npu, mode, announced, queue, cps>>

PutBack(f) ==
  /\ event.pc = "revert" /\ SpendFault(f) /\ event' = Rest
  /\ IF f = "kernel" \/ event.e.ifindex # kernel.ifindex
     THEN UNCHANGED <<kernel, queue>> ELSE KernelSet("mtu", event.back)
  /\ history' = IF f = "kernel" THEN Leave("mtu", TRUE) ELSE history
  /\ UNCHANGED <<known, npu, mode, announced, cps>>

(* Other programs at the kernel. *)
OtherSet(s) ==
  /\ kernel.ifindex # 0 /\ spent.external < MaxExternal
  /\ spent' = [spent EXCEPT !.external = @ + 1]
  /\ kernel[s.attr] # s.val /\ KernelSet(s.attr, s.val)
  /\ UNCHANGED <<known, npu, mode, announced, cps, event, history>>
-----------------------------------------------------------------------------
MaybeFault == FaultKinds \cup {"none"}

Serve ==
  \/ Register \/ End \/ SetNpu \/ SetNpuRefused \/ SetMode \/ Follow \/ AnnounceSet \/ ShutDown
  \/ \E f \in MaybeFault :
       Read(f) \/ SetKernel(f) \/ SetLearning(f) \/ FollowRefused(f) \/ Revert(f)

HandleEvent ==
  \/ Take \/ CopyAdmin \/ AnnounceCopy \/ CopyMtu
  \/ \E f \in MaybeFault : Compare(f) \/ CopyMtuRefused(f) \/ PutBack(f)

Request == Delete \/ \E request \in Requests : Create(request) \/ Set(request)

Other == \E s \in Setting : s.attr \in {"enabled", "mtu"} /\ OtherSet(s)

Next == Request \/ Serve \/ HandleEvent \/ Other

Spec == Init /\ [][Next]_vars

(* Both threads go on. *)
LiveSpec == Spec /\ WF_vars(Serve) /\ WF_vars(HandleEvent)
-----------------------------------------------------------------------------
(* Properties. *)

(* Every variable keeps its type. *)
TypeOK ==
  /\ kernel \in Kernel /\ known \in 0..MaxCreates /\ npu \in Npu
  /\ mode \in Values \cup {None} /\ announced \in BOOLEAN \cup {None}
  /\ queue \in Seq(Report) /\ cps \in Cps /\ event \in Handling /\ history \in History
  /\ spent \in [{"sets", "creates", "external", "faults"} -> Nat]

Quiet == cps.pc = "idle" /\ event.pc = "idle" /\ queue = <<>>

(* Once requests and kernel events are handled, the NPU has the admin state *)
(* and the MTU of the kernel, and is down without an interface, whatever    *)
(* the NPU refused the CPS thread and in whatever order the two threads     *)
(* wrote, but for the cases that apart names.                               *)
KernelAndNpuAgree ==
  Quiet => \A a \in {"enabled", "mtu"} \ history.apart : InKernel(a, npu[a])

(* Then the admin state last announced is the port's: no thread changes it  *)
(* in silence.  Left out, by history.late, are an announcement of a state   *)
(* the port did not have when it was made, because the NPU had refused it   *)
(* or the other thread had set the port since, and a port that was set for  *)
(* an interface that is deleted.                                            *)
AnnouncedUnlessLate ==
  Quiet /\ announced # None /\ ~history.late => announced = npu.enabled

(* A request is answered OK only when each of its attributes that no kernel *)
(* event touches has the value asked for, in every place that has it.  Left *)
(* out are the admin state and the MTU, which the event thread may change   *)
(* while the request is served; behaviours in which a call to the kernel or *)
(* a read failed, as the kernel's answer to the learn mode is not looked    *)
(* at; and those in which the NPU refused an admin state, which changes the *)
(* list while it is walked (history.mixed).  The learn mode of a port that  *)
(* is created again is compared with what its first interface left in the   *)
(* NPU, so the new device may not be told.                                  *)
InPlace(s) ==
  CASE s.attr = "mac"   -> kernel.mac = s.val
    [] s.attr = "learn" -> npu.learn = s.val /\ (kernel.learn = s.val \/ kernel.ifindex > 1)
    [] s.attr = "phy"   -> npu.phy = s.val
    [] s.attr = "mode"  -> mode = s.val
    [] OTHER            -> TRUE

OkMeansInPlace ==
  cps.pc = "idle" /\ cps.ok /\ spent.faults = 0 /\ ~history.mixed =>
    \A i \in DOMAIN cps.asked : InPlace(cps.asked[i])

(* The two threads do not answer each other for ever: after the last        *)
(* request every kernel event is handled and no new one comes, though the   *)
(* NPU may refuse again and again.                                          *)
Settles == <>[]Quiet

(* "force the state to be down at the time of interface delete since there  *)
(* will be no way to do this after the interface is deleted".               *)
DeletedPortIsDown == Quiet /\ known = 0 => ~npu.enabled
=============================================================================
