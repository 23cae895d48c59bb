------------------------------ MODULE NasFanout -----------------------------
(***************************************************************************)
(* Breaking a front panel port out into lanes, and in again, while other   *)
(* programs create, enable and delete interfaces: sonic-config-fanout,     *)
(* base_nas_create_interface.py and nas_delete_interface.py, the service   *)
(* of base_nas_front_panel_ports.py, and the interface thread of           *)
(* base_nas_monitor_phy_media.py, which switches the transceiver's lanes.  *)
(*                                                                         *)
(* The scripts are processes.  A get they make and a request they send is  *)
(* a step.  A request is served by the front panel port service, one at a  *)
(* time, and by the daemon's one CPS thread.  Ports that a breakout makes  *)
(* appear one by one.                                                      *)
(*                                                                         *)
(* A port is identified by its hardware lane, an interface's name by its   *)
(* last number.  Its MAC address, a function of the lane, is left out.     *)
(***************************************************************************)
EXTENDS Naturals, Sequences, FiniteSets, SequencesExt

CONSTANTS
  Lanes,      \* hardware ports of the front panel port, 1..n
  Fanouts,    \* processes that run sonic-config-fanout
  FaultKinds, \* calls that may fail, see Calls
  MaxRuns,    \* bound on the runs of sonic-config-fanout
  MaxWork,    \* bound on these and what happens besides: runs of
              \* base_nas_create_interface.py and nas_delete_interface.py,
              \* changes of an admin state
  MaxFaults

Modes == {"whole", "split"}

(* "update": an attribute is refused after the interface was created. *)
Calls == {"delete", "breakout", "create", "update"}

ASSUME NasFanoutAssumption ==
  /\ "boot" \notin Fanouts
  /\ IsFiniteSet(Lanes) /\ Lanes = 1..Cardinality(Lanes) /\ 1 \in Lanes
  /\ FaultKinds \subseteq Calls
  /\ {MaxRuns, MaxWork, MaxFaults} \subseteq Nat

VARIABLES
  mode,     \* breakout mode of the front panel port
  valid,    \* lanes the NPU has a port for
  ifs,      \* the interface of each lane's port
  laser,    \* transceiver state of each lane
  events,   \* admin state changes the interface thread has not taken
  fanout,   \* the processes that run sonic-config-fanout
  boot,     \* base_nas_create_interface.py
  remover,  \* nas_delete_interface.py
  monitor,  \* the interface thread
  history,  \* why an interface may not fit its port, see History
  spent     \* how much of each bound is used

vars == <<mode, valid, ifs, laser, events, fanout, boot, remover, monitor, history, spent>>

(* listed: it is registered; exists without it: a deletion that failed.    *)
Interface == [exists : BOOLEAN, listed : BOOLEAN, sub : Nat, index : Nat, enabled : BOOLEAN]
NoInterface == [exists |-> FALSE, listed |-> FALSE, sub |-> 0, index |-> 0, enabled |-> FALSE]

(* A lane and the name of an interface on it. *)
Item == [lane : Lanes, sub : Nat]

(* listing: the interfaces the script read when it started; then the new   *)
(* ports, by lane, that it has not made a name for.                        *)
Script == [pc : {"idle", "ports", "delete", "breakout", "wait", "make", "create"},
           target : Modes, listing : SUBSET Item, todo : Seq(Item),
           result : {"none", "created", "failed"}]
Boot == [pc : {"idle", "listing", "make", "create"}, lanes : Seq(Lanes), listing : SUBSET Nat,
         item : Item]
Remover == [pc : {"idle", "down", "delete"}, name : Item, index : Nat]
Monitor == [pc : {"wait", "mode", "transceiver"}, lane : Lanes, enable : BOOLEAN, all : BOOLEAN]

(* late: scripts that made a name before the last breakout or while its    *)
(* port was gone.                                                          *)
(* left: interfaces, by ifindex, that a breakout found there, because      *)
(* their deletion failed or they were created after the script listed the  *)
(* interfaces, and those a late script created.  undisturbed: scripts      *)
(* since whose breakout no other process deleted an interface or broke     *)
(* out.  told: interfaces whose admin state was announced.                 *)
History == [late : SUBSET (Fanouts \cup {"boot"}), left : SUBSET Nat,
            undisturbed : SUBSET Fanouts, told : SUBSET Nat]

LanesOf(m) == IF m = "whole" THEN {1} ELSE Lanes
SubOf(m, l) == IF m = "whole" THEN l - 1 ELSE l

(* The platform's file lists the hardware ports of a front panel port, and  *)
(* the NPU numbers its ports, in any order.                                 *)
Orders(S) == SetToSeqs(S)
-----------------------------------------------------------------------------
BootDone == [pc |-> "idle", lanes |-> <<>>, listing |-> {}, item |-> [lane |-> 1, sub |-> 0]]
Removed == [pc |-> "idle", name |-> [lane |-> 1, sub |-> 0], index |-> 0]
Waiting == [pc |-> "wait", lane |-> 1, enable |-> FALSE, all |-> FALSE]

Init ==
  /\ mode \in Modes /\ valid = LanesOf(mode)
  /\ ifs = [l \in Lanes |-> NoInterface] /\ laser = [l \in Lanes |-> FALSE]
  /\ events = <<>>
  /\ fanout = [f \in Fanouts |-> [pc |-> "idle", target |-> "whole", listing |-> {},
                                  todo |-> <<>>, result |-> "none"]]
  /\ boot = BootDone /\ remover = Removed /\ monitor = Waiting
  /\ history = [late |-> {}, left |-> {}, undisturbed |-> {}, told |-> {}]
  /\ spent = [runs |-> 0, others |-> 0, creates |-> 0, faults |-> 0]

Spend(b) == spent.runs + spent.others < MaxWork /\ spent' = [spent EXCEPT ![b] = @ + 1]
Failing(k) == k \in FaultKinds /\ spent.faults < MaxFaults
SpendFault(k) == Failing(k) /\ spent' = [spent EXCEPT !.faults = @ + 1]
-----------------------------------------------------------------------------
(* Requests to the service and the daemon. *)

HasName(l, sub) == ifs[l].exists /\ ifs[l].sub = sub
Named(i) == {l \in Lanes : ifs[l].listed /\ HasName(l, i.sub)}

(* A deletion fails without such an interface; one that fails later leaves *)
(* the port in use by an interface that is not registered any more.        *)
Deletes(found) ==
  /\ found # {} /\ ifs' = [l \in Lanes |-> IF l \in found THEN NoInterface ELSE ifs[l]]
  /\ UNCHANGED spent
DeleteFails(found) ==
  \/ found = {} /\ UNCHANGED <<ifs, spent>>
  \/ /\ found # {} /\ SpendFault("delete")
     /\ ifs' = [l \in Lanes |-> [ifs[l] EXCEPT !.listed = @ /\ l \notin found]]

(* set_intf_cb finds the port, _if_create that no interface uses it; the   *)
(* kernel refuses a second interface of the name.                          *)
Free(i) == i.lane \in valid /\ ~ifs[i.lane].exists /\ ~\E l \in Lanes : HasName(l, i.sub)
Index == spent.creates + 1
New(i) == [exists |-> TRUE, listed |-> TRUE, sub |-> i.sub, index |-> Index, enabled |-> FALSE]

By(p) == history' = [history EXCEPT !.left = IF p \in history.late THEN @ \cup {Index} ELSE @]

Creates(p, i) ==
  /\ Free(i) /\ ifs' = [ifs EXCEPT ![i.lane] = New(i)] /\ By(p)
  /\ spent' = [spent EXCEPT !.creates = @ + 1]

(* The interface stays when one of its attributes is refused. *)
CreateFails(p, i) ==
  \/ ~Free(i) /\ UNCHANGED <<ifs, history, spent>>
  \/ Free(i) /\ SpendFault("create") /\ UNCHANGED <<ifs, history>>
  \/ /\ Free(i) /\ Failing("update") /\ ifs' = [ifs EXCEPT ![i.lane] = New(i)] /\ By(p)
     /\ spent' = [spent EXCEPT !.faults = @ + 1, !.creates = @ + 1]

(* The service's set_cb: a control port and, to break in, every lane's.    *)
Breakable(m) == IF m = "split" THEN 1 \in valid ELSE valid = Lanes

(* Mutant of ItemOf: "if mode != 4" forgotten. *)
ItemOfLane(l) == [lane |-> l, sub |-> l - 1]

(* make_interface_from_phy_port; the hardware port of a port that is gone  *)
(* counts as not broken out.                                               *)
ItemOf(l) == [lane |-> l, sub |-> SubOf(IF l \in valid THEN mode ELSE "whole", l)]
NameMade(p, l, late) ==
  history' = [history EXCEPT !.late = IF l \in valid THEN late ELSE late \cup {p}]
-----------------------------------------------------------------------------
(* sonic-config-fanout. *)

Finish(f, result) == [fanout EXCEPT ![f].pc = "idle", ![f].todo = <<>>, ![f].listing = {},
                        ![f].result = result]

Listing == {[lane |-> l, sub |-> ifs[l].sub] : l \in {k \in Lanes : ifs[k].listed}}

Start(f, m) ==
  /\ fanout[f].pc = "idle" /\ spent.runs < MaxRuns /\ Spend("runs")
  /\ fanout' = [fanout EXCEPT ![f] = [pc |-> "ports", target |-> m, listing |-> Listing,
                                      todo |-> <<>>, result |-> "none"]]
  /\ history' = [history EXCEPT !.undisturbed = @ \ {f}]
  /\ UNCHANGED <<mode, valid, ifs, laser, events, boot, remover, monitor>>

(* Without ports, or in that mode already, there is nothing to do.         *)
ReadPorts(f) ==
  /\ fanout[f].pc = "ports"
  /\ IF valid = {} \/ mode = fanout[f].target THEN fanout' = Finish(f, "none")
     ELSE \E old \in Orders({i \in fanout[f].listing : i.lane \in valid}) :
            fanout' = [fanout EXCEPT ![f].todo = old,
                         ![f].pc = IF old = <<>> THEN "breakout" ELSE "delete"]
  /\ UNCHANGED <<mode, valid, ifs, laser, events, boot, remover, monitor, history, spent>>

Disturb(f) == [history EXCEPT !.undisturbed = @ \cap {f}]

(* One transaction, which ends at the first deletion that fails; nobody    *)
(* looks at its result.                                                    *)
DeleteOld(f) ==
  /\ fanout[f].pc = "delete"
  /\ LET found == Named(Head(fanout[f].todo))
         rest == Tail(fanout[f].todo)
     IN \/ /\ Deletes(found)
           /\ fanout' = [fanout EXCEPT ![f].todo = rest,
                            ![f].pc = IF rest = <<>> THEN "breakout" ELSE "delete"]
        \/ /\ DeleteFails(found)
           /\ fanout' = [fanout EXCEPT ![f].todo = <<>>, ![f].pc = "breakout"]
  /\ history' = Disturb(f)
  /\ UNCHANGED <<mode, valid, laser, events, boot, remover, monitor>>

(* Mutant of Breakout: the ports of the old mode stay. *)
BreakoutKeepsPorts(f) ==
  /\ fanout[f].pc = "breakout" /\ Breakable(fanout[f].target)
  /\ mode' = fanout[f].target /\ fanout' = [fanout EXCEPT ![f].pc = "wait"]
  /\ UNCHANGED <<valid, ifs, laser, events, boot, remover, monitor, history, spent>>

(* set_cb and if_breakout: the ports go, those of the new mode are to come. *)
Breakout(f) ==
  /\ fanout[f].pc = "breakout" /\ Breakable(fanout[f].target)
  /\ mode' = fanout[f].target /\ valid' = {} /\ fanout' = [fanout EXCEPT ![f].pc = "wait"]
  /\ history' = [history EXCEPT
        !.left = @ \cup {ifs[l].index : l \in {k \in Lanes : ifs[k].exists}},
        !.late = {g \in Fanouts : fanout[g].pc \in {"make", "create"} /\ fanout[g].todo # <<>>}
                 \cup {p \in {"boot"} : boot.pc = "create"},
        !.undisturbed = {f}]
  /\ UNCHANGED <<ifs, laser, events, boot, remover, monitor, spent>>

(* The interfaces that were deleted are not created again. *)
BreakoutFails(f) ==
  /\ fanout[f].pc = "breakout" /\ fanout' = Finish(f, "failed")
  /\ IF Breakable(fanout[f].target) THEN SpendFault("breakout") ELSE UNCHANGED spent
  /\ UNCHANGED <<mode, valid, ifs, laser, events, boot, remover, monitor, history>>

PortAppears(l) ==
  /\ l \in LanesOf(mode) \ valid /\ valid' = valid \cup {l}
  /\ UNCHANGED <<mode, ifs, laser, events, fanout, boot, remover, monitor, history, spent>>

WaitForPorts(f, n) ==
  /\ fanout[f].pc = "wait" /\ Cardinality(valid) >= n
  /\ fanout' = [fanout EXCEPT ![f].pc = "make", ![f].listing = [lane : valid, sub : {0}]]
  /\ history' = [history EXCEPT !.late = @ \ {f}]
  /\ UNCHANGED <<mode, valid, ifs, laser, events, boot, remover, monitor, spent>>

(* Mutants of Wait: it does not wait for all ports; it waits for the four  *)
(* of a breakout when it breaks in.                                        *)
WaitForOne(f) == WaitForPorts(f, 1)
WaitForAll(f) == WaitForPorts(f, Cardinality(Lanes))

(* It looks every second until there are enough ports, one to break in.    *)
Wait(f) == WaitForPorts(f, Cardinality(LanesOf(fanout[f].target)))

(* One name at a time, each of the mode its port has then; to break in,    *)
(* the first port's only.                                                  *)
Make(f) ==
  /\ fanout[f].pc = "make"
  /\ \E i \in fanout[f].listing :
       LET rest == IF fanout[f].target = "whole" THEN {} ELSE fanout[f].listing \ {i}
       IN /\ fanout' = [fanout EXCEPT ![f].todo = Append(@, ItemOf(i.lane)), ![f].listing = rest,
                          ![f].pc = IF rest = {} THEN "create" ELSE "make"]
          /\ NameMade(f, i.lane, history.late)
  /\ UNCHANGED <<mode, valid, ifs, laser, events, boot, remover, monitor, spent>>

(* One transaction, which ends at the first creation that fails. *)
CreateNew(f) ==
  /\ fanout[f].pc = "create"
  /\ LET i == Head(fanout[f].todo)
         rest == Tail(fanout[f].todo)
     IN \/ /\ Creates(f, i)
           /\ fanout' = IF rest = <<>> THEN Finish(f, "created")
                        ELSE [fanout EXCEPT ![f].todo = rest]
        \/ CreateFails(f, i) /\ fanout' = Finish(f, "failed")
  /\ UNCHANGED <<mode, valid, laser, events, boot, remover, monitor>>
-----------------------------------------------------------------------------
(* base_nas_create_interface.py. *)

BootPorts ==
  /\ boot.pc = "idle" /\ valid # {} /\ Spend("others")
  /\ \E found \in Orders(valid) : boot' = [boot EXCEPT !.pc = "listing", !.lanes = found]
  /\ UNCHANGED <<mode, valid, ifs, laser, events, fanout, remover, monitor, history>>

BootListing ==
  /\ boot.pc = "listing"
  /\ boot' = [boot EXCEPT !.pc = "make", !.listing = {i.sub : i \in Listing}]
  /\ UNCHANGED <<mode, valid, ifs, laser, events, fanout, remover, monitor, history, spent>>

(* An interface that was listed is not created. *)
BootMake ==
  /\ boot.pc = "make"
  /\ boot' = IF boot.lanes = <<>> THEN BootDone
             ELSE LET i == ItemOf(Head(boot.lanes))
                  IN IF i.sub \in boot.listing THEN [boot EXCEPT !.lanes = Tail(@)]
                     ELSE [boot EXCEPT !.lanes = Tail(@), !.pc = "create", !.item = i]
  /\ IF boot.lanes = <<>> THEN UNCHANGED history
     ELSE NameMade("boot", Head(boot.lanes), history.late \ {"boot"})
  /\ UNCHANGED <<mode, valid, ifs, laser, events, fanout, remover, monitor, spent>>

(* The result of the transaction is not looked at. *)
BootCreate ==
  /\ boot.pc = "create" /\ boot' = [boot EXCEPT !.pc = "make", !.item = BootDone.item]
  /\ Creates("boot", boot.item) \/ CreateFails("boot", boot.item)
  /\ UNCHANGED <<mode, valid, laser, events, fanout, remover, monitor>>
-----------------------------------------------------------------------------
(* Admin states: _set_attr_up, or the kernel's change, announced. *)

Admin(l, v) ==
  /\ ifs' = [ifs EXCEPT ![l].enabled = v] /\ events' = Append(events, ifs[l].index)
  /\ history' = [history EXCEPT !.told = @ \cup {ifs[l].index}]

SetAdmin(l, v) ==
  /\ ifs[l].listed /\ Spend("others") /\ Admin(l, v)
  /\ UNCHANGED <<mode, valid, laser, fanout, boot, remover, monitor>>
-----------------------------------------------------------------------------
(* nas_delete_interface.py: it reads the interface, sets it down, deletes  *)
(* it.                                                                     *)

RemoveStart(l) ==
  /\ remover.pc = "idle" /\ ifs[l].listed /\ Spend("others")
  /\ remover' = [pc |-> "down", name |-> [lane |-> l, sub |-> ifs[l].sub], index |-> ifs[l].index]
  /\ UNCHANGED <<mode, valid, ifs, laser, events, fanout, boot, monitor, history>>

(* if_data_from_obj: by ifindex, or else by name, or else by port. *)
FoundFor(r) ==
  LET indexed == {l \in Lanes : ifs[l].listed /\ ifs[l].index = r.index}
      on == {l \in {r.name.lane} : ifs[l].listed}
  IN IF indexed # {} THEN indexed ELSE IF Named(r.name) # {} THEN Named(r.name) ELSE on

RemoveDown ==
  /\ remover.pc = "down"
  /\ IF FoundFor(remover) = {}
     THEN remover' = Removed /\ UNCHANGED <<ifs, events, history>>
     ELSE remover' = [remover EXCEPT !.pc = "delete"] /\ \E l \in FoundFor(remover) : Admin(l, FALSE)
  /\ UNCHANGED <<mode, valid, laser, fanout, boot, monitor, spent>>

RemoveDelete ==
  /\ remover.pc = "delete" /\ remover' = Removed
  /\ Deletes(FoundFor(remover)) \/ DeleteFails(FoundFor(remover))
  /\ history' = [history EXCEPT !.undisturbed = {}]
  /\ UNCHANGED <<mode, valid, laser, events, fanout, boot, monitor>>
-----------------------------------------------------------------------------
(* The interface thread: monitor_interface_event, set_media_transceiver.   *)
(* What it fails to read ends the event.                                   *)

MonitorTake ==
  /\ monitor.pc = "wait" /\ events # <<>> /\ events' = Tail(events)
  /\ LET found == {l \in Lanes : ifs[l].listed /\ ifs[l].index = Head(events)}
     IN IF found = {} THEN UNCHANGED monitor
        ELSE \E l \in found : monitor' = [monitor EXCEPT !.pc = "mode", !.lane = l,
                                                        !.enable = ifs[l].enabled]
  /\ UNCHANGED <<mode, valid, ifs, laser, fanout, boot, remover, history, spent>>

MonitorMode ==
  /\ monitor.pc = "mode"
  /\ monitor' = IF monitor.lane \notin valid THEN Waiting
                ELSE [monitor EXCEPT !.pc = "transceiver", !.all = (mode = "whole")]
  /\ UNCHANGED <<mode, valid, ifs, laser, events, fanout, boot, remover, history, spent>>

(* Mutant of MonitorTransceiver: changes that came while it was at work    *)
(* are taken for the one it made.                                          *)
MonitorTransceiverDrops ==
  /\ monitor.pc = "transceiver" /\ monitor' = Waiting
  /\ laser' = [l \in Lanes |-> IF monitor.all \/ l = monitor.lane THEN monitor.enable ELSE laser[l]]
  /\ events' = <<>>
  /\ UNCHANGED <<mode, valid, ifs, fanout, boot, remover, history, spent>>

MonitorTransceiver ==
  /\ monitor.pc = "transceiver" /\ monitor' = Waiting
  /\ laser' = [l \in Lanes |-> IF monitor.all \/ l = monitor.lane THEN monitor.enable ELSE laser[l]]
  /\ UNCHANGED <<mode, valid, ifs, events, fanout, boot, remover, history, spent>>
-----------------------------------------------------------------------------
ScriptStep(f) ==
  \/ ReadPorts(f) \/ DeleteOld(f) \/ Breakout(f) \/ BreakoutFails(f)
  \/ Wait(f) \/ Make(f) \/ CreateNew(f)

Next ==
  \/ \E f \in Fanouts : ScriptStep(f) \/ \E m \in Modes : Start(f, m)
  \/ BootPorts \/ BootListing \/ BootMake \/ BootCreate
  \/ RemoveDown \/ RemoveDelete
  \/ MonitorTake \/ MonitorMode \/ MonitorTransceiver
  \/ \E l \in Lanes : PortAppears(l) \/ RemoveStart(l) \/ \E v \in BOOLEAN : SetAdmin(l, v)

Spec == Init /\ [][Next]_vars

(* A script that was started goes on; the ports of a breakout appear. *)
Fairness ==
  /\ \A f \in Fanouts : WF_vars(ScriptStep(f))
  /\ \A l \in Lanes : WF_vars(PortAppears(l))

LiveSpec == Spec /\ Fairness
-----------------------------------------------------------------------------
(* Properties. *)

(* Every variable keeps its type. *)
TypeOK ==
  /\ mode \in Modes /\ valid \subseteq LanesOf(mode)
  /\ ifs \in [Lanes -> Interface] /\ laser \in [Lanes -> BOOLEAN] /\ events \in Seq(Nat)
  /\ fanout \in [Fanouts -> Script] /\ boot \in Boot /\ remover \in Remover
  /\ monitor \in Monitor /\ history \in History
  /\ spent \in [{"runs", "others", "creates", "faults"} -> Nat]

Fits(l) == ifs[l].listed /\ ifs[l].sub = SubOf(mode, l)

(* An interface is on a lane of the breakout mode and has the name the     *)
(* mode gives it, whichever scripts ran at once (sonic-config-fanout       *)
(* deletes the old interfaces first and names the new ones by the new      *)
(* ports).  Left out are the interfaces a breakout found there, and those  *)
(* of a script that made a name before the breakout or while its port was  *)
(* gone, which may have names of the other mode.                           *)
InterfacesFitPorts ==
  \A l \in Lanes : ifs[l].exists /\ ifs[l].index \notin history.left =>
    l \in LanesOf(mode) /\ ifs[l].sub = SubOf(mode, l)

(* "Successfully created interfaces..." (sonic-config-fanout): every port  *)
(* of the mode has its interface, until another program deletes one or     *)
(* breaks the port out or in.                                              *)
CreatedMeansInterfaces ==
  \A f \in history.undisturbed : fanout[f].result = "created" =>
    mode = fanout[f].target /\ \A l \in LanesOf(mode) : Fits(l)

(* Once the admin changes are taken, the transceiver's lanes of an         *)
(* interface whose admin state was announced are as its admin state, all   *)
(* lanes in 1x1 mode, although the thread reads the interface, reads the   *)
(* mode and sets the lanes one after the other and the admin state may     *)
(* change in between (set_media_transceiver).                              *)
LaserFollowsAdmin ==
  monitor.pc = "wait" /\ events = <<>> =>
    \A l \in Lanes : Fits(l) /\ ifs[l].index \in history.told \ history.left =>
      \A k \in (IF mode = "whole" THEN Lanes ELSE {l}) : laser[k] = ifs[l].enabled

(* A run of sonic-config-fanout ends, unless it waits for ports that       *)
(* another run has taken away.                                             *)
RunsEnd ==
  \A f \in Fanouts : fanout[f].pc # "idle" ~>
    fanout[f].pc = "idle" \/ (fanout[f].pc = "wait" /\ mode # fanout[f].target)
=============================================================================
