# TLA+ models of the SONiC NAS interface daemon

The daemon keeps three views of the switch in step: the Linux kernel (taps,
bonds, bridges), the NPU, and its own tables. Clients configure it through CPS
objects; other programs configure the kernel behind its back, and the daemon
learns of that from kernel events. The modules here model the code that keeps
the views together, with the kernel and the NPU as the code uses them.

Paths are those of the repository, prefixed with `src/`: the daemon's sources
are under `src/src`, its headers under `src/sonic`, the commands and services
written in Python under `src/scripts`.

## 1. The system

### Threads and locks

| thread | what it runs | locks |
|---|---|---|
| CPS operation thread (`nas_int_main.cpp:115`, one) | every request | `lag_lock` or `br_lock` for a whole request |
| CPS event thread (`nas_int_main.cpp:110`) | `nas_int_ev_handler_cb`: kernel events, in order; the LAG events the daemon itself publishes | `lag_lock` or `br_lock` for a whole handler; none in `nas_vlan_lag_event_func_cb` |
| NDI callback thread | `hw_link_state_cb`: link changes | `lag_lock`, `ports_lock` |
| NDI receive callback | packets from the NPU to a tap | `ports_lock`, released before the write |
| packet I/O thread | packets from the taps to the NPU | `ports_lock` (read), not while it waits |
| `base_nas_monitor_phy_media.py` (a process with two threads) | media types from PAS to the daemon; transceiver lanes | none |
| `base_nas_front_panel_ports.py` (a process) | front panel ports and breakout requests | one request at a time |
| `sonic-config-fanout`, `base_nas_create_interface.py`, `nas_delete_interface.py` | each a process per run | none |

### Components

| component | state | operations | models |
|---|---|---|---|
| LAG manager (`lag/`) | master and slave tables, NPU LAG and member objects | create, delete, set (members, block, unblock), kernel event, link callback | `LagTable`, `NasLag`, `NasLagProofs` |
| VLAN manager (`nas_int_bridge.cpp`, `nas_int_vlan.cpp`, `nas_vlan_cps.cpp`, `nas_int_list.c`) | bridge table with two port lists and a LAG list per bridge, NPU VLANs | create, delete, set, kernel event of a bridge or a member | `NasVlan` (physical ports), `NasVlanProofs`, `NasVlanLag` (LAGs) |
| LAGs in VLANs (`nas_vlan_lag_api.cpp`) | members and VLAN ids of each LAG | fed by published LAG events; called by the VLAN manager | `NasVlanLag`, `NasVlanLagProofs` |
| ports and taps (`port/nas_int_port.cpp`, `swp_util_tap.c`) | port table, tap descriptors | create, delete, link change, send, wait | `NasPort`, `NasPortProofs` |
| logical ports (`port/nas_int_logical_cps.cpp`) | interface modes; alias in the kernel for reload | create, delete, set with roll-back, reload, link callback | `NasPort`; `NasPortAttr` (set), `NasPortAttrProofs` |
| kernel event dispatch (`nas_int_ev_handlers.cpp`) | none | one handler per interface type | `NasLag`, `NasVlan`, `NasVlanLag`, `NasPortAttr` |
| physical ports, media, breakout (`port/nas_int_physical_cps.cpp`, `nas_int_breakout.cpp`) | cache of media type and loopback by hardware port | set, breakout | `NasMedia`, `NasMediaProofs`, `NasFanout`, `NasFanoutProofs` |
| packet I/O, packet meta-data, sFlow (`packet_io.c`, `nas_packet_meta.c`) | counters, socket addresses | receive, transmit | the two loops in `NasPort` |
| common objects, plugins, database handlers | handler registry | dispatch by interface type | no |
| statistics | none | read and clear counters | no |
| media monitor (`base_nas_monitor_phy_media.py`, `nas_phy_media.py`) | none | media type of a port, transceiver lanes | `NasMedia`, `NasFanout` |
| breakout and interface scripts | none | break out and in, create and delete interfaces | `NasFanout` |
| other scripts, packaging, sos plugin, tests | - | CPS clients | no |

### How they interact, and what is hard

* A CPS request changes the kernel first (LAG and VLAN creation, adding a
  member) or the NPU first (removing a member). The kernel reports each change
  as an event that the event thread handles later, when the tables may have
  moved on: every handler has to be idempotent, and stale events have to be
  harmless in the end.
* Every call can fail half way through a handler; there is nearly no roll-back.
  What must survive is that the daemon can still reach what it put in the NPU.
* Link callbacks and member events come on different threads. Both set the
  block state of a LAG member.
* The VLAN manager learns of LAG members only from what the LAG manager
  publishes: a change that is not published is never programmed.
* A tap is open only while its port is up. The packet threads use descriptor
  numbers after they gave up `ports_lock`, and the kernel gives a closed number
  to the next tap. A creation reads the link state and applies it later, while
  the link callback may run; after a restart, changes are lost until the
  callback is registered.
* A bridge made by another program has no VLAN id until its first tagged
  member; untagged members are stored and programmed then.
* `lag_list` is changed by LAG events without `br_lock`, under the CPS request
  that walks it.
* An attribute is set in the kernel and then in the NPU by the CPS thread, and
  copied from the kernel to the NPU by the event thread; both put the kernel
  back when the NPU refuses, and both announce the admin state, with no lock.
* A breakout replaces ports while scripts, the media monitor and the cache of
  media types still speak of the old ones. The scripts are processes that read,
  decide and request in separate calls, without a transaction across them.

`PROJECT.json` lists the hazards line by line with the properties that cover
them, and says of the others why none does yet.

### What makes each component correct

* LAG manager: NPU, slave table and port lists are one relation; a port is in at
  most one LAG and changes LAG only by leaving the first; once nothing is
  pending the tables are the kernel's and every member was published; a member
  passes traffic only while its link is up, unless a client said otherwise; an
  attached port gets to the NPU.
* VLAN manager: everything in the NPU belongs to a listed member of a bridge
  with that VLAN id; once nothing is pending lists, kernel, NPU and subscribers
  agree; one bridge per VLAN id; stale events do no harm.
* LAGs in VLANs: the members `lag_list` has of a LAG are in exactly the VLANs the LAG
  is in; it ends as what was published of the LAG manager's table, and has a port in
  two LAGs only where a change was not published.
* Attributes: once nothing is pending kernel and NPU agree and the last
  announcement is true; the two threads come to rest; an acknowledged request
  is in place.
* Media: a port ends with the type PAS has; what the cache says is so; a
  loopback stays until another is asked for.
* Breakout: an interface sits on a lane of the mode and has the mode's name; a
  run that reports success leaves every port its interface; every run ends; the
  transceiver's lanes follow the admin state.
* Ports: port table, tap descriptors, `tap_fds` and the kernel agree; the tap of
  a port is up as its NPU link is; packets go to the tap of their port and come
  from it; the packet thread does not hold the lock for long; after a restart
  the ports are back.

## 2. The modules

**LagTable** is what the LAG manager promises: a set of LAGs and a member
function, changed by `Add`, `Join`, `Leave` and `Remove`.

**NasLag** is the LAG manager. The record `nas` holds the master table
(`masters`, `ports`), the slave table (`slave`), the registry, what was
published last, the NPU objects (`npuLags`, `npuMember`, `egress`) and two
history fields: `manual` has the ports a client blocked or unblocked, `stripped`
the LAGs that lost a member to an event of another LAG and were not published
since. `MasterAdd`, `MemberAdd`, `MemberDelete`,
`MasterDelete`, `BlockByLink` and `Publish` are the functions of
`nas_int_lag_api.cpp` on that record, with an argument `f` naming the call that
fails. The kernel is `bonds`, `kmaster`, `allocated` and the event `queue`.

| code | action |
|---|---|
| `nas_cps_create_lag` | `CpsCreateKnown`, `CpsCreateNew` |
| `nas_cps_set_lag` | `CpsSet`, `CpsAddPort`, `CpsDeletePort`, `CpsFinish` |
| `nas_cps_delete_lag` | `CpsDelete` |
| `nas_lag_ev_handler` | `LagEvent` |
| `nas_lag_port_oper_state_cb` | `LinkEvent` |
| other programs, cables | `OtherCreate`, `OtherDelete`, `OtherEnslave`, `OtherRelease`, `LinkChange` |

A kernel event and a link callback are one step each, since the handler holds
`lag_lock`. A request is one step per member port, since other programs share
the kernel it calls; `cps.pc = "ports"` is `lag_lock` held meanwhile.

**NasVlan** is the VLAN manager for physical ports, laid out the same way: the
record `nas` is the bridge table, registry, subscribers' view (`seen`) and NPU;
a request is one step per port (`cps.work`), an event one step. `alive` becomes
FALSE when the event thread uses a null bridge.

| code | action |
|---|---|
| `nas_cps_create_vlan`, `nas_cps_set_vlan`, `nas_cps_delete_vlan` | `CpsCreate`, `CpsSet`, `CpsDelete` |
| `nas_cps_add_port_to_vlan`, `nas_cps_del_port_from_vlan` | `CpsAddPort`, `CpsDelPort` |
| `nas_bridge_ev_handler`, `nas_vlan_ev_handler` | `VlanEvent`, `VlanEventCrash` |
| other programs | `OtherCreate`, `OtherDelete`, `OtherJoin`, `OtherLeave` |

**NasPort** is the port table with its taps. The record `nas` is the table
(`used`, `up`, `fd`), `tap_fds`, the registry, and in the kernel the tap
interfaces, their aliases, the tap each open descriptor is of (`file`) and the
packets waiting in it. `npuUp` and `events` are the links in the NPU and the
callbacks to come. A step is what one thread does under one acquisition of
`ports_lock`, or between two of them: a creation is `job`, the callback `cb`,
the packet thread `wait` and the receive callback `send`. `wait.pc = "read"` is
the lock held for reading, when no one can write the table.

| code | action |
|---|---|
| `if_set`, `_if_create` | `RequestCreate`, `JobGetLink`, `JobSetLink`, `JobFinish` |
| `_if_delete` | `RequestDelete` |
| `hw_link_state_cb`, `nas_int_oper_state_cb` | `CallbackLookup`, `CallbackApply` |
| `nas_int_logical_init`, `resync_with_os` | `Reload` (and the `Job` actions), `RegisterHandlers`, `RegisterCallback` |
| `hal_virtual_interface_wait` | `WaitCopy`, `WaitSelect`, `WaitPick`, `WaitRead` |
| `hal_virtual_interace_send` | `SendLookup`, `SendWrite` |
| cables, the kernel's traffic, the end of the daemon | `LinkChange`, `FrameOut`, `Restart` |

Three history variables serve the properties: `excused` has the ports whose tap
may differ from the link for a named reason until the link changes again, and
`granted` the ports a client was told exist, by the answer OK to their creation:
also those whose alias could not be set, which `_if_create` does not look at, and
those of before a restart whose reload found nothing. The history variable `lost`
names the granted ports that a failed call keeps from coming back, apart from
them. The fields `gone` note which of the numbers a packet thread holds were
closed meanwhile.

**NasVlanLag** joins three parts. The LAG manager is in it in short: its table
(`lags`, `member`) and what it publishes (`pubs`), which is not every change. The
event of a member that left takes the port out of the LAG the slave table has and
publishes the LAG of the event, so that `LagLeave` has both; a set request
publishes at its end, or not at all when a port after the first failed
(`LagRequest`). That the creation or the deletion of a LAG fails half way, what a
failing call leaves in the NPU, and that tables and kernel are one relation is
`NasLag`'s subject and left to it. The record `nas` is `lag_list` (`entries`,
`mem`, `vlans`), the bridge table as far as LAGs are concerned (`known`, `vid`,
`stored`) and the LAGs' ports in the NPU's VLANs. A kernel event is one step; a
request, which holds `br_lock`, is one step per member port, and a LAG event may
come in between: `cps.raced` says that it changed the list being walked, after
which the walk may end anywhere, program a port that left, or take the daemon down
(`CpsWalkCrash`). `history` has the ids a walk may have missed (`torn`), those of
LAGs deleted with members (`orphaned`), the ids a LAG keeps of a deleted VLAN
(`stale`), and the bridges and LAGs of which a kernel event was lost (`lost`) or
misread (`misread`: the id of a LAG's interface that stays is erased when another
one leaves the bridge, and the first tagged member of a bridge does not bring the
LAG its id when the NPU has that VLAN already). Four more fields follow the
publications: what has been published so far (`published`), the LAGs whose members
changed since (`unpublished`), the ports that left a LAG without its list being
published (`silent`) and those that `lag_list` has had in two LAGs (`doubled`):
when such a port leaves the first LAG it is taken from VLANs that the second is in
too.

| code | action |
|---|---|
| `nas_vlan_lag_event_func_cb`, `nas_process_lag_mem_updates_for_vlan` | `LagEvent` |
| `nas_cps_create_vlan`, `nas_cps_set_vlan`, `nas_cps_delete_vlan` | `CpsCreate`, `CpsSet`, `CpsDelete` |
| `nas_handle_lag_update_for_vlan`, `nas_add_or_del_lag_in_vlan` for a request | `CpsSkip`, `CpsBegin`, `CpsWalk`, `CpsEnd`, `CpsWalkCrash` |
| `nas_bridge_ev_handler`, `nas_vlan_ev_handler` | `VlanEvent`, `VlanEventCrash` |
| `nas_lag_ev_handler` | `LagAdd`, `LagJoin`, `LagLeave`, `LagRemove` |
| `nas_cps_create_lag`, `nas_cps_set_lag`, `nas_cps_delete_lag` | `LagAdd`, `LagRequest`, `LagRemove` |
| other programs | `OtherCreate`, `OtherDelete`, `OtherJoin`, `OtherLeave`, `BondGone` |

**NasPortAttr** is one front panel port with its network device (`kernel`), its
NPU port (`npu`), the registered ifindex (`known`) and the two threads that set
attributes (`cps`, `event`). Each call to the kernel, the NPU or the event
service is a step. Of the attributes the admin state and the MTU are in kernel
and NPU, the learning mode in both but set by requests only, `mac` in the kernel,
`phy` (speed, duplex, autonegotiation, tagging) in the NPU, `mode` in the daemon.

| code | action |
|---|---|
| `_if_create`, `_if_update`, `remove_same_values` | `Create`, `Register`, `Set`, `Read`, `End` |
| `_set_attr_up`, `_set_attr_mtu`, `_set_attr_mac` | `SetKernel`, `Follow`, `FollowRefused`, `Revert`, `AnnounceSet` |
| `_set_mac_learn_mode`, `_set_attr_speed` and the like, `_set_attr_mode` | `SetNpu`, `SetNpuRefused`, `SetLearning`, `SetMode` |
| `_if_delete` | `Delete`, `ShutDown` |
| `nas_int_ev_handler` | `Take`, `Compare`, `CopyAdmin`, `AnnounceCopy`, `CopyMtu`, `CopyMtuRefused`, `PutBack` |
| other programs | `OtherSet` |

**NasMedia** is one front panel port: the type PAS has (`pas`), the NPU's port of
each hardware lane, the daemon's `cache`, and the two threads of the media
monitor. A request is one step, since the daemon has one CPS thread; what a
script reads, takes and sends is a step each.

| code | action |
|---|---|
| `_phy_set`, `_phy_media_type_with_default_config_set` | `PhySet` in `MediaSend`, `MonitorSend`, `SetLoopback` |
| `if_breakout`, `_ndi_port_event_update_` | `Breakout`, `PortAppears` |
| `init_nas_media_info`, `monitor_phy_media`, `set_media_info` | `MediaList`, `MediaRegister`, `MediaTake`, `MediaFind` |
| `monitor_interface_event`, `set_media_type_on_port_create` | `MonitorStart`, `MonitorTake`, `MonitorPas` |
| the platform | `PasChanges` |

**NasFanout** is the same port seen by the scripts: the breakout mode, the lanes
that have a port, the interface of each, and the processes. Each call of a script is a
step: `Make` reads the hardware port for one name, so that a breakout may come between
two names of one run. A script whose names were made across a breakout, or without the
port, is in `history.late`; an interface that a breakout finds is in `history.left`.

| code | action |
|---|---|
| `sonic-config-fanout` | `Start`, `ReadPorts`, `DeleteOld`, `Breakout`, `BreakoutFails`, `Wait`, `Make`, `CreateNew` |
| `base_nas_create_interface.py` | `BootPorts`, `BootListing`, `BootMake`, `BootCreate` |
| `nas_delete_interface.py` | `RemoveStart`, `RemoveDown`, `RemoveDelete` |
| `set_media_transceiver` of the monitor | `MonitorTake`, `MonitorMode`, `MonitorTransceiver` |
| `make_interface_from_phy_port`, `set_intf_cb`, `set_cb` | `ItemOf`, `Free`, `Breakable` |
| clients, the NPU | `SetAdmin`, `PortAppears` |

The variable `history` of these modules names, member by member, the cases in
which the code leaves two parts apart; a property excuses those and nothing
else, and the definition says at which step of the code each case arises.

The **MC** modules are the instances for TLC. The operators marked
as mutants in the modules are what the definition below them would be with a
plausible mistake; each makes TLC find a property violated.

### Assumptions on what is not in the repository

* NPU: refuses a port that is in a LAG already and a member of a LAG that is
  gone; may refuse to delete a LAG with members or drop the members with it;
  refuses to touch a VLAN it does not have; drops the members of a deleted VLAN;
  keeps tagged and untagged members apart; has VLAN 1 from the start.
* Kernel: never uses an ifindex again; reports changes in order and loses none;
  reports that members leave before it reports the deletion of their bond or
  bridge; moves an enslaved port as a release and an attachment; has no tagged
  interface without VLAN id. Bond events carry the admin status.
* The registry knows every physical port.
* Taps: the kernel may give any free number to a descriptor, drops what waits in
  a tap that is closed, and keeps the interfaces and their aliases when the
  daemon ends. Port names and ports are one to one, creating a tap interface
  does not fail, and no signal interrupts `select`. The NDI reports the changes
  of links in order. Each tap has one queue (`MAX_QUEUE`), one NPU.
* Attributes: the kernel reports a device with its admin state and MTU whenever
  one of its attributes changes, in order; it does not report the deletion of a
  tap as a change of its attributes.
* Ports are listed in any order.
* Breakout: the ports of the old mode go at once, those of the new one come one
  by one, and a lane keeps its hardware number. The kernel refuses a second tap
  of a name. PAS reports each change of a media type to those registered.

## 3. The runs

| run | shows | bounds |
|---|---|---|
| `lag_faults` | types; no NPU object out of reach; tables and NPU one relation; refinement of `LagTable`, whichever calls fail | 2 ports, 2 LAGs, 3 requests, 2 failing calls of any kind |
| `lag_follow` | tables follow the kernel, every member was published, block states follow the links | 2 ports, 2 LAGs, 3 requests with block lists, 1 change by another program, 1 link change |
| `lag_live` | an attachment reaches the NPU | 2 ports, 2 incarnations of one name, 3 requests, 1 change by another program |
| `vlan_main` | types; NPU accounted for under failures; lists, kernel, NPU and subscribers agree without | 2 ports, 2 bridges (one with VLAN 1), 3 requests, 1 change by another program, 1 failing call |
| `vlan_unknown` | violation: an event for an unknown bridge | 2 requests, 1 change by another program |
| `port_main` | types; table, taps and descriptors agree; taps follow links; ports that clients were told of come back, but for three failures; packets keep to the tap of their port; a read under the lock finds a packet | 2 ports, 2 descriptor numbers, 3 requests, 3 link changes, 2 packets, 2 restarts, 1 failing call of any kind |
| `vlanlag_main` | types; members are in the LAG's VLANs and in no others; the VLAN ids follow the kernel | 1 LAG, 2 ports, 2 bridges that may get the same VLAN id, 2 member events or set requests, 2 requests for VLANs, 1 change by another program |
| `vlanlag_two` | the copy follows what is published; a port is in two LAGs of it only after a change that was not; no port is in the VLAN without a LAG of its own there | 2 LAGs, 2 ports, 1 bridge, 3 member events or set requests, 1 request that puts the LAGs in the VLAN, tagged or untagged |
| `attr_main` | types; kernel and NPU agree; announcements are true; acknowledged requests are in place; the threads come to rest | 2 interfaces one after the other, 1 set or deletion, 1 change by another program, 1 failing call, the NPU may refuse "up" and the big MTU every time, and a speed |
| `attr_deleted` | violation: a deleted interface leaves its port up | 2 interfaces one after the other, 2 sets or deletions |
| `media_main` | types; ports follow PAS; the cache is true; a loopback stays | 2 lanes, 3 media types (1 without default settings), 2 changes at PAS, 1 breakout, 1 loopback request, 1 failing call |
| `fanout_main` | types; interfaces fit the ports; a success means interfaces; lanes follow the admin state although it changes while they are set; every run ends | 2 lanes, 3 pieces of work: up to 2 concurrent `sonic-config-fanout` (out or in), the others runs of `base_nas_create_interface.py` or `nas_delete_interface.py` or changes of an admin state; 1 failing call |

The passing runs have between 200 thousand and 4 million distinct states.

Three requests are a create, a change and a delete, or two LAGs that compete for a
port; two LAGs and two ports let a stale event name the wrong LAG and a deletion
touch the wrong member. Two failing calls in `lag_faults` make a failure meet the
remains of an earlier one; elsewhere one is enough to stop a handler at each of
its calls. One external change is enough to put an event between the steps of a
request. Two ports and two descriptor numbers let one tap get the number another
had; three link changes close one tap and open the other with a change to spare; a
second restart brings back what the first could not read. In `vlanlag_main` two
table changes make a port join and leave, or let one join while the other does,
around a walk. In `vlanlag_two` three changes take a port out of one LAG, by its
own event, by that of the other LAG or by a request that fails, put it into the
other and tell it or another port of something else; the request gives both LAGs
the VLAN, so that the list of one is about ports that are in it for the other. It
has one request, so that a walk which removes a LAG from its VLAN while two exist
is not among what it explores, and neither run of `NasVlanLag` has failing calls
in the VLAN manager; the theorems cover both. In `attr_main` the second interface
meets what the first left in the NPU and in the queue. In `media_main` two changes
at PAS overtake each other on the two threads, and the breakout gives a lane a new
port under an old cache entry. In `fanout_main` three pieces of work are two runs
and what comes in between, or a run and two admin changes, the second of which
falls between the thread's reading the interface and its setting the lanes. Two
lanes are as good as four: lane 1 is the control port, the other is not.

Ports (LAGs, bridges, descriptor numbers) are interchangeable in the runs with
SYMMETRY, which check safety only. The runs do not check for deadlock: all inputs
are bounded, and a daemon with nothing to do rests.

Fairness:

* `FairSpec` (`lag_live`): the CPS thread goes on with the request it serves, and
  the event and callback threads keep taking `lag_lock`, each under weak
  fairness. The lock is free whenever the CPS thread is idle, and requests are
  bounded, so weak fairness is enough.
* `LiveSpec` of `NasPortAttr` (`attr_main`): both threads go on. Neither waits for
  the other.
* `LiveSpec` of `NasFanout` (`fanout_main`): a script that was started goes on, and
  the NDI reports each port of a breakout. The scripts wait by polling.

Clients, cables and other programs owe nothing.

### Disagreements

`vlan_unknown` and `attr_deleted` check what the repository says and the code does
not do; `PROJECT.json` quotes the lines. The models have these other cases too;
the properties name them as exceptions, and each was seen in a trace:

* an empty list of member ports clears nothing (`nas_int_lag_cps.cpp:546`), and a
  change of a list that fails half way is not published (`nas_int_lag_cps.cpp:584`);
* a port that left a LAG stays in the list published for it. "Publish the Lag event
  with portlist in case of member addition/deletion" says
  `nas_int_ev_handlers.cpp:222`, but `nas_lag_member_delete` takes the port out of the
  LAG the slave table has (`nas_int_lag_api.cpp:241`) and the handler publishes the LAG
  of the event. They differ when another program moved the port and it was moved back
  before the events were handled: the LAG the port was taken from is not published.
  The proof of `PublishedIsCurrent` brought this up, which names such a LAG with
  `stripped` and asks of it that no member is missing. The VLAN manager may then have the
  port in two LAGs (`PortsApart`), and take it out of a VLAN that the second is in
  (`history.doubled`);
* a port whose alias could not be set is answered OK and not there after the next start
  (`nas_int_logical_cps.cpp:782`, `853`);
* two bridges get the same VLAN id from kernel events (`nas_int_vlan.cpp:592`), and
  a stored port that left stays listed (`nas_int_vlan.cpp:324`);
* a packet is handed to the tap that got the descriptor number
  (`nas_int_port.cpp:299`);
* the default settings of a media type are not set for the ports of a breakout,
  because the cache has the type (`nas_int_physical_cps.cpp:292`);
* the admin state announced after a refusal is the one asked for
  (`nas_int_logical_cps.cpp:579`);
* a LAG that is tagged and untagged in one VLAN and leaves one of the two loses
  the tagged id (`nas_vlan_lag_api.cpp:452`).

## 4. What is proved

`NasLagProofs` proves with TLAPS, for every finite set of ports, any LAGs,
requests and bounds, and any set of failing calls:

* `TypeCorrect`: `Spec => []TypeOK`
* `NothingOrphaned`: `Spec => []NoNpuOrphans`
* `TablesStayInStep`: `Spec => []TablesAgree`
* `Implementation`: `Spec => ImplementsTable`

The inductive invariant `IInv` is `TableInv(nas)` with the types of the other
variables. `TableInv` needs all of its three parts at once: that
`MemberDelete` removes the port from the right list needs the slave table and
the NPU to agree (`OrphanFree`); that `MasterErase` clears the whole relation
needs the list and the slave table to agree (`Agree`), which in turn holds after
a failed deletion only because the NPU object is gone then. Each function of
`nas_int_lag_api.cpp` is shown to keep `TableInv` for every failing call, hence
each handler, hence each action. For the refinement every handler is shown to
change the NPU state as one action of `LagTable`, or not at all, and `TableInv`
turns the NPU state into the mapped one.

`NasLagFollowProofs` proves for the same, with no call failing:

* `KernelFollowed`: `Spec => []FollowsKernel`
* `ListsPublished`: `Spec => []PublishedIsCurrent`
* `NoStaleBlock`: `Spec => []BlockFollowsLink`

These speak of the moment when nothing is pending, so the invariant `FInv` has to say
what is pending whenever kernel, tables, lists or links differ. `KernelInv` is about
the kernel's queue alone: the events of a port alternate between leaving and joining,
beginning and ending with what the tables and the kernel have, and the last event
about a bond that is gone is its deletion. `Follow`, `Blocks` and `Public` give, for
each difference, the event, the link report or the step of the request that mends it.
A stale event may make the tables differ more than before (a deletion takes the port
out of the LAG it is in by now); what mends that is shown to be further behind in the
queue. Each operation on the kernel extends the queue in the one way `Grows` names,
and each handler is summarised once (`Handled`, `Shows`), so that the proofs about
sequences are separate from those about the handlers. The invariant speaks of the
states in which no call has failed (`spent.faults = 0`): there is no retry, and after a
failure the difference stays.

`NasPortProofs` proves, for any ports, descriptor numbers and bounds, any set of
failing calls and any number of restarts:

* `TypeCorrect`: `Spec => []TypeOK`
* `TapsAgree`: `Spec => []DescriptorsAgree`
* `ComeBack`: `Spec => []PortsComeBack`
* `ReadsFromOwnTap`: `Spec => []FramesFromOwnTap`
* `WritesToOwnTap`: `Spec => []FramesToOwnTap`
* `NoWaitingRead`: `Spec => []ReadsDoNotWait`
* `TapsFollow`: `Spec => []TapsFollowLinks`

Its `IInv` has one part per thread. `TableInv(nas)` is the agreement of table,
taps, `tap_fds` and kernel; each function of `nas_int_port.cpp` keeps it.
`Waiting` and `Sending` say what the packet threads know of the numbers they
hold while they have no lock; they survive the steps of the others because no
function touches the packets of a descriptor it does not close (`Keeps`), and
what it closes is noted in `gone`. `Coming` says that what was granted has an
alias, and during the reload is back or still on the list, but for what `lost` names; it needs a crash
during the reload to be harmless, which is why the alias and not the table is
what it is about. `Jobs` says that a creation's port stays in use until it ends.

For `TapsFollow` the link reports are one list, the one being handled before those in
the queue. `Following` says that the last report of a port is its link, and that a port
with no report in the list has its tap as its link is, or is excused, or the creation
at work will see to it (`Seen`): it has not read the link yet, or what it read is so
still, since a change would have been reported.

`NasVlanProofs` proves, for any finite set of ports and any bridges, VLAN ids,
requests and bounds, with any calls failing:

* `TypeCorrect`: `Spec => []TypeOK`
* `NothingStray`: `Spec => []NoNpuStray`, assuming that the NPU does not refuse to
  delete a VLAN (`"vlanDelete" \notin FaultKinds`, as in `vlan_main`)

Types need more than themselves: events name only bridges the kernel has created,
and the bridge of a request stays in the table while the request is served, because
`br_lock` keeps the deletion event out. `NoNpuStray` is inductive with the types.
Everything that adds to the NPU or to the lists leaves a state that has *grown*
(`Grown`): bridges keep their ids and lists, and what is new in the NPU is the VLAN
of one bridge and members on its lists. A state that has grown is accounted for
still; the deletion of a member and of a bridge are shown to be, each by itself. The
exception is real: `nas_cleanup_bridge` forgets the bridge when the NPU keeps its
VLAN.

* `TableFollows`: `Spec => []FollowsKernel`, assuming `OwnVid`
* `NpuFollows`: `Spec => []NpuFollowsLists`, assuming `OwnVid`

`OwnVid` says that clients and programs use each bridge with at most one VLAN id, and no
two bridges with the same; `vlan_main` has such ids. Without it both properties fail, for
the reason `PROJECT.json` gives at `nas_int_vlan.cpp:592`: the id a bridge learns from its
first tagged member is not compared with those of the other bridges. Both properties speak
of quiet states. The invariant, `FollowInv`, says what they rest on while events are
pending, for as long as no call failed:

* `Logged`: the queue ends as the kernel is. Its last event of an interface and a bridge
  tells whether the interface is there now, and no deleted bridge is created again later
  in it (`Ends`).
* `Mends`, for each bridge: the table and the kernel agree that the bridge exists, or an
  event that will mend it is queued; a bridge that CPS created and the kernel still has is
  `Programmed`, its VLAN in the NPU with exactly its members and the subscribers told; and
  an interface with no event in the queue is `Caught`, in the list when it is in the kernel
  and, in a bridge CPS created, in the kernel when it is in the list. A bridge the kernel has not
  had yet is `Fresh`: no lists, no VLAN.

Each action is a report of the kernel (`Reports`), which leaves every difference with the
event that will mend it, followed by a change of one bridge of the table (`Apart`), which
leaves the others alone because they do not share its VLAN id.

`NasVlanLagProofs` proves, for any ports, LAGs, bridges, VLAN ids, requests and
bounds, with any calls failing:

* `TypeCorrect`: `Spec => []TypeOK`
* `CopyCorrect`: `Spec => []CopyIsCurrent`
* `CopyApartCorrect`: `Spec => []PortsApart`
* `MembersFollow`: `Spec => []MembersInVlans`
* `NoneStray`: `Spec => []NoStrayMembers`
* `VlansFollow`: `Spec => []VlansFollowKernel`

The invariant behind `CopyCorrect` and `CopyApartCorrect`, `CopyInv`, has two
halves. One is about what was said: `lag_list` is what some publication told it
(`Copies`), or less where the lookup of a member's port failed, and the
publications still to come lead from there to what was published last (`Story`),
each by the one list it carries. The other compares what was published last with
the table (`SaidOf`): the same LAGs, the same members for every LAG that is not in
`history.unpublished`, and for each LAG no port but its members and those that
left in silence. A port that is not silent is then in one list of what was
published last, and, because the list of the LAG it left always came before that
of the LAG it joined, in one list of every publication on the way. Were every
change published, the copy would be a LAG table of its own; the code does not keep
that.

`MembersInVlans` and `NoStrayMembers` speak of states without a walk; their invariant,
`FollowInv`, also says what holds during one, for as long as no call failed:

* `Matches`: a VLAN of the NPU has the ports of the LAGs that have its id and no others,
  but for what is excused; every id of a LAG is a bridge's, every bridge's VLAN exists,
  and bridges with one id are in `history.lost`.
* `Follow`: the excuses are those of the history and what the walk has not finished: ports
  that have joined before their LAG has the id (`Joining`), the id of a LAG whose ports
  are leaving (`Parting`), the ports a LAG event changed on the way (`Torn`), and the ports that were in two LAGs. `Walked`
  says that what the walk has visited is done, and that only members, or ports a LAG
  event changed, are left for it.
* `Marked`: a port that `lag_list` has in two LAGs is in `history.doubled`. Any other that
  leaves the VLAN of one LAG is not missed by another (`Lacking`).
* `Once`: a bridge the kernel announces has had its ifindex given, so a request that
  creates one finds no entry of it.

The handlers of kernel events and requests are shown to be made of five changes of the
tables: LAGs join a VLAN, a LAG leaves one, a bridge comes, takes an id or goes.

`VlansFollowKernel` speaks only of states without events and requests; its invariant,
`Heard`, says for the others what is still to come, as long as no call failed:

* `Logged`: the last event of an interface in the queue tells where the interface is now
  (`Agrees`); a bridge that came and went has the event that it went behind the one that
  it came (`Ends`).
* `Settled`: an interface without an event in the queue is in the table as it is in the
  kernel (`Caught`). A bridge without an id has no tagged interface but those whose event
  is still to come, since the first one handled gives it an id.
* `Deleted`: a bridge in the table that is gone in the kernel has its event in the queue.
* `Begun`: a LAG that a request is adding is in the kernel's bridge already, or an event
  in the queue says that another program moved it meanwhile.
* `Meets`: `Settled` holds of bridges and LAGs that exist or have never been, because the
  events of one that is gone find nothing; and but for what `history` excuses.

What the kernel does is a sequence of events that says what changed (`Reports`) and keeps
the rest; the handler of an event mends the difference it is about and leaves the others
(`Handles`), because bridges that share a VLAN id are in `history.lost`. It needs
`FollowInv`, which says that every id of a LAG is a bridge's: a bridge that takes an id
finds no LAG that has it.

`NasMediaProofs` proves, for any lanes, media types, settings and bounds, with any
calls failing:

* `TypeCorrect`: `Spec => []TypeOK`
* `CacheTrue`: `Spec => []CacheIsApplied`
* `LoopbackKept`: `Spec => []LoopbackStays`
* `MediaFollowed`: `Spec => []MediaFollowsPas`

`CacheIsApplied` is inductive with the types: a request leaves in the port its
type with all settings, or a type the cache does not have, or changes neither;
a breakout makes ports that its exception names. For `LoopbackStays` the media
thread has to be in the invariant: the port, the cache and every object the
thread still holds for a lane have the value last asked for, so what it writes
changes nothing. For `MediaFollowsPas` the invariant (`MediaInv`) says what each thread
carries: the last of the reports is what PAS has, an older type that a thread still
holds has a later report behind it or the history names its lane, and a port of another
type has a report, a request or a step of the interface thread coming (`Coming`).

`NasFanoutProofs` proves, for any number of lanes, scripts, runs and failing calls:

* `TypeCorrect`: `Spec => []TypeOK`
* `InterfacesFit`: `Spec => []InterfacesFitPorts`
* `LaserCorrect`: `Spec => []LaserFollowsAdmin`
* `CreatedKept`: `Spec => []CreatedMeansInterfaces`

What makes `InterfacesFitPorts` inductive is `NamesFit`, about what a script
carries from one request to the next: the names it has made so far are of the mode, unless a
breakout came since or found it without its port (`late`). `Make` adds one name to them
(`MadeName`), a creation uses one up, a breakout makes every script that has names late
and notes every interface it finds. For `LaserFollowsAdmin`, an interface whose admin state was
announced has an announcement in the queue, or the thread is about to set its lanes,
or they are set and what the thread is about to do is not about them (`LaserInv`); it
needs that an ifindex is given once (`IndexInv`). For `CreatedMeansInterfaces`, a
script nobody disturbed since its breakout has an interface on each lane of the mode
but those it still has the name of (`PromiseInv`).

`NasPortAttrProofs` proves, for any MTUs and values, any lists of requests, any
settings the NPU may refuse and any bounds, with any calls failing:

* `TypeCorrect`: `Spec => []TypeOK`
* `BothSidesAgree`: `Spec => []KernelAndNpuAgree`
* `AnnouncementsTrue`: `Spec => []AnnouncedUnlessLate`
* `AnswersTrue`: `Spec => []OkMeansInPlace`, assuming that no request asks for two
  values of one attribute (`RequestsConsistent`, as in `attr_main`)

`KernelAndNpuAgree` speaks only of rest; its invariant says what is still to come.
Of the reports in the queue those of the present interface come last, and the last
of them is of what the kernel has now (`Arrivals`), because every change is reported
and a new interface has a number of its own. An attribute in which kernel and NPU
differ is therefore `Awaited`: such a report is in the queue or being handled and has
not reached the attribute yet, or the kernel is about to be put back, or the port to
be shut down. For the announcements `AnnInv` says which thread still has one to make.
For the answers, what was asked for is in place or on the list still; the learn mode,
which is compared with the NPU's and set in both, needs `LearnInv`: that in the first
interface the kernel's is the NPU's but while it is being set.

The only assumptions are those of `NasLagAssumption`, `NasPortAssumption`,
`NasVlanAssumption`, `NasVlanLagAssumption`, `NasMediaAssumption`,
`NasFanoutAssumption` and `NasPortAttrAssumption`, and the conditions named above.
Every safety and action property of the runs is proved. Only model-checked are the
liveness properties `AttachReachesNpu`, `Settles` and `RunsEnd`: fairness and `ENABLED`
are out of the prover's reach.

## 5. Plan

Done: `LagTable`, `NasLag`, `NasVlan`, `NasVlanLag`, `NasPort`, `NasPortAttr`, `NasMedia`,
`NasFanout`, and the proofs named above. What could come next:

1. A wider run of `NasVlanLag`: several VLAN ids on each bridge and more steps of other
   programs, the instances in which the first id of a bridge is misread. The theorems
   cover them; the present runs reach the misread of an interface that leaves.
2. Liveness of `NasPort`: a link change reaches the tap, under weak fairness of
   the callback thread, with a read that waits as the exception.

### Not modelled

* GET handlers and statistics: they keep no state between requests.
* Encoding of objects, packet meta-data and sFlow samples: data formatting.
* MAC addresses: their allocation to front panel ports is arithmetic on a base
  address, and an address set by a client goes to the kernel and nowhere else.
* The C++ library's set of link callbacks, which start-up walks and fills at the
  same time (`nas_int_main.cpp:118`): what a data race does depends on the tree's
  layout.
* `interface/` and `hal_int_db_handlers.cpp`: not in `Makefile.am`, so not in the
  daemon.
* The commands that show statistics and transceivers, `cps_config_lag.py` and
  `cps_config_vlan.py`: each makes one request the models have as an input.
* Packaging, sos plugin, unit tests.
