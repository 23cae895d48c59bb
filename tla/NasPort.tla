------------------------------ MODULE NasPort ------------------------------
(***************************************************************************)
(* The ports and their taps: the port table of nas_int_port.cpp with the   *)
(* tap descriptors of swp_util_tap.c, creation, deletion and reload in     *)
(* nas_int_logical_cps.cpp, link changes of the NPU, the two ways of a     *)
(* packet, and the end and restart of the daemon.                          *)
(*                                                                         *)
(* A port has a tap interface of the same name in the kernel.  While the   *)
(* link of the port is up the daemon holds a descriptor of the tap open,   *)
(* which makes the interface operationally up and carries the packets.     *)
(* The kernel may give a closed descriptor's number to the next tap.       *)
(*                                                                         *)
(* Four threads use the table.  The request thread (the initialisation     *)
(* thread during reload) and the callback thread of the NPU write it under *)
(* ports_lock, one step per lock; between their steps the other may run.   *)
(* The packet thread selects without the lock and reads with it; the       *)
(* receive callback of the NPU looks a descriptor up with the lock and     *)
(* writes to it without.                                                   *)
(***************************************************************************)
EXTENDS Naturals, Sequences, FiniteSets

CONSTANTS
  Ports,           \* ports of the NPU
  Fds,             \* descriptor numbers the kernel may use for taps
  None,            \* no port, no descriptor
  FaultKinds,      \* which calls may fail, see Calls
  MaxRequests,     \* bound on the CPS requests
  MaxLinkChanges,  \* bound on the link changes of the NPU
  MaxRestarts,     \* bound on the crashes
  MaxFrames,       \* bound on the packets, in both directions
  MaxFaults        \* bound on the failing calls

(* The calls that can fail: opening a tap (all the retries), reading the    *)
(* link state, registering the interface, setting its alias, deleting the   *)
(* tap interface, _if_update, and the list of interfaces at the start.      *)
Calls == {"open", "linkGet", "register", "alias", "tapDelete", "update", "osGet"}

ASSUME NasPortAssumption ==
  /\ None \notin Ports \cup Fds
  /\ FaultKinds \subseteq Calls
  /\ {MaxRequests, MaxLinkChanges, MaxRestarts, MaxFrames, MaxFaults} \subseteq Nat

VARIABLES
  nas,      \* port table, taps and registry; taps in the kernel
  npuUp,    \* ports whose link is up in the NPU
  events,   \* link changes the NPU has not called back for
  cb,       \* the link change the callback thread is applying
  job,      \* the creation in progress
  start,    \* how far the daemon is with its start
  wait,     \* the packet thread in hal_virtual_interface_wait
  send,     \* the receive callback in hal_virtual_interace_send
  excused,  \* history: ports whose tap may differ from the link, see Excuse
  granted,  \* history: ports that clients were told exist
  lost,     \* history: those a failed call keeps from coming back, see Lost
  spent     \* how much of each bound is used

vars == <<nas, npuUp, events, cb, job, start, wait, send, excused, granted, lost, spent>>

MaybePort == Ports \cup {None}
MaybeFd == Fds \cup {None}

PortState ==
  [used       : SUBSET Ports,          \* _used, with a tap in _taps
   up         : SUBSET Ports,          \* _link is UP
   fd         : [Ports -> MaybeFd],    \* the descriptor of the port's tap
   fdSet      : SUBSET Fds,            \* tap_fds
   registered : SUBSET Ports,          \* dn_hal_if_register
   ifs        : SUBSET Ports,          \* tap interfaces in the kernel
   alias      : SUBSET Ports,          \* those with the alias for reload
   file       : [Fds -> MaybePort],    \* the tap an open descriptor is of
   frames     : [Ports -> Nat]]        \* packets to be read from each tap

LinkEvent == [port : Ports, up : BOOLEAN]
JobState == [pc : {"idle", "getLink", "setLink", "finish"},
             port : MaybePort, up : BOOLEAN]
WaitState == [pc : {"idle", "select", "ready", "read"}, fds : SUBSET Fds,
              fd : MaybeFd, port : MaybePort, gone : SUBSET Fds]
SendState == [port : MaybePort, fd : MaybeFd, gone : SUBSET Fds]

(* untracked: the alias could not be set, or the registration failed in a   *)
(* reload, which deletes the tap.  away: what this run of the daemon has    *)
(* not got: those untracked when it started or that failed since, or all    *)
(* when the list of interfaces could not be read.                           *)
Lost == [untracked : SUBSET Ports, away : SUBSET Ports]

NoJob == [pc |-> "idle", port |-> None, up |-> FALSE]
NotWaiting == [pc |-> "idle", fds |-> {}, fd |-> None, port |-> None, gone |-> {}]
NotSending == [port |-> None, fd |-> None, gone |-> {}]

-----------------------------------------------------------------------------
(* Taps.  F is the set of calls that fail. *)

Open(s) == {n \in Fds : s.file[n] # None}

(* update_tap_fd_info *)
UpdateFdSet(s) == [s EXCEPT !.fdSet = {s.fd[p] : p \in s.used} \ {None}]

(* A mutant of CloseFds: the closed number stays in the descriptor. *)
CloseFdsKeepNumber(s, p) ==
  IF s.fd[p] = None THEN s
  ELSE [s EXCEPT !.file[s.fd[p]] = None, !.frames[p] = 0]

(* swp_util_close_fds: the kernel drops what waits in the tap. *)
CloseFds(s, p) ==
  IF s.fd[p] = None THEN s
  ELSE [s EXCEPT !.file[s.fd[p]] = None, !.fd[p] = None, !.frames[p] = 0]

(* A mutant of TapLinkDown: tap_fds is not brought up to date. *)
TapLinkDownNoUpdate(s, p) == CloseFds(s, p)

TapLinkDown(s, p) == UpdateFdSet(CloseFds(s, p))

(* tap_link_up with the number n *)
TapLinkUp(s, p, n) ==
  LET c == CloseFds(s, p)
  IN UpdateFdSet([c EXCEPT !.fd[p] = n, !.file[n] = p, !.frames[p] = 0])

(* CNasPortDetails::set_link_state: _link follows only a tap that opens. *)
SetLinkState(s, p, up, n, F) ==
  IF (p \in s.up) = up THEN s
  ELSE IF ~up THEN [TapLinkDown(s, p) EXCEPT !.up = @ \ {p}]
  ELSE IF "open" \in F THEN CloseFds(s, p)
  ELSE [TapLinkUp(s, p, n) EXCEPT !.up = @ \cup {p}]

(* CNasPortDetails::del of a port in use: the tap is closed first, then its *)
(* interface goes, with the alias, unless the kernel refuses.               *)
PortDel(s, p, F) ==
  LET d == SetLinkState(s, p, FALSE, None, {})
      t == [TapLinkDown(d, p) EXCEPT !.used = @ \ {p}]
  IN IF "tapDelete" \in F THEN t
     ELSE [t EXCEPT !.ifs = @ \ {p}, !.alias = @ \ {p}]

(* A mutant of PortCreate: _used is not set. *)
PortCreateUnused(s, p, F) ==
  [s EXCEPT !.ifs = @ \cup {p}, !.registered = @ \cup {p}]

(* nas_int_port_create of a port that is not in use *)
PortCreate(s, p, F) ==
  LET c == [s EXCEPT !.used = @ \cup {p}, !.ifs = @ \cup {p}]
  IN IF "register" \in F THEN PortDel(c, p, F)
     ELSE [c EXCEPT !.registered = @ \cup {p}]

(* nas_int_port_delete *)
PortDelete(s, p, F) ==
  PortDel([s EXCEPT !.registered = @ \ {p}], p, F)

(* What the kernel may return when set_link_state opens the tap: any free   *)
(* number, since other threads of the process hold descriptors too.         *)
NewFds(s, p, up, F) ==
  IF up /\ p \notin s.up /\ "open" \notin F THEN Fds \ Open(CloseFds(s, p)) ELSE {None}

-----------------------------------------------------------------------------
(* Common parts of the actions. *)

Within(K) ==
  {F \in SUBSET (K \cap FaultKinds) : spent.faults + Cardinality(F) <= MaxFaults}
Spend(what, F) ==
  spent' = [spent EXCEPT ![what] = @ + 1, !.faults = @ + Cardinality(F)]
SpendFaults(F) == spent' = [spent EXCEPT !.faults = @ + Cardinality(F)]

(* The table becomes s.  As history, each packet thread notes which of the  *)
(* numbers it holds were closed.                                            *)
Closed(s) == {n \in Fds : nas.file[n] # None /\ s.file[n] # nas.file[n]}
Becomes(s) ==
  /\ nas' = s
  /\ wait' = [wait EXCEPT !.gone = @ \cup (wait.fds \cap Closed(s))]
  /\ send' = [send EXCEPT !.gone = @ \cup ({send.fd} \cap Closed(s))]

(* ports_lock for writing: the packet thread reads with the lock held. *)
WriteFree == wait.pc # "read"

-----------------------------------------------------------------------------
(* The creation of a port, by a request or by the reload: _if_create.       *)

BeginCreate(p, F) ==
  /\ WriteFree
  /\ Becomes(PortCreate(nas, p, F))
  /\ job' = IF "register" \in F THEN NoJob
            ELSE [pc |-> "getLink", port |-> p, up |-> FALSE]
  /\ excused' = excused \ {p}

RequestCreate(p) ==
  /\ start.phase # "reload" /\ job = NoJob /\ spent.requests < MaxRequests
  /\ p \notin nas.used
  /\ \E F \in Within({"register", "tapDelete"}) :
       BeginCreate(p, F) /\ Spend("requests", F)
  /\ granted' = granted \ {p}
  /\ lost' = [untracked |-> lost.untracked \ {p}, away |-> lost.away \ {p}]
  /\ UNCHANGED <<npuUp, events, cb, start>>

(* ndi_port_link_state_get; if it fails the link is left as it is. *)
JobGetLink ==
  /\ job.pc = "getLink"
  /\ \E F \in Within({"linkGet"}) :
       /\ job' = IF "linkGet" \in F THEN [job EXCEPT !.pc = "finish"]
                 ELSE [job EXCEPT !.pc = "setLink", !.up = job.port \in npuUp]
       /\ excused' = IF "linkGet" \in F THEN excused \cup {job.port} ELSE excused
       /\ SpendFaults(F)
  /\ UNCHANGED <<nas, npuUp, events, cb, start, wait, send, granted, lost>>

(* nas_int_port_link_change with the state read before *)
JobSetLink ==
  /\ job.pc = "setLink" /\ WriteFree
  /\ \E F \in Within({"open"}) : \E n \in NewFds(nas, job.port, job.up, F) :
       /\ Becomes(SetLinkState(nas, job.port, job.up, n, F))
       /\ excused' = IF (job.port \in nas'.up) # job.up
                     THEN excused \cup {job.port} ELSE excused
       /\ SpendFaults(F)
  /\ job' = [job EXCEPT !.pc = "finish", !.up = FALSE]
  /\ UNCHANGED <<npuUp, events, cb, start, granted, lost>>

(* A mutant of Tracked: the alias is not set. *)
TrackedNot(s, p, F) == s

(* if_add_tracker_for_reload *)
Tracked(s, p, F) ==
  IF "alias" \in F THEN s ELSE [s EXCEPT !.alias = @ \cup {p}]

(* The alias, whose failure nobody looks at, then _if_update, whose success *)
(* is the client's answer.                                                  *)
JobFinish ==
  /\ job.pc = "finish"
  /\ \E F \in Within({"alias", "update"}) :
       /\ nas' = Tracked(nas, job.port, F)
       /\ granted' = IF start.phase = "reload" \/ "update" \in F THEN granted
                     ELSE granted \cup {job.port}
       /\ lost' = IF "alias" \notin F
                  THEN [lost EXCEPT !.untracked = @ \ {job.port}]
                  ELSE [lost EXCEPT !.untracked = @ \cup ({job.port} \ nas.alias)]
       /\ SpendFaults(F)
  /\ job' = NoJob
  /\ UNCHANGED <<npuUp, events, cb, start, wait, send, excused>>

(* _if_delete *)
RequestDelete(p) ==
  /\ start.phase # "reload" /\ job = NoJob /\ spent.requests < MaxRequests
  /\ p \in nas.registered /\ WriteFree
  /\ \E F \in Within({"tapDelete"}) :
       Becomes(PortDelete(nas, p, F)) /\ Spend("requests", F)
  /\ excused' = excused \ {p} /\ granted' = granted \ {p}
  /\ UNCHANGED <<npuUp, events, cb, job, start, lost>>

-----------------------------------------------------------------------------
(* Link changes: the NPU calls hw_link_state_cb, and that the handlers that *)
(* are registered.                                                          *)

LinkChange(p) ==
  /\ spent.links < MaxLinkChanges
  /\ npuUp' = IF p \in npuUp THEN npuUp \ {p} ELSE npuUp \cup {p}
  /\ events' = Append(events, [port |-> p, up |-> p \notin npuUp])
  /\ Spend("links", {})
  /\ UNCHANGED <<nas, cb, job, start, wait, send, excused, granted, lost>>

(* nas_int_oper_state_cb up to the registry.  A change that comes before    *)
(* the handler is registered is lost to a port whose link was read already. *)
CallbackLookup ==
  /\ cb = <<>> /\ events # <<>>
  /\ events' = Tail(events)
  /\ LET e == Head(events)
         heard == start.phase = "up" /\ e.port \in nas.registered
         missed == ~heard /\ e.port \in nas.used
                   /\ ~(job.pc = "getLink" /\ job.port = e.port)
     IN /\ cb' = IF heard THEN <<e>> ELSE <<>>
        /\ excused' = IF missed THEN excused \cup {e.port} ELSE excused
  /\ UNCHANGED <<nas, npuUp, job, start, wait, send, granted, lost, spent>>

(* A mutant of CallbackApplies: the tap is never taken down. *)
CallbackAppliesUp(s, e) == e.port \in s.used /\ e.up

(* nas_int_port_link_change: only a valid port *)
CallbackApplies(s, e) == e.port \in s.used

(* Applied while a creation is between reading and setting the link of the  *)
(* port, the change is overwritten.                                         *)
CallbackApply ==
  /\ cb # <<>> /\ WriteFree
  /\ cb' = <<>>
  /\ LET e == cb[1]
         overtaken == job.pc = "setLink" /\ job.port = e.port
     IN IF CallbackApplies(nas, e)
        THEN \E F \in Within({"open"}) : \E n \in NewFds(nas, e.port, e.up, F) :
               /\ Becomes(SetLinkState(nas, e.port, e.up, n, F))
               /\ excused' = IF overtaken \/ ("open" \in F /\ e.up /\ e.port \notin nas.up)
                             THEN excused \cup {e.port} ELSE excused \ {e.port}
               /\ SpendFaults(F)
        ELSE UNCHANGED <<nas, wait, send, excused, spent>>
  /\ UNCHANGED <<npuUp, events, job, start, granted, lost>>

-----------------------------------------------------------------------------
(* The end of the daemon and its start.  The kernel closes the descriptors  *)
(* and keeps the persistent interfaces.                                     *)

Restart ==
  /\ spent.restarts < MaxRestarts
  /\ nas' = [nas EXCEPT !.used = {}, !.up = {}, !.fd = [p \in Ports |-> None],
               !.fdSet = {}, !.registered = {}, !.file = [n \in Fds |-> None],
               !.frames = [p \in Ports |-> 0]]
  /\ \E F \in Within({"osGet"}) :
       /\ start' = [phase |-> "reload", todo |-> IF "osGet" \in F THEN {} ELSE nas.alias]
       /\ lost' = [lost EXCEPT !.away = IF "osGet" \in F THEN granted ELSE lost.untracked]
       /\ Spend("restarts", F)
  /\ events' = <<>> /\ cb' = <<>> /\ job' = NoJob /\ excused' = {}
  /\ wait' = NotWaiting /\ send' = NotSending
  /\ UNCHANGED <<npuUp, granted>>

(* resync_with_os, one interface *)
Reload(p) ==
  /\ start.phase = "reload" /\ p \in start.todo /\ job = NoJob
  /\ start' = [start EXCEPT !.todo = @ \ {p}]
  /\ \E F \in Within({"register", "tapDelete"}) :
       /\ BeginCreate(p, F) /\ SpendFaults(F)
       /\ lost' = IF "register" \in F
                  THEN [untracked |-> lost.untracked \cup {p}, away |-> lost.away \cup {p}]
                  ELSE lost
  /\ UNCHANGED <<npuUp, events, cb, granted>>

(* nas_int_logical_init after resync_with_os: the CPS handlers, later the   *)
(* callback for link changes.                                               *)
RegisterHandlers ==
  /\ start.phase = "reload" /\ start.todo = {} /\ job = NoJob
  /\ start' = [start EXCEPT !.phase = "handlers"]
  /\ UNCHANGED <<nas, npuUp, events, cb, job, wait, send, excused, granted, lost, spent>>

RegisterCallback ==
  /\ start.phase = "handlers"
  /\ start' = [start EXCEPT !.phase = "up"]
  /\ UNCHANGED <<nas, npuUp, events, cb, job, wait, send, excused, granted, lost, spent>>

-----------------------------------------------------------------------------
(* Packets from the taps to the NPU: the loop of hal_packet_io_main around  *)
(* hal_virtual_interface_wait.                                              *)

(* The kernel sends a packet on an interface that is operationally up. *)
FrameOut(p) ==
  /\ spent.frames < MaxFrames
  /\ \E n \in Fds : nas.file[n] = p
  /\ nas' = [nas EXCEPT !.frames[p] = @ + 1]
  /\ Spend("frames", {})
  /\ UNCHANGED <<npuUp, events, cb, job, start, wait, send, excused, granted, lost>>

tables == <<nas, npuUp, events, cb, job, start, excused, granted, lost>>

WaitCopy ==
  /\ wait.pc = "idle"
  /\ wait' = [NotWaiting EXCEPT !.pc = "select", !.fds = nas.fdSet]
  /\ UNCHANGED <<tables, send, spent>>

(* A mutant of Ready: what was copied is taken for ready. *)
ReadyAll(fds) == fds \cap Open(nas)

Ready(fds) == {n \in fds \cap Open(nas) : nas.frames[nas.file[n]] > 0}

(* select: with nothing ready until the timeout the call ends.  A number    *)
(* that is not open any more ends it too if it was closed before select     *)
(* began, and is passed over if it was closed while select waited.          *)
WaitSelect ==
  /\ wait.pc = "select"
  /\ \/ /\ Ready(wait.fds) # {}
        /\ wait' = [wait EXCEPT !.pc = "ready", !.fds = Ready(@), !.gone = {}]
     \/ /\ Ready(wait.fds) = {} \/ ~(wait.fds \subseteq Open(nas))
        /\ wait' = NotWaiting
  /\ UNCHANGED <<tables, send, spent>>

(* find_first_tap_matching, under the lock: the port whose tap has the      *)
(* number now, and FD_CLR.                                                  *)
WaitPick ==
  /\ wait.pc \in {"ready", "read"} /\ wait.fd = None
  /\ \/ \E p \in nas.used :
          /\ nas.fd[p] \in wait.fds
          /\ wait' = [wait EXCEPT !.pc = "read", !.fds = @ \ {nas.fd[p]},
                                  !.fd = nas.fd[p], !.port = p]
     \/ /\ \A p \in nas.used : nas.fd[p] \notin wait.fds
        /\ wait' = NotWaiting
  /\ UNCHANGED <<tables, send, spent>>

(* read, which waits for a packet, and the callback with wait.port *)
WaitRead ==
  /\ wait.fd # None /\ nas.file[wait.fd] # None
  /\ nas.frames[nas.file[wait.fd]] > 0
  /\ nas' = [nas EXCEPT !.frames[nas.file[wait.fd]] = @ - 1]
  /\ wait' = [wait EXCEPT !.fd = None, !.port = None]
  /\ UNCHANGED <<npuUp, events, cb, job, start, send, excused, granted, lost, spent>>

(* Packets from the NPU to the taps: hal_virtual_interace_send *)
SendLookup(p) ==
  /\ send = NotSending /\ spent.frames < MaxFrames
  /\ p \in nas.up
  /\ send' = [NotSending EXCEPT !.port = p, !.fd = nas.fd[p]]
  /\ Spend("frames", {})
  /\ UNCHANGED <<tables, wait>>

(* write: to whatever has the number now *)
SendWrite ==
  /\ send # NotSending
  /\ send' = NotSending
  /\ UNCHANGED <<tables, wait, spent>>

-----------------------------------------------------------------------------
Init ==
  /\ nas = [used |-> {}, up |-> {}, fd |-> [p \in Ports |-> None], fdSet |-> {},
            registered |-> {}, ifs |-> {}, alias |-> {},
            file |-> [n \in Fds |-> None], frames |-> [p \in Ports |-> 0]]
  /\ npuUp = {} /\ events = <<>> /\ cb = <<>> /\ job = NoJob
  /\ start = [phase |-> "reload", todo |-> {}]
  /\ wait = NotWaiting /\ send = NotSending
  /\ excused = {} /\ granted = {} /\ lost = [untracked |-> {}, away |-> {}]
  /\ spent = [requests |-> 0, links |-> 0, restarts |-> 0, frames |-> 0, faults |-> 0]

Next ==
  \/ \E p \in Ports : \/ RequestCreate(p) \/ RequestDelete(p) \/ Reload(p)
                      \/ LinkChange(p) \/ FrameOut(p) \/ SendLookup(p)
  \/ JobGetLink \/ JobSetLink \/ JobFinish
  \/ CallbackLookup \/ CallbackApply
  \/ Restart \/ RegisterHandlers \/ RegisterCallback
  \/ WaitCopy \/ WaitSelect \/ WaitPick \/ WaitRead \/ SendWrite

Spec == Init /\ [][Next]_vars

-----------------------------------------------------------------------------
(* The types of the state, and where the parts of the two packet threads    *)
(* that only some steps use are empty.                                      *)
TypeOK ==
  /\ nas \in PortState /\ npuUp \subseteq Ports
  /\ events \in Seq(LinkEvent)
  /\ cb = <<>> \/ \E e \in LinkEvent : cb = <<e>>
  /\ job \in JobState /\ (job = NoJob \/ (job.pc # "idle" /\ job.port \in nas.used))
  /\ start \in [phase : {"reload", "handlers", "up"}, todo : SUBSET Ports]
  /\ wait \in WaitState /\ send \in SendState
  /\ excused \subseteq Ports /\ granted \subseteq Ports /\ lost \in Lost
  /\ spent \in [{"requests", "links", "restarts", "frames", "faults"} -> Nat]

(* The port table, the taps, tap_fds and the kernel's open descriptors say  *)
(* the same, whichever calls failed and through restarts: a link is UP      *)
(* exactly when the tap of the port has a number, the number is open and of *)
(* that tap, no other number is open, and the packet thread will listen to  *)
(* just these (nas_int_port.cpp:103-212, swp_util_tap.c:129).               *)
DescriptorsAgree ==
  /\ nas.up \subseteq nas.used /\ nas.used = nas.registered /\ nas.used \subseteq nas.ifs
  /\ \A p \in Ports : (p \in nas.up) = (nas.fd[p] # None)
  /\ \A p \in Ports, n \in Fds : (nas.fd[p] = n) = (nas.file[n] = p)
  /\ nas.fdSet = Open(nas)

(* Once no link change is pending the tap of every port is as the link of   *)
(* the port in the NPU, whatever the order of creation, reload and          *)
(* callbacks.  Excused, until the next change of the link, is a port whose  *)
(* tap did not open or whose state could not be read, and one that met one  *)
(* of two races: the callback ran between reading and setting the link      *)
(* (nas_int_logical_cps.cpp:840-844), or before it was registered (1012).   *)
TapsFollowLinks ==
  start.phase = "up" /\ job = NoJob /\ events = <<>> /\ cb = <<>> =>
    \A p \in nas.used \ excused : (p \in nas.up) = (p \in npuUp)

(* A port whose creation a client was told of, by the answer OK, is there   *)
(* and has the alias that brings it back, until the client deletes it: a    *)
(* crash at any point of a later request or of a reload does not lose it.   *)
(* Three failures do, which clients are not told of.  When the alias was    *)
(* not set (nas_int_logical_cps.cpp:782-787, 853) the port is there until   *)
(* the next start.  When the start could not read the interfaces (921-923)  *)
(* no port is there until a start that can.  When a port is not registered  *)
(* in a reload (834) it is deleted.                                         *)
PortsComeBack ==
  /\ granted \ lost.untracked \subseteq nas.alias
  /\ start.phase # "reload" => granted \ lost.away \subseteq nas.used

(* A packet read from a tap is reported with the port of that tap, even if  *)
(* the number went to another tap since select                              *)
(* (nas_int_port.cpp:230-248; hal_interface_common.h:86, "based on the      *)
(* correct npu,port").                                                      *)
FramesFromOwnTap == wait.fd # None => nas.file[wait.fd] = wait.port

(* A packet from the NPU goes to the tap of its port or to none, unless the *)
(* number was closed after it was looked up (nas_int_port.cpp:291-299).     *)
FramesToOwnTap ==
  send # NotSending => nas.file[send.fd] \in {send.port, None} \/ send.gone # {}

(* The read with ports_lock held finds a packet, so that it does not stop   *)
(* the threads that change ports, unless the number was closed between      *)
(* select and the lock (nas_int_port.cpp:268-274).                          *)
ReadsDoNotWait ==
  wait.fd # None => wait.fd \in wait.gone \/ nas.frames[nas.file[wait.fd]] > 0
=============================================================================
