------------------------------ MODULE NasMedia ------------------------------
(***************************************************************************)
(* The transceiver module of one front panel port and what the system      *)
(* makes of it: nas_int_physical_cps.cpp in the daemon, and the two        *)
(* threads of base_nas_monitor_phy_media.py.                               *)
(*                                                                         *)
(* PAS, the platform's service, knows which media type is plugged in.  The *)
(* media thread sends it to the daemon for every physical port of the      *)
(* front panel port when PAS reports it; the interface thread does so when *)
(* the NPU creates a port.  The daemon sets the type and its default       *)
(* settings in the NPU unless its cache, by hardware port, says that this  *)
(* is done.  What else the interface thread does is in NasFanout.          *)
(*                                                                         *)
(* A breakout replaces the port by one for each lane, or those by one.     *)
(* A port is identified by its hardware lane.  All requests are served by  *)
(* the one CPS thread of the daemon, so a request is one step; each get a  *)
(* script makes, each event it takes and each request it sends is a step   *)
(* of its own.                                                             *)
(***************************************************************************)
EXTENDS Naturals, Sequences, FiniteSets, SequencesExt

CONSTANTS
  Lanes,       \* hardware ports of the front panel port
  Control,     \* the one that stays when the port is whole, the lowest in the code
  Types,       \* media types of PAS
  Listed,      \* those in phy_media_default_npu_setting.xml
  Given,       \* which settings the file gives a type
  None,        \* "no media type", "not in the request"
  FaultKinds,  \* calls that may fail, see Calls
  MaxPas,      \* bound on the changes at PAS
  MaxBreakouts,
  MaxLoopback, \* bound on loopback requests
  MaxFaults

Settings == {"autoneg", "speed", "duplex"}
Loopbacks == {"off", "on"}
Modes == {"whole", "split"}

(* Calls of _phy_set in their order; "pas" is a get from PAS, "front" one  *)
(* from the front panel port service.                                      *)
Order == [media |-> 1, default |-> 2, autoneg |-> 3, mode |-> 4, speed |-> 5,
          duplex |-> 6, loopback |-> 7, none |-> 8]
Calls == (DOMAIN Order \ {"none"}) \cup {"pas", "front"}

ASSUME NasMediaAssumption ==
  /\ IsFiniteSet(Lanes) /\ Control \in Lanes
  /\ None \notin Types \cup Loopbacks /\ Listed \subseteq Types
  /\ Given \in [Types -> SUBSET Settings]
  /\ FaultKinds \subseteq Calls
  /\ {MaxPas, MaxBreakouts, MaxLoopback, MaxFaults} \subseteq Nat

VARIABLES
  pas,        \* media type PAS has
  mode,       \* breakout mode of the front panel port
  npu,        \* the NPU's port of each lane
  cache,      \* _phy_port
  news,       \* PAS events the media thread has not taken
  events,     \* lanes of created ports the interface thread has not taken
  media,      \* the media thread
  monitor,    \* the interface thread
  history,    \* what went apart for a named reason, see History
  spent       \* how much of each bound is used

vars == <<pas, mode, npu, cache, news, events, media, monitor, history, spent>>

(* The value of a setting is the media type whose default it is. *)
Held == Types \cup {None}
Port == [valid : BOOLEAN, media : Held, autoneg : Held, speed : Held, duplex : Held,
         loopback : Loopbacks]
NewPort == [valid |-> TRUE, media |-> None, autoneg |-> None, speed |-> None, duplex |-> None,
            loopback |-> "off"]
NoPort == [NewPort EXCEPT !.valid = FALSE]

(* known: the hardware port has an entry. *)
Entry == [known : BOOLEAN, media : Held, loopback : Loopbacks]

(* A request for a port carries the attributes of the port's object.  *)
Request == [lane : Lanes, type : Held, loopback : Loopbacks \cup {None}]

MediaThread == [pc : {"list", "find", "send", "register", "wait"}, registered : BOOLEAN,
                type : Held, todo : Seq(Request)]
Monitor == [pc : {"start", "wait", "pas", "send", "dead"}, lane : Lanes, type : Held]

(* behind: lanes that need not have the type of PAS: it changed between    *)
(* the media thread's list and its registration or while the interface     *)
(* thread held the old one, a call failed before the NPU had the type, or  *)
(* nobody was registered when the port came.  apart: lanes whose port is   *)
(* not what the cache says: it is a new port, or a request failed half     *)
(* way.  asked: loopback last asked for; undone: lanes whose port is new   *)
(* or was read by the media thread before that.                            *)
History == [behind : SUBSET Lanes, apart : SUBSET Lanes, asked : [Lanes -> Loopbacks],
            undone : SUBSET Lanes]

LanesOf(m) == IF m = "whole" THEN {Control} ELSE Lanes
Starting == [pc |-> "list", registered |-> FALSE, type |-> None, todo |-> <<>>]
-----------------------------------------------------------------------------
Init ==
  /\ pas \in Types /\ mode \in Modes
  /\ npu = [l \in Lanes |-> IF l \in LanesOf(mode) THEN NewPort ELSE NoPort]
  /\ cache = [l \in Lanes |-> [known |-> FALSE, media |-> None, loopback |-> "off"]]
  /\ news = <<>> /\ events = <<>> /\ media = Starting
  /\ monitor = [pc |-> "start", lane |-> Control, type |-> None]
  /\ history = [behind |-> {}, apart |-> {}, asked |-> [l \in Lanes |-> "off"],
                undone |-> {}]
  /\ spent = [pas |-> 0, breakouts |-> 0, loopback |-> 0, faults |-> 0]

Spend(b, limit) == spent[b] < limit /\ spent' = [spent EXCEPT ![b] = @ + 1]
MayFail(f) == f = "none" \/ (f \in FaultKinds /\ spent.faults < MaxFaults)
SpendFault(f) ==
  /\ MayFail(f)
  /\ spent' = [spent EXCEPT !.faults = @ + IF f = "none" THEN 0 ELSE 1]
-----------------------------------------------------------------------------
(* The daemon: _phy_set. *)

(* The type is set unless the cache has it. *)
Applies(r) == r.type # None /\ cache[r.lane].media # r.type
MediaSucceeds(r, f) == ~Applies(r) \/ (r.type \in Listed /\ Order[f] >= Order["loopback"])

(* Mutant of LoopbackSucceeds: a request without loopback sets it.         *)
LoopbackUnchecked(r, f) == MediaSucceeds(r, f) /\ f # "loopback"

LoopbackSucceeds(r, f) == MediaSucceeds(r, f) /\ r.loopback # None /\ f # "loopback"

(* Only a call that is made can fail. *)
Called(r, f) ==
  CASE f = "none"     -> TRUE
    [] f = "loopback" -> MediaSucceeds(r, f) /\ r.loopback # None
    [] OTHER ->
         /\ Applies(r)
         /\ Order[f] > Order["default"] => r.type \in Listed
         /\ f \in Settings => f \in Given[r.type]
         /\ f = "speed" => mode = "whole"

(* _phy_media_type_with_default_config_set: the settings before the call   *)
(* that fails are set.  A lane of a broken out port keeps its speed.       *)
Configured(p, t, f) ==
  LET done(call) == Order[call] < Order[f]
      sets(a) == t \in Listed /\ a \in Given[t] /\ done(a)
  IN [p EXCEPT !.media   = IF done("media") THEN t ELSE @,
               !.autoneg = IF sets("autoneg") THEN t ELSE @,
               !.speed   = IF sets("speed") /\ mode = "whole" THEN t ELSE @,
               !.duplex  = IF sets("duplex") THEN t ELSE @]

(* The port a request leaves, and the cache, which has the type only when  *)
(* everything was set.                                                     *)
PortAfter(r, f) ==
  LET p == IF Applies(r) THEN Configured(npu[r.lane], r.type, f) ELSE npu[r.lane]
  IN IF LoopbackSucceeds(r, f) THEN [p EXCEPT !.loopback = r.loopback] ELSE p

(* Mutant of EntryAfter: the type is remembered before it is set.          *)
EntryEarly(r, f) ==
  [known    |-> TRUE,
   media    |-> IF Applies(r) /\ f # "media" THEN r.type ELSE cache[r.lane].media,
   loopback |-> IF LoopbackSucceeds(r, f) THEN r.loopback ELSE cache[r.lane].loopback]

(* Mutant of EntryAfter: the loopback is not remembered.                   *)
EntryWithoutLoopback(r, f) ==
  [known |-> TRUE, loopback |-> cache[r.lane].loopback,
   media |-> IF Applies(r) /\ MediaSucceeds(r, f) THEN r.type ELSE cache[r.lane].media]

EntryAfter(r, f) ==
  [known    |-> TRUE,
   media    |-> IF Applies(r) /\ MediaSucceeds(r, f) THEN r.type ELSE cache[r.lane].media,
   loopback |-> IF LoopbackSucceeds(r, f) THEN r.loopback ELSE cache[r.lane].loopback]

(* A thread is about to send a type that PAS has replaced, and no event of *)
(* it is to come.                                                          *)
Overtaken(l) ==
  \/ monitor.pc = "send" /\ monitor.lane = l /\ monitor.type # pas
  \/ media.pc \in {"find", "send"} /\ ~media.registered /\ media.type # pas

ApartAfter(r, f) ==
  IF ~Applies(r) \/ f = "media" THEN history.apart
  ELSE IF MediaSucceeds(r, f) THEN history.apart \ {r.lane}
  ELSE history.apart \cup {r.lane}

BehindAfter(r, f) ==
  IF f = "media" THEN history.behind \cup {r.lane}
  ELSE IF r.type = pas /\ ~Overtaken(r.lane) THEN history.behind \ {r.lane}
  ELSE history.behind

(* The whole of _phy_set: a port that is gone is an error. *)
PhySet(r, f) ==
  /\ SpendFault(f)
  /\ \/ /\ ~npu[r.lane].valid /\ f = "none"
        /\ UNCHANGED <<npu, cache, history>>
     \/ /\ npu[r.lane].valid /\ f \in DOMAIN Order /\ Called(r, f)
        /\ npu' = [npu EXCEPT ![r.lane] = PortAfter(r, f)]
        /\ cache' = [cache EXCEPT ![r.lane] = EntryAfter(r, f)]
        /\ history' = [history EXCEPT !.apart = ApartAfter(r, f), !.behind = BehindAfter(r, f)]

(* Another client sets the loopback of a port.  The media thread may still *)
(* hold the port's object with the old one.                                *)
HeldByMedia(l, v) ==
  \E i \in DOMAIN media.todo : media.todo[i].lane = l /\ media.todo[i].loopback \notin {None, v}

SetLoopback(l, v) ==
  LET r == [lane |-> l, type |-> None, loopback |-> v]
  IN /\ npu[l].valid /\ Spend("loopback", MaxLoopback)
     /\ npu' = [npu EXCEPT ![l] = PortAfter(r, "none")]
     /\ cache' = [cache EXCEPT ![l] = EntryAfter(r, "none")]
     /\ history' = [history EXCEPT !.asked[l] = v,
                      !.undone = IF HeldByMedia(l, v) THEN @ \cup {l} ELSE @ \ {l}]
     /\ UNCHANGED <<pas, mode, news, events, media, monitor>>
-----------------------------------------------------------------------------
(* PAS and the NPU. *)

Heard == monitor.pc \notin {"start", "dead"}
PasChanges(t) ==
  /\ t # pas /\ pas' = t /\ Spend("pas", MaxPas)
  /\ news' = IF media.registered THEN Append(news, t) ELSE news
  /\ history' = [history EXCEPT !.behind =
                   @ \cup (IF media.registered \/ media.pc = "list" THEN {} ELSE Lanes)
                     \cup (IF monitor.pc = "send" THEN {monitor.lane} ELSE {})]
  /\ UNCHANGED <<mode, npu, cache, events, media, monitor>>

(* if_breakout: the ports of the old mode go, those of the new one come    *)
(* one by one.  The front panel port service asks for it only when all     *)
(* ports are there.                                                        *)
Breakout(m) ==
  /\ m # mode /\ \A l \in LanesOf(mode) : npu[l].valid
  /\ Spend("breakouts", MaxBreakouts)
  /\ mode' = m /\ npu' = [l \in Lanes |-> NoPort]
  /\ UNCHANGED <<pas, cache, news, events, media, monitor, history>>

(* _ndi_port_event_update_ publishes the port. *)
PortAppears(l) ==
  /\ l \in LanesOf(mode) /\ ~npu[l].valid
  /\ npu' = [npu EXCEPT ![l] = NewPort]
  /\ events' = IF Heard THEN Append(events, l) ELSE events
  /\ history' = [history EXCEPT
                   !.behind = IF Heard \/ media.pc = "list" THEN @ ELSE @ \cup {l},
                   !.apart = IF cache[l].media = None THEN @ ELSE @ \cup {l},
                   !.undone = @ \cup {l}]
  /\ UNCHANGED <<pas, mode, cache, news, media, monitor, spent>>

-----------------------------------------------------------------------------
(* The media thread: monitor_phy_media, set_media_info. *)

Onward(m) == [m EXCEPT !.pc = IF m.registered THEN "wait" ELSE "register", !.todo = <<>>]

(* init_nas_media_info, before the thread registers for events; an empty   *)
(* answer from PAS is nothing to do.                                       *)
MediaList(f) ==
  /\ media.pc = "list" /\ SpendFault(f) /\ f \in {"none", "pas"}
  /\ media' = IF f = "pas" THEN Onward(media) ELSE [media EXCEPT !.pc = "find", !.type = pas]
  /\ history' = [history EXCEPT !.behind = IF f = "pas" THEN Lanes ELSE @]
  /\ UNCHANGED <<pas, mode, npu, cache, news, events, monitor>>

MediaRegister ==
  /\ media.pc = "register" /\ media' = [media EXCEPT !.pc = "wait", !.registered = TRUE]
  /\ UNCHANGED <<pas, mode, npu, cache, news, events, monitor, history, spent>>

(* Mutant of MediaTake: the events that came meanwhile are dropped.        *)
MediaTakeDropsRest ==
  /\ media.pc = "wait" /\ news # <<>> /\ news' = <<>>
  /\ media' = [media EXCEPT !.pc = "find", !.type = Head(news)]
  /\ UNCHANGED <<pas, mode, npu, cache, events, monitor, history, spent>>

MediaTake ==
  /\ media.pc = "wait" /\ news # <<>> /\ news' = Tail(news)
  /\ media' = [media EXCEPT !.pc = "find", !.type = Head(news)]
  /\ UNCHANGED <<pas, mode, npu, cache, events, monitor, history, spent>>

(* The ports of the front panel port are read at once, in the order of the *)
(* platform's file; the requests are their objects, loopback included, with *)
(* the new type.                                                           *)
Object(l) ==
  [lane |-> l, type |-> media.type,
   loopback |-> IF cache[l].known THEN cache[l].loopback ELSE None]

MediaFind(f) ==
  /\ media.pc = "find" /\ SpendFault(f) /\ f \in {"none", "front"}
  /\ LET valid == {l \in Lanes : npu[l].valid}
     IN IF f = "front" \/ valid = {} THEN media' = Onward(media)
        ELSE \E order \in SetToSeqs(valid) :
               media' = [media EXCEPT !.pc = "send",
                           !.todo = [k \in DOMAIN order |-> Object(order[k])]]
  /\ history' = [history EXCEPT !.behind = IF f = "front" THEN Lanes ELSE @]
  /\ UNCHANGED <<pas, mode, npu, cache, news, events, monitor>>

(* The answer to a request is not looked at. *)
MediaSend(f) ==
  /\ media.pc = "send" /\ PhySet(Head(media.todo), f)
  /\ media' = IF Len(media.todo) = 1 THEN Onward(media) ELSE [media EXCEPT !.todo = Tail(@)]
  /\ UNCHANGED <<pas, mode, news, events, monitor>>
-----------------------------------------------------------------------------
(* The interface thread: monitor_interface_event. *)

Die == [monitor EXCEPT !.pc = "dead"]
Back == [monitor EXCEPT !.pc = "wait"]

(* It registers, then asks PAS for the LED control, whose absence kills it. *)
MonitorStart(f) ==
  /\ monitor.pc = "start" /\ SpendFault(f) /\ f \in {"none", "pas"}
  /\ monitor' = IF f = "pas" THEN Die ELSE Back
  /\ UNCHANGED <<pas, mode, npu, cache, news, events, media, history>>

MonitorTake ==
  /\ monitor.pc = "wait" /\ events # <<>> /\ events' = Tail(events)
  /\ monitor' = [monitor EXCEPT !.pc = "pas", !.lane = Head(events)]
  /\ UNCHANGED <<pas, mode, npu, cache, news, media, history, spent>>

(* set_media_type_on_port_create; an empty answer from PAS kills the thread. *)
MonitorPas(f) ==
  /\ monitor.pc = "pas" /\ SpendFault(f) /\ f \in {"none", "pas"}
  /\ monitor' = IF f = "pas" THEN Die ELSE [monitor EXCEPT !.pc = "send", !.type = pas]
  /\ UNCHANGED <<pas, mode, npu, cache, news, events, media, history>>

MonitorSend(f) ==
  /\ monitor.pc = "send"
  /\ PhySet([lane |-> monitor.lane, type |-> monitor.type, loopback |-> None], f)
  /\ monitor' = Back
  /\ UNCHANGED <<pas, mode, news, events, media>>

-----------------------------------------------------------------------------
MaybeFault == FaultKinds \cup {"none"}

MediaStep ==
  \/ MediaRegister \/ MediaTake
  \/ \E f \in MaybeFault : MediaList(f) \/ MediaFind(f) \/ MediaSend(f)

MonitorStep ==
  \/ MonitorTake
  \/ \E f \in MaybeFault : MonitorStart(f) \/ MonitorPas(f) \/ MonitorSend(f)

Other ==
  \/ \E t \in Types : PasChanges(t)
  \/ \E m \in Modes : Breakout(m)
  \/ \E l \in Lanes : PortAppears(l) \/ \E v \in Loopbacks : SetLoopback(l, v)

Next == MediaStep \/ MonitorStep \/ Other

Spec == Init /\ [][Next]_vars
-----------------------------------------------------------------------------
(* Properties. *)

(* Every variable keeps its type. *)
TypeOK ==
  /\ pas \in Types /\ mode \in Modes
  /\ npu \in [Lanes -> Port] /\ cache \in [Lanes -> Entry]
  /\ news \in Seq(Types) /\ events \in Seq(Lanes)
  /\ media \in MediaThread /\ monitor \in Monitor /\ history \in History
  /\ spent \in [{"pas", "breakouts", "loopback", "faults"} -> Nat]

Quiet == media.pc = "wait" /\ news = <<>> /\ monitor.pc = "wait" /\ events = <<>>

(* Once both threads have handled every event, each port of the NPU has    *)
(* the type of PAS or the daemon believes it has, in whatever order        *)
(* breakouts, PAS events and the two threads' requests came, but for what  *)
(* behind names.                                                           *)
MediaFollowsPas ==
  Quiet => \A l \in Lanes :
    npu[l].valid => pas \in {npu[l].media, cache[l].media} \/ l \in history.behind

(* The daemon believes only what is so: a port has the cached type, but    *)
(* for what apart names, and where it has, a failed request for that type  *)
(* left no default setting undone, speed only when it is the whole port.   *)
CacheIsApplied ==
  \A l \in Lanes :
    npu[l].valid =>
      /\ l \notin history.apart => npu[l].media = cache[l].media
      /\ npu[l].media = cache[l].media /\ cache[l].media \in Listed =>
           \A a \in Given[cache[l].media] :
             (a = "speed" => mode = "whole") => npu[l][a] = cache[l].media

(* A loopback stays until a client sets another, although each media event *)
(* writes it again, but for what undone names.                             *)
LoopbackStays ==
  \A l \in Lanes \ history.undone : npu[l].valid => npu[l].loopback = history.asked[l]
=============================================================================
