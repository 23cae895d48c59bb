--------------------------- MODULE NasMediaProofs ---------------------------
(***************************************************************************)
(* Proofs about NasMedia, for any lanes, media types, settings and bounds, *)
(* with any calls failing: what the daemon's cache says of a port is so;   *)
(* a loopback stays although the media thread writes it again; the ports   *)
(* end with the media type PAS has.                                        *)
(***************************************************************************)
EXTENDS NasMedia, SequenceTheorems, FiniteSetTheorems, TLAPS

(* The calls of _phy_set in their order. *)
LEMMA OrderFacts ==
  ASSUME NEW f \in DOMAIN Order
  PROVE  /\ Order[f] \in 1..8
         /\ Order[f] = 1 <=> f = "media"
         /\ \A a \in Settings : Order[a] \in 3..6
         /\ Order["media"] = 1 /\ Order["loopback"] = 7
BY DEF Order, Settings
-----------------------------------------------------------------------------
(* _phy_set. *)

LEMMA PhyTypes ==
  ASSUME NEW r \in Request, NEW f \in DOMAIN Order,
         mode \in Modes, npu \in [Lanes -> Port], cache \in [Lanes -> Entry]
  PROVE  PortAfter(r, f) \in Port /\ EntryAfter(r, f) \in Entry
<1>1. npu[r.lane] \in Port /\ cache[r.lane] \in Entry /\ r.type \in Held
  BY DEF Request
<1>2. LoopbackSucceeds(r, f) => r.loopback \in Loopbacks
  BY DEF LoopbackSucceeds, Request
<1>3. Configured(npu[r.lane], r.type, f) \in Port
  BY <1>1 DEF Configured, Port
<1>4. PortAfter(r, f) \in Port
  BY <1>1, <1>2, <1>3 DEF PortAfter, Port
<1>5. EntryAfter(r, f) \in Entry
  BY <1>1, <1>2 DEF EntryAfter, Entry
<1> QED BY <1>4, <1>5

(* What a request leaves of a port, field by field. *)
LEMMA PortFields ==
  ASSUME NEW r \in Request, NEW f \in DOMAIN Order, npu \in [Lanes -> Port]
  PROVE  LET p == npu[r.lane]
             q == PortAfter(r, f)
         IN /\ q.valid = p.valid
            /\ q.loopback = IF LoopbackSucceeds(r, f) THEN r.loopback ELSE p.loopback
            /\ ~Applies(r) => q.media = p.media /\ \A a \in Settings : q[a] = p[a]
            /\ Applies(r) => q.media = IF f = "media" THEN p.media ELSE r.type
            /\ Applies(r) /\ MediaSucceeds(r, f) =>
                 \A a \in Given[r.type] \cap Settings :
                   (a = "speed" => mode = "whole") => q[a] = r.type
<1> DEFINE p == npu[r.lane]
           c == Configured(p, r.type, f)
           d == IF Applies(r) THEN c ELSE p
<1>1. p \in Port
  BY DEF Request
<1>2. /\ c.valid = p.valid /\ c.loopback = p.loopback
      /\ c.media = IF f = "media" THEN p.media ELSE r.type
  BY <1>1, OrderFacts DEF Configured, Port
<1>3. r.type \in Listed /\ Order[f] >= 7 =>
        \A a \in Given[r.type] \cap Settings :
          (a = "speed" => mode = "whole") => c[a] = r.type
  <2> SUFFICES ASSUME r.type \in Listed, Order[f] >= 7, NEW a \in Given[r.type] \cap Settings,
                      a = "speed" => mode = "whole"
               PROVE  c[a] = r.type
    OBVIOUS
  <2>1. Order[a] < Order[f]
    BY OrderFacts
  <2>2. CASE a = "autoneg"
    BY <1>1, <2>1, <2>2 DEF Configured, Port
  <2>3. CASE a = "speed"
    BY <1>1, <2>1, <2>3 DEF Configured, Port
  <2>4. CASE a = "duplex"
    BY <1>1, <2>1, <2>4 DEF Configured, Port
  <2> QED BY <2>2, <2>3, <2>4 DEF Settings
<1>4. c \in Port
  <2>1. r.type \in Held
    BY DEF Request
  <2> QED BY <1>1, <2>1 DEF Configured, Port
<1>5. d \in Port
  BY <1>1, <1>4
<1>6. PortAfter(r, f) = IF LoopbackSucceeds(r, f) THEN [d EXCEPT !.loopback = r.loopback] ELSE d
  BY DEF PortAfter
<1> HIDE DEF d
<1>7. LET q == PortAfter(r, f)
      IN /\ q.valid = d.valid /\ q.media = d.media
         /\ q.autoneg = d.autoneg /\ q.speed = d.speed /\ q.duplex = d.duplex
         /\ q.loopback = IF LoopbackSucceeds(r, f) THEN r.loopback ELSE d.loopback
  BY <1>5, <1>6 DEF Port
<1>8. \A a \in Settings : PortAfter(r, f)[a] = d[a]
  BY <1>7 DEF Settings
<1>9. MediaSucceeds(r, f) /\ Applies(r) => r.type \in Listed /\ Order[f] >= 7
  BY OrderFacts DEF MediaSucceeds
<1> HIDE DEF c
<1>10. CASE Applies(r)
  <2>1. d = c
    BY <1>10 DEF d
  <2> QED BY <1>2, <1>3, <1>7, <1>8, <1>9, <1>10, <2>1
<1>11. CASE ~Applies(r)
  <2>1. d = p
    BY <1>11 DEF d
  <2> QED BY <1>7, <1>8, <1>11, <2>1
<1> QED BY <1>10, <1>11
-----------------------------------------------------------------------------
(* Types.  The media thread has requests left whenever it is about to send. *)

Sending == media.pc = "send" => media.todo # <<>>
TypeInv == TypeOK /\ Sending

LEMMA SpendType ==
  ASSUME TypeOK, NEW b \in {"pas", "breakouts", "loopback", "faults"}, NEW n, Spend(b, n)
  PROVE  spent' \in [{"pas", "breakouts", "loopback", "faults"} -> Nat]
BY DEF TypeOK, Spend

LEMMA FaultType ==
  ASSUME TypeOK, NEW f, SpendFault(f)
  PROVE  spent' \in [{"pas", "breakouts", "loopback", "faults"} -> Nat]
BY DEF SpendFault, TypeOK

LEMMA PhySetType ==
  ASSUME TypeOK, NEW r \in Request, NEW f, PhySet(r, f)
  PROVE  /\ npu' \in [Lanes -> Port] /\ cache' \in [Lanes -> Entry] /\ history' \in History
         /\ spent' \in [{"pas", "breakouts", "loopback", "faults"} -> Nat]
<1>1. spent' \in [{"pas", "breakouts", "loopback", "faults"} -> Nat]
  BY FaultType DEF PhySet
<1>2. CASE UNCHANGED <<npu, cache, history>>
  BY <1>1, <1>2 DEF TypeOK
<1>3. CASE /\ f \in DOMAIN Order
           /\ npu' = [npu EXCEPT ![r.lane] = PortAfter(r, f)]
           /\ cache' = [cache EXCEPT ![r.lane] = EntryAfter(r, f)]
           /\ history' = [history EXCEPT !.apart = ApartAfter(r, f), !.behind = BehindAfter(r, f)]
  <2>1. PortAfter(r, f) \in Port /\ EntryAfter(r, f) \in Entry
    BY <1>3, PhyTypes DEF TypeOK
  <2>2. r.lane \in Lanes /\ history \in History
    BY DEF Request, TypeOK
  <2>3. ApartAfter(r, f) \in SUBSET Lanes /\ BehindAfter(r, f) \in SUBSET Lanes
    BY <2>2 DEF ApartAfter, BehindAfter, History
  <2>4. history' \in History
    BY <1>3, <2>2, <2>3 DEF History
  <2> QED BY <1>1, <1>3, <2>1, <2>2, <2>4 DEF TypeOK
<1> QED BY <1>2, <1>3 DEF PhySet

(* The requests for the ports of the front panel port. *)
LEMMA ObjectsType ==
  ASSUME TypeOK, NEW order \in SetToSeqs({l \in Lanes : npu[l].valid}),
         {l \in Lanes : npu[l].valid} # {}
  PROVE  LET todo == [k \in DOMAIN order |-> Object(order[k])]
         IN /\ todo \in Seq(Request) /\ todo # <<>>
            /\ \A k \in DOMAIN todo : \E l \in Lanes : todo[k] = Object(l) /\ npu[l].valid
<1> DEFINE valid == {l \in Lanes : npu[l].valid}
           n == Cardinality(valid)
           todo == [k \in DOMAIN order |-> Object(order[k])]
<1>1. IsFiniteSet(valid)
  BY FS_Subset, NasMediaAssumption
<1>2. n \in Nat /\ n # 0
  BY <1>1, FS_CardinalityType, FS_EmptySet
<1>3. order \in [1..n -> valid]
  BY DEF SetToSeqs
<1>4. \A l \in Lanes : Object(l) \in Request
  <2>1. media.type \in Held
    BY DEF TypeOK, MediaThread
  <2>2. \A l \in Lanes : cache[l].loopback \in Loopbacks
    BY DEF TypeOK, Entry
  <2> QED BY <2>1, <2>2 DEF Object, Request
<1>5. \A k \in 1..n : order[k] \in Lanes /\ npu[order[k]].valid
  BY <1>3
<1> HIDE DEF n, valid
<1>6. todo \in [1..n -> Request] /\ DOMAIN todo = 1..n
  BY <1>3, <1>4, <1>5
<1>7. todo \in Seq(Request) /\ Len(todo) = n
  BY <1>2, <1>6, SeqDef, LenProperties
<1>8. todo # <<>>
  BY <1>2, <1>7
<1> QED BY <1>3, <1>5, <1>6, <1>7, <1>8

LEMMA InitType == Init => TypeInv
<1> SUFFICES ASSUME Init PROVE TypeInv
  OBVIOUS
<1>1. pas \in Types /\ mode \in Modes
  BY DEF Init
<1>2. npu \in [Lanes -> Port] /\ cache \in [Lanes -> Entry]
  BY DEF Init, Port, Entry, NewPort, NoPort, Held, Loopbacks
<1>3. news \in Seq(Types) /\ events \in Seq(Lanes)
  BY DEF Init
<1>4. media \in MediaThread /\ Sending
  BY DEF Init, MediaThread, Starting, Held, Sending
<1>5. monitor \in Monitor
  BY NasMediaAssumption DEF Init, Monitor, Held
<1>6. history \in History
  BY DEF Init, History, Loopbacks
<1>7. spent \in [{"pas", "breakouts", "loopback", "faults"} -> Nat]
  BY DEF Init
<1> QED BY <1>1, <1>2, <1>3, <1>4, <1>5, <1>6, <1>7 DEF TypeInv, TypeOK
LEMMA OnwardType ==
  ASSUME NEW m \in MediaThread
  PROVE  Onward(m) \in MediaThread /\ Onward(m).pc # "send"
<1>1. <<>> \in Seq(Request)
  BY EmptySeq
<1>2. m.registered \in BOOLEAN /\ m.type \in Held
  BY DEF MediaThread
<1>3. Onward(m) \in MediaThread
  BY <1>1, <1>2 DEF Onward, MediaThread
<1>4. Onward(m).pc # "send"
  BY DEF Onward, MediaThread
<1> QED BY <1>3, <1>4

LEMMA MediaType == TypeInv /\ MediaStep => TypeInv'
<1> SUFFICES ASSUME TypeInv, MediaStep PROVE TypeInv'
  OBVIOUS
<1> USE DEF TypeInv
<1>1. ASSUME NEW f, MediaList(f) PROVE TypeInv'
  <2>1. media' \in MediaThread /\ Sending'
    <3>1. CASE media' = Onward(media)
      BY <3>1, OnwardType DEF TypeOK, Sending
    <3>2. CASE media' = [media EXCEPT !.pc = "find", !.type = pas]
      BY <3>2 DEF TypeOK, MediaThread, Sending, Held
    <3> QED BY <1>1, <3>1, <3>2 DEF MediaList
  <2>2. history' \in History
    BY <1>1 DEF MediaList, TypeOK, History
  <2> QED BY <1>1, <2>1, <2>2, FaultType DEF MediaList, TypeOK
<1>2. CASE MediaRegister
  <2>1. media' \in MediaThread /\ Sending'
    BY <1>2 DEF MediaRegister, TypeOK, MediaThread, Sending
  <2> QED BY <1>2, <2>1 DEF MediaRegister, TypeOK
<1>3. CASE MediaTake
  <2>1. Head(news) \in Types /\ Tail(news) \in Seq(Types)
    BY <1>3, HeadTailProperties DEF MediaTake, TypeOK
  <2>2. media' \in MediaThread /\ Sending'
    BY <1>3, <2>1 DEF MediaTake, TypeOK, MediaThread, Sending, Held
  <2> QED BY <1>3, <2>1, <2>2 DEF MediaTake, TypeOK
<1>4. ASSUME NEW f, MediaFind(f) PROVE TypeInv'
  <2>1. media' \in MediaThread /\ Sending'
    <3>1. CASE media' = Onward(media)
      BY <3>1, OnwardType DEF TypeOK, Sending
    <3>2. ASSUME {l \in Lanes : npu[l].valid} # {},
                 NEW order \in SetToSeqs({l \in Lanes : npu[l].valid}),
                 media' = [media EXCEPT !.pc = "send",
                             !.todo = [k \in DOMAIN order |-> Object(order[k])]]
          PROVE  media' \in MediaThread /\ Sending'
      <4> DEFINE todo == [k \in DOMAIN order |-> Object(order[k])]
      <4>1. todo \in Seq(Request) /\ todo # <<>>
        BY <3>2, ObjectsType
      <4>2. media' = [media EXCEPT !.pc = "send", !.todo = todo]
        BY <3>2
      <4> HIDE DEF todo
      <4> QED BY <4>1, <4>2 DEF TypeOK, MediaThread, Sending
    <3>3. \/ media' = Onward(media)
          \/ /\ {l \in Lanes : npu[l].valid} # {}
             /\ \E order \in SetToSeqs({l \in Lanes : npu[l].valid}) :
                  media' = [media EXCEPT !.pc = "send",
                              !.todo = [k \in DOMAIN order |-> Object(order[k])]]
      BY <1>4, Zenon DEF MediaFind
    <3> QED BY <3>1, <3>2, <3>3
  <2>2. history' \in History
    BY <1>4 DEF MediaFind, TypeOK, History
  <2> QED BY <1>4, <2>1, <2>2, FaultType DEF MediaFind, TypeOK
<1>5. ASSUME NEW f, MediaSend(f) PROVE TypeInv'
  <2>1. media \in MediaThread /\ media.todo # <<>>
    BY <1>5 DEF MediaSend, Sending, TypeOK
  <2>2. Head(media.todo) \in Request /\ Tail(media.todo) \in Seq(Request)
    BY <2>1, HeadTailProperties DEF MediaThread
  <2>3. Len(media.todo) # 1 => Tail(media.todo) # <<>>
    <3>1. media.todo \in Seq(Request)
      BY <2>1 DEF MediaThread
    <3>2. Len(media.todo) \in Nat /\ Len(media.todo) # 0
      BY <2>1, <3>1, LenProperties, EmptySeq
    <3>3. Len(Tail(media.todo)) = Len(media.todo) - 1
      BY <2>1, <3>1, HeadTailProperties
    <3> HAVE Len(media.todo) # 1
    <3>4. Len(Tail(media.todo)) # 0
      BY <3>2, <3>3
    <3>5. Tail(media.todo) \in Seq(Request)
      BY <2>2
    <3> QED BY <3>4, <3>5, EmptySeq
  <2>4. media' \in MediaThread /\ Sending'
    <3>1. CASE Len(media.todo) = 1
      BY <1>5, <2>1, <3>1, OnwardType DEF MediaSend, Sending
    <3>2. CASE Len(media.todo) # 1
      BY <1>5, <2>1, <2>2, <2>3, <3>2 DEF MediaSend, MediaThread, Sending
    <3> QED BY <3>1, <3>2
  <2> QED BY <1>5, <2>2, <2>4, PhySetType DEF MediaSend, TypeOK
<1> QED BY <1>1, <1>2, <1>3, <1>4, <1>5 DEF MediaStep

LEMMA MonitorType == TypeInv /\ MonitorStep => TypeInv'
<1> SUFFICES ASSUME TypeInv, MonitorStep PROVE TypeInv'
  OBVIOUS
<1> USE DEF TypeInv
<1>1. CASE MonitorTake
  <2>1. Head(events) \in Lanes /\ Tail(events) \in Seq(Lanes)
    BY <1>1, HeadTailProperties DEF MonitorTake, TypeOK
  <2>2. monitor' \in Monitor
    BY <1>1, <2>1 DEF MonitorTake, TypeOK, Monitor
  <2> QED BY <1>1, <2>1, <2>2 DEF MonitorTake, TypeOK, Sending
<1>2. ASSUME NEW f, MonitorStart(f) PROVE TypeInv'
  <2>1. monitor' \in Monitor
    BY <1>2 DEF MonitorStart, TypeOK, Monitor, Die, Back
  <2> QED BY <1>2, <2>1, FaultType DEF MonitorStart, TypeOK, Sending
<1>3. ASSUME NEW f, MonitorPas(f) PROVE TypeInv'
  <2>1. monitor' \in Monitor
    BY <1>3 DEF MonitorPas, TypeOK, Monitor, Die, Held
  <2> QED BY <1>3, <2>1, FaultType DEF MonitorPas, TypeOK, Sending
<1>4. ASSUME NEW f, MonitorSend(f) PROVE TypeInv'
  <2>1. monitor' \in Monitor
    BY <1>4 DEF MonitorSend, TypeOK, Monitor, Back
  <2>2. [lane |-> monitor.lane, type |-> monitor.type, loopback |-> None] \in Request
    BY DEF TypeOK, Monitor, Request
  <2> QED BY <1>4, <2>1, <2>2, PhySetType DEF MonitorSend, TypeOK, Sending
<1> QED BY <1>1, <1>2, <1>3, <1>4 DEF MonitorStep

LEMMA LoopbackRequest ==
  ASSUME NEW l \in Lanes, NEW v \in Loopbacks
  PROVE  [lane |-> l, type |-> None, loopback |-> v] \in Request
BY DEF Request, Held

LEMMA OtherType == TypeInv /\ Other => TypeInv'
<1> SUFFICES ASSUME TypeInv, Other PROVE TypeInv'
  OBVIOUS
<1> USE DEF TypeInv
<1>1. ASSUME NEW t \in Types, PasChanges(t) PROVE TypeInv'
  <2>1. news' \in Seq(Types)
    BY <1>1 DEF PasChanges, TypeOK
  <2>2. history' \in History
    BY <1>1 DEF PasChanges, TypeOK, History, Monitor
  <2> QED BY <1>1, <2>1, <2>2, SpendType DEF PasChanges, TypeOK, Sending
<1>2. ASSUME NEW m \in Modes, Breakout(m) PROVE TypeInv'
  <2>1. npu' \in [Lanes -> Port]
    BY <1>2 DEF Breakout, NoPort, NewPort, Port, Held, Loopbacks
  <2> QED BY <1>2, <2>1, SpendType DEF Breakout, TypeOK, Sending
<1>3. ASSUME NEW l \in Lanes, PortAppears(l) PROVE TypeInv'
  <2>1. npu' \in [Lanes -> Port]
    BY <1>3 DEF PortAppears, NewPort, Port, Held, Loopbacks, TypeOK
  <2>2. events' \in Seq(Lanes)
    BY <1>3 DEF PortAppears, TypeOK
  <2>3. history' \in History
    BY <1>3 DEF PortAppears, TypeOK, History
  <2> QED BY <1>3, <2>1, <2>2, <2>3 DEF PortAppears, TypeOK, Sending
<1>4. ASSUME NEW l \in Lanes, NEW v \in Loopbacks, SetLoopback(l, v) PROVE TypeInv'
  <2> DEFINE r == [lane |-> l, type |-> None, loopback |-> v]
  <2>1. PortAfter(r, "none") \in Port /\ EntryAfter(r, "none") \in Entry
    BY LoopbackRequest, PhyTypes DEF TypeOK, Order
  <2>2. history' \in History
    BY <1>4 DEF SetLoopback, TypeOK, History
  <2> HIDE DEF r
  <2>3. npu' = [npu EXCEPT ![l] = PortAfter(r, "none")]
        /\ cache' = [cache EXCEPT ![l] = EntryAfter(r, "none")]
    BY <1>4 DEF SetLoopback, r
  <2> QED BY <1>4, <2>1, <2>2, <2>3, SpendType DEF SetLoopback, TypeOK, Sending
<1> QED BY <1>1, <1>2, <1>3, <1>4 DEF Other

LEMMA TypeNext == TypeInv /\ [Next]_vars => TypeInv'
<1>1. TypeInv /\ UNCHANGED vars => TypeInv'
  BY DEF TypeInv, TypeOK, Sending, vars
<1> QED BY <1>1, MediaType, MonitorType, OtherType DEF Next

(* Every variable keeps its type. *)
THEOREM TypeCorrect == Spec => []TypeOK
<1>1. TypeInv => TypeOK
  BY DEF TypeInv
<1> QED BY <1>1, InitType, TypeNext, PTL DEF Spec
-----------------------------------------------------------------------------
(* The cache. *)

(* The two parts of CacheIsApplied, of one lane. *)
Believed(l) == npu[l].valid /\ l \notin history.apart => npu[l].media = cache[l].media
Complete(l) ==
  npu[l].valid /\ npu[l].media = cache[l].media /\ cache[l].media \in Listed =>
    \A a \in Given[cache[l].media] :
      (a = "speed" => mode = "whole") => npu[l][a] = cache[l].media

LEMMA CacheByLane == CacheIsApplied <=> \A l \in Lanes : Believed(l) /\ Complete(l)
BY DEF CacheIsApplied, Believed, Complete

(* A request either sets the type with all of its settings, or leaves a     *)
(* type in the port that the cache does not have, or changes neither.       *)
LEMMA PhySetKeepsCache ==
  ASSUME TypeOK, NEW r \in Request, NEW f, PhySet(r, f), UNCHANGED mode, CacheIsApplied
  PROVE  CacheIsApplied'
<1>1. CASE UNCHANGED <<npu, cache, history>>
  BY <1>1 DEF CacheIsApplied
<1>2. CASE /\ f \in DOMAIN Order /\ npu[r.lane].valid
           /\ npu' = [npu EXCEPT ![r.lane] = PortAfter(r, f)]
           /\ cache' = [cache EXCEPT ![r.lane] = EntryAfter(r, f)]
           /\ history' = [history EXCEPT !.apart = ApartAfter(r, f), !.behind = BehindAfter(r, f)]
  <2> DEFINE k == r.lane
             q == PortAfter(r, f)
             e == EntryAfter(r, f)
  <2>1. k \in Lanes /\ npu \in [Lanes -> Port] /\ cache \in [Lanes -> Entry] /\ history \in History
    BY DEF Request, TypeOK
  <2>2. /\ ~Applies(r) => q.media = npu[k].media /\ \A a \in Settings : q[a] = npu[k][a]
        /\ Applies(r) => q.media = IF f = "media" THEN npu[k].media ELSE r.type
        /\ Applies(r) /\ MediaSucceeds(r, f) =>
             \A a \in Given[r.type] \cap Settings :
               (a = "speed" => mode = "whole") => q[a] = r.type
    BY <1>2, <2>1, PortFields
  <2>3. e.media = IF Applies(r) /\ MediaSucceeds(r, f) THEN r.type ELSE cache[k].media
    BY DEF EntryAfter
  <2>4. Applies(r) => r.type # cache[k].media
    BY DEF Applies
  <2>5. Applies(r) /\ MediaSucceeds(r, f) => f # "media"
    BY <1>2, OrderFacts DEF MediaSucceeds
  <2>6. history'.apart = ApartAfter(r, f)
    BY <1>2, <2>1 DEF History
  <2>7. Believed(k) /\ Complete(k)
    BY <2>1, CacheByLane
  <2>8. npu'[k] = q /\ cache'[k] = e
    BY <1>2, <2>1
  <2>9. \A t \in Listed : Given[t] \subseteq Settings
    BY NasMediaAssumption
  <2>10. Applies(r) /\ f = "media" => \A a \in Settings : q[a] = npu[k][a]
    <3> SUFFICES ASSUME Applies(r), f = "media", NEW a \in Settings PROVE q[a] = npu[k][a]
      OBVIOUS
    <3>1. ~LoopbackSucceeds(r, f)
      BY <2>5 DEF LoopbackSucceeds
    <3>2. q = Configured(npu[k], r.type, f)
      BY <3>1 DEF PortAfter
    <3>3. \A b \in Settings : ~(Order[b] < Order[f])
      BY <1>2, OrderFacts
    <3>4. npu[k] \in Port
      BY <2>1
    <3> QED BY <3>2, <3>3, <3>4 DEF Configured, Settings, Port
  <2> HIDE DEF q, e
  <2>11. Believed(k)'
    <3>1. CASE Applies(r) /\ MediaSucceeds(r, f)
      BY <2>2, <2>3, <2>5, <2>8, <3>1 DEF Believed
    <3>2. CASE Applies(r) /\ ~MediaSucceeds(r, f) /\ f # "media"
      BY <2>6, <3>2 DEF Believed, ApartAfter
    <3>3. CASE ~Applies(r) \/ (~MediaSucceeds(r, f) /\ f = "media")
      <4>1. history'.apart = history.apart
        BY <2>6, <3>3 DEF ApartAfter
      <4>2. q.media = npu[k].media /\ e.media = cache[k].media
        BY <2>2, <2>3, <3>3
      <4> QED BY <1>2, <2>7, <2>8, <4>1, <4>2 DEF Believed
    <3> QED BY <3>1, <3>2, <3>3
  <2>12. Complete(k)'
    <3>1. CASE Applies(r) /\ MediaSucceeds(r, f)
      BY <2>2, <2>3, <2>8, <2>9, <3>1 DEF Complete
    <3>2. CASE Applies(r) /\ ~MediaSucceeds(r, f) /\ f # "media"
      BY <2>2, <2>3, <2>4, <2>8, <3>2 DEF Complete
    <3>3. CASE ~Applies(r) \/ (~MediaSucceeds(r, f) /\ f = "media")
      <4>1. q.media = npu[k].media /\ e.media = cache[k].media
        BY <2>2, <2>3, <3>3
      <4>2. \A a \in Settings : q[a] = npu[k][a]
        BY <2>2, <2>10, <3>3
      <4> QED BY <1>2, <2>7, <2>8, <2>9, <4>1, <4>2 DEF Complete
    <3> QED BY <3>1, <3>2, <3>3
  <2>13. ASSUME NEW l \in Lanes, l # k PROVE Believed(l)' /\ Complete(l)'
    <3>1. npu'[l] = npu[l] /\ cache'[l] = cache[l]
      BY <1>2, <2>1, <2>13
    <3>2. l \in history'.apart <=> l \in history.apart
      BY <2>6, <2>13 DEF ApartAfter
    <3>3. Believed(l) /\ Complete(l)
      BY CacheByLane
    <3> QED BY <3>1, <3>2, <3>3 DEF Believed, Complete
  <2>14. \A l \in Lanes : Believed(l)' /\ Complete(l)'
    BY <2>11, <2>12, <2>13
  <2> QED BY <2>14 DEF CacheIsApplied, Believed, Complete
<1> QED BY <1>1, <1>2 DEF PhySet
LEMMA CacheNext == TypeInv /\ CacheIsApplied /\ [Next]_vars => CacheIsApplied'
<1> SUFFICES ASSUME TypeInv, CacheIsApplied, [Next]_vars PROVE CacheIsApplied'
  OBVIOUS
<1> USE DEF TypeInv
<1>1. CASE UNCHANGED vars
  BY <1>1 DEF vars, CacheIsApplied
<1>2. CASE UNCHANGED <<mode, npu, cache>> /\ history'.apart = history.apart
  BY <1>2 DEF CacheIsApplied
<1>3. ASSUME NEW f, MediaSend(f) PROVE CacheIsApplied'
  <2>1. media.todo \in Seq(Request) /\ media.todo # <<>>
    BY <1>3 DEF MediaSend, Sending, TypeOK, MediaThread
  <2>2. Head(media.todo) \in Request
    BY <2>1, HeadTailProperties
  <2> QED BY <1>3, <2>2, PhySetKeepsCache DEF MediaSend
<1>4. ASSUME NEW f, MonitorSend(f) PROVE CacheIsApplied'
  <2>1. [lane |-> monitor.lane, type |-> monitor.type, loopback |-> None] \in Request
    BY DEF TypeOK, Monitor, Request
  <2> QED BY <1>4, <2>1, PhySetKeepsCache DEF MonitorSend
<1>5. ASSUME NEW m \in Modes, Breakout(m) PROVE CacheIsApplied'
  BY <1>5 DEF Breakout, CacheIsApplied, NoPort, NewPort
<1>6. ASSUME NEW l \in Lanes, PortAppears(l) PROVE CacheIsApplied'
  <2>1. npu' = [npu EXCEPT ![l] = NewPort] /\ UNCHANGED <<mode, cache>>
    BY <1>6 DEF PortAppears
  <2>2. history'.apart = IF cache[l].media = None THEN history.apart ELSE history.apart \cup {l}
    BY <1>6 DEF PortAppears, TypeOK, History
  <2>3. NewPort.media = None /\ None \notin Listed
    BY NasMediaAssumption DEF NewPort
  <2>4. ASSUME NEW k \in Lanes PROVE Believed(k)' /\ Complete(k)'
    <3>1. CASE k = l
      BY <2>1, <2>2, <2>3, <3>1 DEF Believed, Complete, TypeOK
    <3>2. CASE k # l
      <4>1. Believed(k) /\ Complete(k)
        BY CacheByLane
      <4>2. npu'[k] = npu[k] /\ cache'[k] = cache[k] /\ mode' = mode
        BY <2>1, <3>2 DEF TypeOK
      <4>3. k \in history'.apart <=> k \in history.apart
        BY <2>2, <3>2
      <4> QED BY <4>1, <4>2, <4>3 DEF Believed, Complete
    <3> QED BY <3>1, <3>2
  <2> QED BY <2>4 DEF CacheIsApplied, Believed, Complete
<1>7. ASSUME NEW l \in Lanes, NEW v \in Loopbacks, SetLoopback(l, v) PROVE CacheIsApplied'
  <2> DEFINE r == [lane |-> l, type |-> None, loopback |-> v]
  <2>1. r \in Request /\ ~Applies(r) /\ "none" \in DOMAIN Order
    BY LoopbackRequest DEF Applies, Order
  <2>2. LET q == PortAfter(r, "none")
        IN q.media = npu[l].media /\ \A a \in Settings : q[a] = npu[l][a]
    BY <2>1, PortFields DEF TypeOK
  <2>3. EntryAfter(r, "none").media = cache[l].media
    BY <2>1 DEF EntryAfter
  <2>4. PortAfter(r, "none").valid = npu[l].valid
    BY <2>1, PortFields DEF TypeOK
  <2> DEFINE q == PortAfter(r, "none")
             e == EntryAfter(r, "none")
  <2>5. npu' = [npu EXCEPT ![l] = q] /\ cache' = [cache EXCEPT ![l] = e] /\ mode' = mode
    BY <1>7 DEF SetLoopback
  <2>6. history'.apart = history.apart
    BY <1>7 DEF SetLoopback, TypeOK, History
  <2>7. q.media = npu[l].media /\ e.media = cache[l].media /\ q.valid = npu[l].valid
        /\ \A a \in Settings : q[a] = npu[l][a]
    BY <2>2, <2>3, <2>4
  <2> HIDE DEF q, e
  <2>8. ASSUME NEW k \in Lanes
        PROVE  /\ npu'[k].valid = npu[k].valid /\ npu'[k].media = npu[k].media
               /\ cache'[k].media = cache[k].media
               /\ \A a \in Settings : npu'[k][a] = npu[k][a]
    BY <2>5, <2>7 DEF TypeOK
  <2>9. \A t \in Listed : Given[t] \subseteq Settings
    BY NasMediaAssumption
  <2>10. ASSUME NEW k \in Lanes PROVE Believed(k)' /\ Complete(k)'
    <3>1. Believed(k) /\ Complete(k)
      BY CacheByLane
    <3> QED BY <2>5, <2>6, <2>8, <2>9, <3>1 DEF Believed, Complete
  <2> QED BY <2>10 DEF CacheIsApplied, Believed, Complete
<1>8. ASSUME \/ \E f : MediaList(f) \/ MediaFind(f) \/ MonitorStart(f) \/ MonitorPas(f)
             \/ MediaRegister \/ MediaTake \/ MonitorTake
             \/ \E t : PasChanges(t)
      PROVE  CacheIsApplied'
  <2>1. UNCHANGED <<mode, npu, cache>>
    BY <1>8 DEF MediaList, MediaFind, MonitorStart, MonitorPas, MediaRegister, MediaTake,
                MonitorTake, PasChanges
  <2>2. history'.apart = history.apart
    BY <1>8 DEF MediaList, MediaFind, MonitorStart, MonitorPas, MediaRegister, MediaTake,
                MonitorTake, PasChanges, TypeOK, History
  <2> QED BY <1>2, <2>1, <2>2
<1> QED BY <1>1, <1>3, <1>4, <1>5, <1>6, <1>7, <1>8 DEF Next, MediaStep, MonitorStep, Other

(* What the daemon's cache says of a port is so: the media type, unless     *)
(* apart names the lane, and where it is so, all of the type's settings.    *)
THEOREM CacheTrue == Spec => []CacheIsApplied
<1>1. Init => TypeInv /\ CacheIsApplied
  <2>1. Init => CacheIsApplied
    BY NasMediaAssumption DEF Init, CacheIsApplied, NewPort, NoPort
  <2> QED BY <2>1, InitType
<1>2. TypeInv /\ CacheIsApplied /\ [Next]_vars => (TypeInv /\ CacheIsApplied)'
  BY TypeNext, CacheNext
<1> QED BY <1>1, <1>2, PTL DEF Spec
-----------------------------------------------------------------------------
(* Loopback: besides the port, the cache has the value last asked for, and  *)
(* so does each object the media thread holds.                              *)

Keeps(l) ==
  /\ cache[l].loopback = history.asked[l]
  /\ npu[l].valid => npu[l].loopback = history.asked[l]
  /\ \A i \in DOMAIN media.todo :
       media.todo[i].lane = l => media.todo[i].loopback \in {None, history.asked[l]}

LoopbackInv == \A l \in Lanes \ history.undone : Keeps(l)

(* A request with the value last asked for, or with none, changes nothing.  *)
LEMMA PhySetKeepsLoopback ==
  ASSUME TypeOK, NEW r \in Request, NEW f, PhySet(r, f), LoopbackInv,
         r.lane \notin history.undone => r.loopback \in {None, history.asked[r.lane]},
         media.todo \in Seq(Request),
         \/ media'.todo \in {media.todo, <<>>}
         \/ media.todo # <<>> /\ media'.todo = Tail(media.todo)
  PROVE  LoopbackInv'
<1>1. history'.undone = history.undone /\ history'.asked = history.asked
  BY DEF PhySet, TypeOK, History
<1>2. \A i \in DOMAIN media'.todo : \E j \in DOMAIN media.todo : media'.todo[i] = media.todo[j]
  <2>1. CASE media'.todo = <<>>
    BY <2>1, EmptySeq
  <2>2. CASE media.todo # <<>> /\ media'.todo = Tail(media.todo)
    <3>1. /\ Tail(media.todo) \in Seq(Request)
          /\ Len(Tail(media.todo)) = Len(media.todo) - 1
          /\ \A i \in 1..Len(Tail(media.todo)) : Tail(media.todo)[i] = media.todo[i+1]
      BY <2>2, HeadTailProperties
    <3>2. Len(media.todo) \in Nat /\ DOMAIN media.todo = 1..Len(media.todo)
      BY LenProperties
    <3>3. DOMAIN Tail(media.todo) = 1..Len(Tail(media.todo))
      BY <3>1, LenProperties
    <3>4. \A i \in 1..Len(Tail(media.todo)) : i + 1 \in 1..Len(media.todo)
      BY <3>1, <3>2
    <3> QED BY <2>2, <3>1, <3>2, <3>3, <3>4
  <2>3. CASE media'.todo = media.todo
    BY <2>3
  <2> QED BY <2>1, <2>2, <2>3
<1>3. ASSUME NEW l \in Lanes, l \notin history.undone
      PROVE  /\ cache'[l].loopback = history.asked[l]
             /\ npu'[l].valid => npu'[l].loopback = history.asked[l]
  <2>1. Keeps(l)
    BY <1>3 DEF LoopbackInv
  <2>2. CASE UNCHANGED <<npu, cache, history>>
    BY <2>1, <2>2 DEF Keeps
  <2>3. CASE /\ npu[r.lane].valid /\ f \in DOMAIN Order
             /\ npu' = [npu EXCEPT ![r.lane] = PortAfter(r, f)]
             /\ cache' = [cache EXCEPT ![r.lane] = EntryAfter(r, f)]
    <3>1. CASE r.lane = l
      <4>1. PortAfter(r, f).loopback =
              IF LoopbackSucceeds(r, f) THEN r.loopback ELSE npu[l].loopback
        BY <2>3, <3>1, PortFields DEF TypeOK
      <4>2. EntryAfter(r, f).loopback =
              IF LoopbackSucceeds(r, f) THEN r.loopback ELSE cache[l].loopback
        BY <3>1 DEF EntryAfter
      <4>3. LoopbackSucceeds(r, f) => r.loopback = history.asked[l]
        BY <1>3, <3>1 DEF LoopbackSucceeds
      <4>4. PortAfter(r, f).loopback = history.asked[l] /\ EntryAfter(r, f).loopback = history.asked[l]
        BY <2>1, <2>3, <3>1, <4>1, <4>2, <4>3 DEF Keeps
      <4> QED BY <2>3, <3>1, <4>4 DEF TypeOK
    <3>2. CASE r.lane # l
      BY <2>1, <2>3, <3>2 DEF Keeps, TypeOK
    <3> QED BY <3>1, <3>2
  <2> QED BY <2>2, <2>3 DEF PhySet
<1>4. ASSUME NEW l \in Lanes, l \notin history.undone PROVE Keeps(l)'
  <2>1. \A i \in DOMAIN media.todo :
          media.todo[i].lane = l => media.todo[i].loopback \in {None, history.asked[l]}
    BY <1>4 DEF LoopbackInv, Keeps
  <2> QED BY <1>1, <1>2, <1>3, <1>4, <2>1 DEF Keeps
<1> QED BY <1>1, <1>4 DEF LoopbackInv

LEMMA LoopbackNext == TypeInv /\ LoopbackInv /\ [Next]_vars => LoopbackInv'
<1> SUFFICES ASSUME TypeInv, LoopbackInv, [Next]_vars PROVE LoopbackInv'
  OBVIOUS
<1> USE DEF TypeInv
<1>1. CASE UNCHANGED vars
  BY <1>1 DEF vars, LoopbackInv, Keeps
<1>2. CASE /\ UNCHANGED <<npu, cache>> /\ media'.todo \in {media.todo, <<>>}
           /\ history'.undone = history.undone /\ history'.asked = history.asked
  <2>1. DOMAIN <<>> = {}
    BY EmptySeq
  <2> QED BY <1>2, <2>1 DEF LoopbackInv, Keeps
<1>3. ASSUME NEW f, MediaSend(f) PROVE LoopbackInv'
  <2> DEFINE r == Head(media.todo)
  <2>1. media.todo \in Seq(Request) /\ media.todo # <<>>
    BY <1>3 DEF MediaSend, Sending, TypeOK, MediaThread
  <2>2. r \in Request /\ 1 \in DOMAIN media.todo /\ r = media.todo[1]
    BY <2>1, HeadTailProperties, LenProperties, EmptySeq
  <2>3. r.lane \notin history.undone => r.loopback \in {None, history.asked[r.lane]}
    BY <2>2 DEF LoopbackInv, Keeps, Request
  <2>4. media'.todo = <<>> \/ media'.todo = Tail(media.todo)
    BY <1>3 DEF MediaSend, Onward, TypeOK, MediaThread
  <2> QED BY <1>3, <2>1, <2>2, <2>3, <2>4, PhySetKeepsLoopback DEF MediaSend
<1>4. ASSUME NEW f, MonitorSend(f) PROVE LoopbackInv'
  <2> DEFINE r == [lane |-> monitor.lane, type |-> monitor.type, loopback |-> None]
  <2>1. r \in Request /\ media.todo \in Seq(Request)
    BY DEF TypeOK, Monitor, Request, MediaThread
  <2>2. PhySet(r, f) /\ media'.todo = media.todo
    BY <1>4 DEF MonitorSend
  <2> QED BY <2>1, <2>2, PhySetKeepsLoopback
<1>5. ASSUME NEW f, MediaFind(f) PROVE LoopbackInv'
  <2>1. UNCHANGED <<npu, cache>> /\ history'.undone = history.undone
        /\ history'.asked = history.asked
    BY <1>5 DEF MediaFind, TypeOK, History
  <2>2. CASE media' = Onward(media)
    <3>1. media'.todo = <<>>
      BY <2>2 DEF Onward, TypeOK, MediaThread
    <3> QED BY <1>2, <2>1, <3>1
  <2>3. ASSUME {l \in Lanes : npu[l].valid} # {},
               NEW order \in SetToSeqs({l \in Lanes : npu[l].valid}),
               media' = [media EXCEPT !.pc = "send",
                           !.todo = [k \in DOMAIN order |-> Object(order[k])]]
        PROVE  LoopbackInv'
    <3> DEFINE todo == [k \in DOMAIN order |-> Object(order[k])]
    <3>1. \A k \in DOMAIN todo : \E l \in Lanes : todo[k] = Object(l) /\ npu[l].valid
      BY <2>3, ObjectsType
    <3>2. media'.todo = todo
      BY <2>3 DEF TypeOK, MediaThread
    <3> HIDE DEF todo
    <3>3. ASSUME NEW l \in Lanes, l \notin history.undone PROVE Keeps(l)'
      <4>1. Keeps(l)
        BY <3>3 DEF LoopbackInv
      <4>2. \A k \in DOMAIN todo :
              todo[k].lane = l => todo[k].loopback \in {None, history.asked[l]}
        BY <3>1, <4>1 DEF Keeps, Object
      <4> QED BY <2>1, <3>2, <4>1, <4>2 DEF Keeps
    <3> QED BY <2>1, <3>3 DEF LoopbackInv
  <2>4. \/ media' = Onward(media)
        \/ /\ {l \in Lanes : npu[l].valid} # {}
           /\ \E order \in SetToSeqs({l \in Lanes : npu[l].valid}) :
                media' = [media EXCEPT !.pc = "send",
                            !.todo = [k \in DOMAIN order |-> Object(order[k])]]
    BY <1>5, Zenon DEF MediaFind
  <2> QED BY <2>2, <2>3, <2>4
<1>6. ASSUME NEW m \in Modes, Breakout(m) PROVE LoopbackInv'
  BY <1>6 DEF Breakout, LoopbackInv, Keeps, NoPort, NewPort
<1>7. ASSUME NEW l \in Lanes, PortAppears(l) PROVE LoopbackInv'
  <2>1. npu' = [npu EXCEPT ![l] = NewPort] /\ UNCHANGED <<cache, media>>
    BY <1>7 DEF PortAppears
  <2>2. history'.undone = history.undone \cup {l} /\ history'.asked = history.asked
    BY <1>7 DEF PortAppears, TypeOK, History
  <2> QED BY <2>1, <2>2 DEF LoopbackInv, Keeps, TypeOK
<1>8. ASSUME NEW l \in Lanes, NEW v \in Loopbacks, SetLoopback(l, v) PROVE LoopbackInv'
  <2> DEFINE r == [lane |-> l, type |-> None, loopback |-> v]
             q == PortAfter(r, "none")
             e == EntryAfter(r, "none")
  <2>1. r \in Request /\ ~Applies(r) /\ "none" \in DOMAIN Order /\ v # None
    BY LoopbackRequest, NasMediaAssumption DEF Applies, Order
  <2>2. LoopbackSucceeds(r, "none")
    BY <2>1 DEF LoopbackSucceeds, MediaSucceeds
  <2>3. q.loopback = v
    BY <2>1, <2>2, PortFields DEF TypeOK
  <2>4. e.loopback = v
    BY <2>2 DEF EntryAfter
  <2>5. npu' = [npu EXCEPT ![l] = q] /\ cache' = [cache EXCEPT ![l] = e] /\ media' = media
    BY <1>8 DEF SetLoopback
  <2>6. /\ history'.asked = [history.asked EXCEPT ![l] = v]
        /\ history'.undone = IF HeldByMedia(l, v) THEN history.undone \cup {l}
                             ELSE history.undone \ {l}
    BY <1>8 DEF SetLoopback, TypeOK, History
  <2>7. npu \in [Lanes -> Port] /\ cache \in [Lanes -> Entry]
        /\ history.asked \in [Lanes -> Loopbacks]
    BY DEF TypeOK, History
  <2> HIDE DEF q, e
  <2>8. ASSUME NEW k \in Lanes, k \notin history'.undone PROVE Keeps(k)'
    <3>1. CASE k = l
      <4>1. \A i \in DOMAIN media.todo :
              media.todo[i].lane = l => media.todo[i].loopback \in {None, v}
        BY <2>6, <2>8, <3>1 DEF HeldByMedia
      <4> QED BY <2>3, <2>4, <2>5, <2>6, <2>7, <3>1, <4>1 DEF Keeps
    <3>2. CASE k # l
      <4>1. Keeps(k)
        BY <2>6, <2>8, <3>2 DEF LoopbackInv
      <4> QED BY <2>5, <2>6, <2>7, <3>2, <4>1 DEF Keeps
    <3> QED BY <3>1, <3>2
  <2> QED BY <2>8 DEF LoopbackInv
<1>9. ASSUME \/ \E f : MediaList(f) \/ MonitorStart(f) \/ MonitorPas(f)
             \/ MediaRegister \/ MediaTake \/ MonitorTake
             \/ \E t : PasChanges(t)
      PROVE  LoopbackInv'
  <2>1. UNCHANGED <<npu, cache>>
    BY <1>9 DEF MediaList, MonitorStart, MonitorPas, MediaRegister, MediaTake, MonitorTake,
                PasChanges
  <2>2. history'.undone = history.undone /\ history'.asked = history.asked
    BY <1>9 DEF MediaList, MonitorStart, MonitorPas, MediaRegister, MediaTake, MonitorTake,
                PasChanges, TypeOK, History
  <2>3. media'.todo \in {media.todo, <<>>}
    BY <1>9 DEF MediaList, MonitorStart, MonitorPas, MediaRegister, MediaTake, MonitorTake,
                PasChanges, TypeOK, MediaThread, Onward
  <2> QED BY <1>2, <2>1, <2>2, <2>3
<1> QED BY <1>1, <1>3, <1>4, <1>5, <1>6, <1>7, <1>8, <1>9 DEF Next, MediaStep, MonitorStep, Other

(* A loopback stays until a client sets another, although the media thread  *)
(* writes the one it read, but for the lanes that undone names.             *)
THEOREM LoopbackKept == Spec => []LoopbackStays
<1>1. Init => TypeInv /\ LoopbackInv
  <2>1. Init => LoopbackInv
    BY EmptySeq DEF Init, LoopbackInv, Keeps, NewPort, NoPort, Starting
  <2> QED BY <2>1, InitType
<1>2. TypeInv /\ LoopbackInv /\ [Next]_vars => (TypeInv /\ LoopbackInv)'
  BY TypeNext, LoopbackNext
<1>3. LoopbackInv => LoopbackStays
  BY DEF LoopbackInv, Keeps, LoopbackStays
<1> QED BY <1>1, <1>2, <1>3, PTL DEF Spec

-----------------------------------------------------------------------------
(* The type of PAS.  A port that has it neither in the NPU nor in the cache *)
(* has a step of one of the threads to come that will give it, unless       *)
(* behind names its lane; and who carries a type that PAS has replaced has  *)
(* a later event behind it, or is named there.                              *)

(* What will give the NPU's port of lane l the type of PAS.                 *)
Coming(l) ==
  \/ news # <<>> \/ media.pc = "list" \/ monitor.pc = "dead"
  \/ media.pc = "find" /\ media.type = pas
  \/ media.pc = "send" /\ media.type = pas /\ \E i \in 1..Len(media.todo) : media.todo[i].lane = l
  \/ \E i \in 1..Len(events) : events[i] = l
  \/ monitor.pc = "pas" /\ monitor.lane = l
  \/ monitor.pc = "send" /\ monitor.lane = l /\ monitor.type = pas

Fresh(l) ==
  npu[l].valid => pas \in {npu[l].media, cache[l].media} \/ l \in history.behind \/ Coming(l)

NewsInv ==
  /\ ~media.registered => news = <<>>
  /\ news # <<>> => news[Len(news)] = pas

MediaCarries ==
  /\ media.pc \in {"find", "send"} /\ media.type # pas =>
       IF media.registered THEN news # <<>> ELSE Lanes \subseteq history.behind
  /\ media.pc = "send" => \A i \in 1..Len(media.todo) : media.todo[i].type = media.type

MonitorCarries ==
  monitor.pc = "send" /\ monitor.type # pas => monitor.lane \in history.behind

MediaInv == NewsInv /\ MediaCarries /\ MonitorCarries /\ \A l \in Lanes : Fresh(l)

(* A sequence is its head and its tail. *)
LEMMA Taken ==
  ASSUME NEW S, NEW s \in Seq(S), s # <<>>
  PROVE  /\ Len(s) \in Nat /\ 1 \in 1..Len(s) /\ Head(s) = s[1]
         /\ Tail(s) \in Seq(S) /\ Len(Tail(s)) = Len(s) - 1
         /\ \A i \in 1..Len(s) : i = 1 \/ (i - 1 \in 1..Len(Tail(s)) /\ Tail(s)[i - 1] = s[i])
         /\ \A i \in 1..Len(Tail(s)) : i + 1 \in 1..Len(s) /\ Tail(s)[i] = s[i + 1]
<1>1. /\ Head(s) = s[1] /\ Tail(s) \in Seq(S) /\ Len(Tail(s)) = Len(s) - 1
      /\ Len(s) \in Nat \ {0} /\ \A i \in 1..Len(Tail(s)) : Tail(s)[i] = s[i + 1]
  BY HeadTailProperties, LenProperties, EmptySeq
<1>2. ASSUME NEW i \in 1..Len(s), i # 1
      PROVE  i - 1 \in 1..Len(Tail(s)) /\ Tail(s)[i - 1] = s[i]
  <2>1. i - 1 \in 1..Len(Tail(s)) /\ (i - 1) + 1 = i
    BY <1>1, <1>2
  <2> QED BY <1>1, <2>1
<1> QED BY <1>1, <1>2

LEMMA Added ==
  ASSUME NEW S, NEW s \in Seq(S), NEW x \in S
  PROVE  /\ Append(s, x) # <<>> /\ Append(s, x)[Len(Append(s, x))] = x
         /\ Len(Append(s, x)) \in 1..Len(Append(s, x))
         /\ \A i \in 1..Len(s) : i \in 1..Len(Append(s, x)) /\ Append(s, x)[i] = s[i]
<1>1. /\ Len(s) \in Nat /\ Len(Append(s, x)) = Len(s) + 1
      /\ Append(s, x)[Len(s) + 1] = x /\ \A i \in 1..Len(s) : Append(s, x)[i] = s[i]
  BY AppendProperties, LenProperties
<1>2. Append(s, x) # <<>>
  BY <1>1, EmptySeq
<1> QED BY <1>1, <1>2

(* What a request does to behind, and to the port it is for. *)
LEMMA PhySetBehind ==
  ASSUME TypeOK, NEW r \in Request, NEW f, PhySet(r, f)
  PROVE  /\ \A k \in history.behind \ history'.behind : k = r.lane /\ r.type = pas /\ ~Overtaken(k)
         /\ \A k \in Lanes : /\ npu'[k].valid <=> npu[k].valid
                             /\ k # r.lane => npu'[k] = npu[k] /\ cache'[k] = cache[k]
         /\ r.type = pas /\ npu[r.lane].valid =>
              \/ pas \in {npu'[r.lane].media, cache'[r.lane].media}
              \/ r.lane \in history'.behind
<1> DEFINE k == r.lane
<1>1. CASE UNCHANGED <<npu, cache, history>> /\ ~npu[k].valid
  BY <1>1
<1>2. CASE /\ npu[k].valid /\ f \in DOMAIN Order /\ Called(r, f)
           /\ npu' = [npu EXCEPT ![k] = PortAfter(r, f)]
           /\ cache' = [cache EXCEPT ![k] = EntryAfter(r, f)]
           /\ history' = [history EXCEPT !.apart = ApartAfter(r, f), !.behind = BehindAfter(r, f)]
  <2> DEFINE q == PortAfter(r, f)
             e == EntryAfter(r, f)
  <2>1. /\ q.valid = npu[k].valid
        /\ Applies(r) => q.media = IF f = "media" THEN npu[k].media ELSE r.type
    BY <1>2, PortFields DEF TypeOK
  <2>2. e.media = IF Applies(r) /\ MediaSucceeds(r, f) THEN r.type ELSE cache[k].media
    BY DEF EntryAfter
  <2>3. history'.behind = BehindAfter(r, f)
    BY <1>2 DEF TypeOK, History
  <2>4. k \in Lanes /\ pas # None
    BY NasMediaAssumption DEF Request, TypeOK
  <2>5. /\ npu'[k] = q /\ cache'[k] = e
        /\ \A j \in Lanes : j # k => npu'[j] = npu[j] /\ cache'[j] = cache[j]
    BY <1>2, <2>4 DEF TypeOK
  <2> HIDE DEF q, e
  <2>6. \A j \in history.behind \ history'.behind : j = k /\ r.type = pas /\ ~Overtaken(j)
    BY <2>3 DEF BehindAfter
  <2>7. ASSUME r.type = pas PROVE pas \in {q.media, e.media} \/ k \in history'.behind
    <3>1. CASE f = "media"
      BY <2>3, <3>1 DEF BehindAfter
    <3>2. CASE f # "media" /\ Applies(r)
      BY <2>1, <2>7, <3>2
    <3>3. CASE f # "media" /\ ~Applies(r)
      BY <2>2, <2>4, <2>7, <3>3 DEF Applies
    <3> QED BY <3>1, <3>2, <3>3
  <2> QED BY <2>1, <2>5, <2>6, <2>7
<1> QED BY <1>1, <1>2 DEF PhySet

(* The media thread reads every port that is there. *)
LEMMA ObjectsCover ==
  ASSUME TypeOK, NEW order \in SetToSeqs({l \in Lanes : npu[l].valid}),
         {l \in Lanes : npu[l].valid} # {},
         NEW todo, todo = [k \in DOMAIN order |-> Object(order[k])]
  PROVE  /\ \A i \in 1..Len(todo) : todo[i].type = media.type
         /\ \A l \in Lanes : npu[l].valid => \E i \in 1..Len(todo) : todo[i].lane = l
<1> DEFINE valid == {l \in Lanes : npu[l].valid}
           n == Cardinality(valid)
<1>1. IsFiniteSet(valid) /\ n \in Nat
  <2>1. IsFiniteSet(valid)
    BY FS_Subset, NasMediaAssumption
  <2> QED BY <2>1, FS_CardinalityType
<1>2. order \in [1..n -> valid] /\ \A i, j \in 1..n : i # j => order[i] # order[j]
  BY DEF SetToSeqs
<1>3. \A l \in valid : \E i \in 1..n : order[i] = l
  <2>1. order \in Injection(1..n, valid)
    BY <1>2 DEF Injection, IsInjective
  <2>2. Cardinality(1..n) = n
    BY <1>1, FS_Interval
  <2>3. order \in Surjection(1..n, valid)
    BY <1>1, <2>1, <2>2, FS_Injection
  <2> QED BY <2>3 DEF Surjection
<1>4. Len(todo) = n
  <2>1. todo \in Seq(Request)
    BY ObjectsType
  <2>2. DOMAIN todo = 1..n
    BY <1>2
  <2> HIDE DEF n
  <2> QED BY <1>1, <2>1, <2>2, LenProperties
<1>5. \A i \in 1..n : todo[i] = Object(order[i])
  BY <1>2
<1> HIDE DEF n, valid
<1>6. \A i \in 1..n : todo[i].type = media.type /\ todo[i].lane = order[i]
  <2>1. \A l : Object(l).type = media.type /\ Object(l).lane = l
    BY DEF Object
  <2> QED BY <1>5, <2>1
<1>7. ASSUME NEW l \in Lanes, npu[l].valid PROVE \E i \in 1..Len(todo) : todo[i].lane = l
  <2>1. l \in valid
    BY <1>7 DEF valid
  <2> QED BY <1>3, <1>4, <1>6, <2>1
<1> QED BY <1>4, <1>6, <1>7


LEMMA InitMedia == Init => MediaInv
<1> SUFFICES ASSUME Init PROVE MediaInv
  OBVIOUS
<1>1. news = <<>> /\ media.pc = "list" /\ ~media.registered /\ monitor.pc = "start"
  BY DEF Init, Starting
<1>2. NewsInv /\ MediaCarries /\ MonitorCarries
  BY <1>1 DEF NewsInv, MediaCarries, MonitorCarries
<1>3. \A l \in Lanes : Fresh(l)
  BY <1>1 DEF Fresh, Coming
<1> QED BY <1>2, <1>3 DEF MediaInv

(* A step that leaves the ports, the cache and behind, and takes nothing    *)
(* from what is to come.                                                    *)
LEMMA QuietFresh ==
  ASSUME NEW l, Fresh(l), npu' = npu, cache' = cache, pas' = pas,
         history.behind \subseteq history'.behind, Coming(l) => Coming(l)' \/ l \in history'.behind
  PROVE  Fresh(l)'
BY DEF Fresh

LEMMA MediaFresh == TypeInv /\ MediaInv /\ MediaStep => MediaInv'
<1> SUFFICES ASSUME TypeInv, MediaInv, MediaStep PROVE MediaInv'
  OBVIOUS
<1> USE DEF TypeInv
<1>0. /\ NewsInv /\ MediaCarries /\ MonitorCarries /\ \A l \in Lanes : Fresh(l)
      /\ media \in MediaThread /\ history \in History /\ pas \in Types
      /\ news \in Seq(Types)
  BY DEF MediaInv, TypeOK
<1>1. ASSUME NEW f, MediaList(f) PROVE MediaInv'
  <2>1. /\ npu' = npu /\ cache' = cache /\ pas' = pas /\ news' = news /\ monitor' = monitor
        /\ events' = events /\ media'.registered = media.registered
        /\ history'.behind = IF f = "pas" THEN Lanes ELSE history.behind
        /\ f # "pas" => media'.pc = "find" /\ media'.type = pas
        /\ f = "pas" => media'.pc \in {"wait", "register"}
    BY <1>0, <1>1 DEF MediaList, Onward, MediaThread, History
  <2>2. history.behind \subseteq history'.behind
    BY <1>0, <2>1 DEF History
  <2>3. NewsInv' /\ MonitorCarries'
    BY <1>0, <2>1, <2>2 DEF NewsInv, MonitorCarries
  <2>4. MediaCarries'
    BY <2>1 DEF MediaCarries
  <2>5. ASSUME NEW l \in Lanes PROVE Fresh(l)'
    <3>1. Coming(l)' \/ l \in history'.behind
      BY <2>1 DEF Coming
    <3> QED BY <1>0, <2>1, <2>2, <3>1, QuietFresh
  <2> QED BY <2>3, <2>4, <2>5 DEF MediaInv
<1>2. CASE MediaRegister
  <2>1. /\ npu' = npu /\ cache' = cache /\ pas' = pas /\ news' = news /\ monitor' = monitor
        /\ events' = events /\ history' = history
        /\ media.pc = "register" /\ media'.pc = "wait" /\ media'.registered
    BY <1>0, <1>2 DEF MediaRegister, MediaThread
  <2>2. NewsInv' /\ MonitorCarries' /\ MediaCarries'
    BY <1>0, <2>1 DEF NewsInv, MonitorCarries, MediaCarries
  <2>3. ASSUME NEW l \in Lanes PROVE Fresh(l)'
    <3>1. Coming(l) => Coming(l)'
      BY <2>1 DEF Coming
    <3> QED BY <1>0, <2>1, <3>1, QuietFresh
  <2> QED BY <2>2, <2>3 DEF MediaInv
<1>3. CASE MediaTake
  <2>1. /\ npu' = npu /\ cache' = cache /\ pas' = pas /\ monitor' = monitor
        /\ events' = events /\ history' = history
        /\ news # <<>> /\ news' = Tail(news) /\ media'.registered = media.registered
        /\ media'.pc = "find" /\ media'.type = Head(news)
    BY <1>0, <1>3 DEF MediaTake, MediaThread
  <2>2. /\ Len(news) \in Nat \ {0} /\ Head(news) = news[1] /\ news' \in Seq(Types)
        /\ Len(news') = Len(news) - 1 /\ \A i \in 1..Len(news') : news'[i] = news[i + 1]
    BY <1>0, <2>1, HeadTailProperties, LenProperties, EmptySeq
  <2>3. media.registered /\ news[Len(news)] = pas
    BY <1>0, <2>1 DEF NewsInv
  <2>4. CASE news' = <<>>
    <3>1. media'.type = pas
      <4>1. Len(news) = 1
        BY <2>2, <2>4
      <4> QED BY <2>1, <2>2, <2>3, <4>1
    <3>2. NewsInv' /\ MonitorCarries' /\ MediaCarries'
      BY <1>0, <2>1, <2>3, <2>4, <3>1 DEF NewsInv, MonitorCarries, MediaCarries
    <3>3. \A l \in Lanes : Coming(l)'
      BY <2>1, <3>1 DEF Coming
    <3> QED BY <1>0, <2>1, <3>2, <3>3, QuietFresh DEF MediaInv
  <2>5. CASE news' # <<>>
    <3>1. news'[Len(news')] = pas
      <4>1. Len(news') # 0 /\ Len(news') \in Nat
        BY <2>2, <2>5, LenProperties, EmptySeq
      <4>2. Len(news') \in 1..Len(news') /\ Len(news') + 1 = Len(news)
        BY <2>2, <4>1
      <4> QED BY <2>2, <2>3, <4>2
    <3>2. NewsInv' /\ MonitorCarries' /\ MediaCarries'
      BY <1>0, <2>1, <2>3, <2>5, <3>1 DEF NewsInv, MonitorCarries, MediaCarries
    <3>3. \A l \in Lanes : Coming(l)'
      BY <2>5 DEF Coming
    <3> QED BY <1>0, <2>1, <3>2, <3>3, QuietFresh DEF MediaInv
  <2> QED BY <2>4, <2>5
<1>4. ASSUME NEW f, MediaFind(f) PROVE MediaInv'
  <2>1. /\ npu' = npu /\ cache' = cache /\ pas' = pas /\ news' = news /\ monitor' = monitor
        /\ events' = events /\ media.pc = "find"
        /\ history'.behind = IF f = "front" THEN Lanes ELSE history.behind
    BY <1>0, <1>4 DEF MediaFind, History
  <2>2. history.behind \subseteq history'.behind
    BY <1>0, <2>1 DEF History
  <2>3. CASE media' = Onward(media) /\ (f = "front" \/ \A l \in Lanes : ~npu[l].valid)
    <3>1. media'.registered = media.registered /\ media'.pc \in {"wait", "register"}
      BY <1>0, <2>3 DEF Onward, MediaThread
    <3>2. NewsInv' /\ MonitorCarries' /\ MediaCarries'
      BY <1>0, <2>1, <2>2, <3>1 DEF NewsInv, MonitorCarries, MediaCarries
    <3>3. \A l \in Lanes : Fresh(l)'
      BY <2>1, <2>3 DEF Fresh
    <3> QED BY <3>2, <3>3 DEF MediaInv
  <2>4. ASSUME {l \in Lanes : npu[l].valid} # {},
               NEW order \in SetToSeqs({l \in Lanes : npu[l].valid}),
               media' = [media EXCEPT !.pc = "send",
                           !.todo = [k \in DOMAIN order |-> Object(order[k])]]
        PROVE  MediaInv'
    <3>1. PICK todo : todo = [k \in DOMAIN order |-> Object(order[k])]
      OBVIOUS
    <3>2. /\ \A i \in 1..Len(todo) : todo[i].type = media.type
          /\ \A l \in Lanes : npu[l].valid => \E i \in 1..Len(todo) : todo[i].lane = l
      BY <2>4, <3>1, ObjectsCover
    <3>3. /\ media'.pc = "send" /\ media'.todo = todo /\ media'.type = media.type
          /\ media'.registered = media.registered
      BY <1>0, <2>4, <3>1 DEF MediaThread
    <3>4. NewsInv' /\ MonitorCarries'
      BY <1>0, <2>1, <2>2, <3>3 DEF NewsInv, MonitorCarries
    <3>5. MediaCarries'
      BY <1>0, <2>1, <2>2, <3>2, <3>3 DEF MediaCarries
    <3>6. ASSUME NEW l \in Lanes PROVE Fresh(l)'
      <4>1. npu[l].valid /\ Coming(l) => Coming(l)'
        BY <2>1, <3>2, <3>3 DEF Coming
      <4> QED BY <1>0, <2>1, <2>2, <4>1 DEF Fresh
    <3> QED BY <3>4, <3>5, <3>6 DEF MediaInv
  <2>5. \/ media' = Onward(media) /\ (f = "front" \/ {l \in Lanes : npu[l].valid} = {})
        \/ /\ {l \in Lanes : npu[l].valid} # {}
           /\ \E order \in SetToSeqs({l \in Lanes : npu[l].valid}) :
                media' = [media EXCEPT !.pc = "send",
                            !.todo = [k \in DOMAIN order |-> Object(order[k])]]
    BY <1>4, Zenon DEF MediaFind
  <2> QED BY <2>3, <2>4, <2>5
<1>5. ASSUME NEW f, MediaSend(f) PROVE MediaInv'
  <2>1. PICK todo \in Seq(Request) : todo = media.todo /\ todo # <<>>
    BY <1>0, <1>5 DEF MediaSend, Sending, MediaThread
  <2>2. PICK r \in Request : r = Head(todo)
    BY <2>1, HeadTailProperties
  <2>3. /\ media.pc = "send" /\ PhySet(r, f)
        /\ pas' = pas /\ news' = news /\ monitor' = monitor /\ events' = events
        /\ media' = IF Len(todo) = 1 THEN Onward(media) ELSE [media EXCEPT !.todo = Tail(todo)]
    BY <1>5, <2>1, <2>2 DEF MediaSend
  <2>4. /\ media'.registered = media.registered
        /\ Len(todo) = 1 => media'.pc \in {"wait", "register"}
        /\ Len(todo) # 1 => media'.pc = "send" /\ media'.type = media.type /\ media'.todo = Tail(todo)
    BY <1>0, <2>3 DEF Onward, MediaThread
  <2>5. /\ 1 \in 1..Len(todo) /\ r = todo[1]
        /\ \A i \in 1..Len(todo) : i = 1 \/ (i - 1 \in 1..Len(Tail(todo)) /\ Tail(todo)[i - 1] = todo[i])
        /\ \A i \in 1..Len(Tail(todo)) : i + 1 \in 1..Len(todo) /\ Tail(todo)[i] = todo[i + 1]
    BY <2>1, <2>2, Taken
  <2>6. /\ \A k \in history.behind \ history'.behind : k = r.lane /\ r.type = pas /\ ~Overtaken(k)
        /\ \A k \in Lanes : /\ npu'[k].valid <=> npu[k].valid
                            /\ k # r.lane => npu'[k] = npu[k] /\ cache'[k] = cache[k]
        /\ r.type = pas /\ npu[r.lane].valid =>
             \/ pas \in {npu'[r.lane].media, cache'[r.lane].media}
             \/ r.lane \in history'.behind
    BY <2>3, PhySetBehind
  <2>7. r.type = media.type
    BY <1>0, <2>1, <2>3, <2>5 DEF MediaCarries
  <2>8. NewsInv'
    BY <1>0, <2>3, <2>4 DEF NewsInv
  <2>9. MonitorCarries'
    BY <1>0, <2>3, <2>6 DEF MonitorCarries, Overtaken
  <2>10. media.type # pas /\ ~media.registered => Lanes \subseteq history'.behind
    BY <1>0, <2>3, <2>6 DEF MediaCarries, Overtaken
  <2>11. MediaCarries'
    BY <1>0, <2>1, <2>3, <2>4, <2>5, <2>10 DEF MediaCarries
  <2>12. ASSUME NEW l \in Lanes PROVE Fresh(l)'
    <3>1. CASE media.type # pas
      <4>1. news # <<>> \/ l \in history'.behind
        BY <1>0, <2>3, <2>10, <3>1 DEF MediaCarries
      <4> QED BY <2>3, <4>1 DEF Fresh, Coming
    <3>2. CASE media.type = pas /\ l = r.lane
      BY <2>3, <2>6, <2>7, <3>2 DEF Fresh
    <3>3. CASE media.type = pas /\ l # r.lane
      <4>1. Coming(l) => Coming(l)'
        <5>1. ASSUME NEW i \in 1..Len(todo), todo[i].lane = l
              PROVE  media'.pc = "send" /\ media'.type = pas
                     /\ \E j \in 1..Len(media'.todo) : media'.todo[j].lane = l
          <6>1. i # 1
            BY <2>5, <3>3, <5>1
          <6>2. Len(todo) # 1
            <7>1. Len(todo) \in Nat
              BY <2>1, LenProperties
            <7> QED BY <5>1, <6>1, <7>1
          <6>3. PICK j \in 1..Len(Tail(todo)) : Tail(todo)[j] = todo[i]
            BY <2>5, <6>1
          <6>4. Tail(todo)[j].lane = l
            BY <5>1, <6>3
          <6> QED BY <2>4, <3>3, <6>2, <6>4
        <5> QED BY <2>1, <2>3, <5>1 DEF Coming
      <4>2. l \in history.behind => l \in history'.behind
        BY <2>6, <3>3
      <4> QED BY <1>0, <2>3, <2>6, <3>3, <4>1, <4>2 DEF Fresh
    <3> QED BY <3>1, <3>2, <3>3
  <2> QED BY <2>8, <2>9, <2>11, <2>12 DEF MediaInv
<1> QED BY <1>1, <1>2, <1>3, <1>4, <1>5 DEF MediaStep

LEMMA MonitorFresh == TypeInv /\ MediaInv /\ MonitorStep => MediaInv'
<1> SUFFICES ASSUME TypeInv, MediaInv, MonitorStep PROVE MediaInv'
  OBVIOUS
<1> USE DEF TypeInv
<1>0. /\ NewsInv /\ MediaCarries /\ MonitorCarries /\ \A l \in Lanes : Fresh(l)
      /\ monitor \in Monitor /\ history \in History /\ events \in Seq(Lanes)
  BY DEF MediaInv, TypeOK
<1>1. CASE MonitorTake
  <2>1. PICK es \in Seq(Lanes) : es = events /\ es # <<>>
    BY <1>0, <1>1 DEF MonitorTake
  <2>2. /\ npu' = npu /\ cache' = cache /\ pas' = pas /\ news' = news /\ media' = media
        /\ history' = history /\ events' = Tail(es)
        /\ monitor.pc = "wait" /\ monitor'.pc = "pas" /\ monitor'.lane = Head(es)
    BY <1>0, <1>1, <2>1 DEF MonitorTake, Monitor
  <2>3. /\ Head(es) = es[1]
        /\ \A i \in 1..Len(es) : i = 1 \/ (i - 1 \in 1..Len(Tail(es)) /\ Tail(es)[i - 1] = es[i])
    BY <2>1, Taken
  <2>4. NewsInv' /\ MediaCarries' /\ MonitorCarries'
    BY <1>0, <2>2 DEF NewsInv, MediaCarries, MonitorCarries
  <2>5. ASSUME NEW l \in Lanes PROVE Fresh(l)'
    <3>1. ASSUME NEW i \in 1..Len(es), es[i] = l
          PROVE  monitor'.lane = l \/ \E j \in 1..Len(events') : events'[j] = l
      BY <2>2, <2>3, <3>1
    <3>2. Coming(l) => Coming(l)'
      BY <2>1, <2>2, <3>1 DEF Coming
    <3> QED BY <1>0, <2>2, <3>2, QuietFresh
  <2> QED BY <2>4, <2>5 DEF MediaInv
<1>2. ASSUME NEW f, MonitorStart(f) \/ MonitorPas(f) PROVE MediaInv'
  <2>1. /\ npu' = npu /\ cache' = cache /\ pas' = pas /\ news' = news /\ media' = media
        /\ history' = history /\ events' = events
    BY <1>2 DEF MonitorStart, MonitorPas
  <2>2. \/ monitor'.pc = "dead"
        \/ monitor.pc = "start" /\ monitor'.pc = "wait"
        \/ /\ monitor.pc = "pas" /\ monitor'.pc = "send"
           /\ monitor'.lane = monitor.lane /\ monitor'.type = pas
    BY <1>0, <1>2 DEF MonitorStart, MonitorPas, Monitor, Die, Back
  <2>3. NewsInv' /\ MediaCarries' /\ MonitorCarries'
    BY <1>0, <2>1, <2>2 DEF NewsInv, MediaCarries, MonitorCarries
  <2>4. ASSUME NEW l \in Lanes PROVE Fresh(l)'
    <3>1. Coming(l) => Coming(l)'
      BY <2>1, <2>2 DEF Coming
    <3> QED BY <1>0, <2>1, <3>1, QuietFresh
  <2> QED BY <2>3, <2>4 DEF MediaInv
<1>3. ASSUME NEW f, MonitorSend(f) PROVE MediaInv'
  <2>1. PICK r \in Request : r = [lane |-> monitor.lane, type |-> monitor.type, loopback |-> None]
    BY <1>0 DEF Monitor, Request
  <2>2. r.lane = monitor.lane /\ r.type = monitor.type
    BY <2>1
  <2>3. /\ PhySet(r, f) /\ monitor.pc = "send"
        /\ pas' = pas /\ news' = news /\ media' = media /\ events' = events
        /\ monitor'.pc = "wait"
    BY <1>0, <1>3, <2>1 DEF MonitorSend, Back, Monitor
  <2>4. /\ \A k \in history.behind \ history'.behind : k = r.lane /\ r.type = pas /\ ~Overtaken(k)
        /\ \A k \in Lanes : /\ npu'[k].valid <=> npu[k].valid
                            /\ k # r.lane => npu'[k] = npu[k] /\ cache'[k] = cache[k]
        /\ r.type = pas /\ npu[r.lane].valid =>
             \/ pas \in {npu'[r.lane].media, cache'[r.lane].media}
             \/ r.lane \in history'.behind
    BY <2>3, PhySetBehind
  <2>5. NewsInv' /\ MonitorCarries'
    BY <1>0, <2>3 DEF NewsInv, MonitorCarries
  <2>6. MediaCarries'
    <3>1. media.pc \in {"find", "send"} /\ media.type # pas /\ ~media.registered
            => Lanes \subseteq history'.behind
      BY <1>0, <2>4 DEF MediaCarries, Overtaken
    <3> QED BY <1>0, <2>3, <3>1 DEF MediaCarries
  <2>7. ASSUME NEW l \in Lanes PROVE Fresh(l)'
    <3>1. CASE l # r.lane
      <4>1. Coming(l) => Coming(l)'
        BY <2>2, <2>3, <3>1 DEF Coming
      <4>2. l \in history.behind => l \in history'.behind
        BY <2>4, <3>1
      <4> QED BY <1>0, <2>3, <2>4, <3>1, <4>1, <4>2 DEF Fresh
    <3>2. CASE l = r.lane /\ r.type = pas
      BY <2>3, <2>4, <3>2 DEF Fresh
    <3>3. CASE l = r.lane /\ r.type # pas
      <4>1. l \in history.behind
        BY <1>0, <2>2, <2>3, <3>3 DEF MonitorCarries
      <4>2. l \in history'.behind
        BY <2>4, <3>3, <4>1
      <4> QED BY <4>2 DEF Fresh
    <3> QED BY <3>1, <3>2, <3>3
  <2> QED BY <2>5, <2>6, <2>7 DEF MediaInv
<1> QED BY <1>1, <1>2, <1>3 DEF MonitorStep

LEMMA OtherFresh == TypeInv /\ MediaInv /\ Other => MediaInv'
<1> SUFFICES ASSUME TypeInv, MediaInv, Other PROVE MediaInv'
  OBVIOUS
<1> USE DEF TypeInv
<1>0. /\ NewsInv /\ MediaCarries /\ MonitorCarries /\ \A l \in Lanes : Fresh(l)
      /\ monitor \in Monitor /\ history \in History /\ media \in MediaThread
      /\ news \in Seq(Types) /\ events \in Seq(Lanes)
      /\ npu \in [Lanes -> Port] /\ cache \in [Lanes -> Entry]
  BY DEF MediaInv, TypeOK
<1>1. ASSUME NEW t \in Types, PasChanges(t) PROVE MediaInv'
  <2>1. /\ npu' = npu /\ cache' = cache /\ pas' = t /\ media' = media
        /\ events' = events /\ monitor' = monitor
        /\ media.registered => news' = Append(news, t)
        /\ ~media.registered => news' = news
        /\ history.behind \subseteq history'.behind
        /\ ~media.registered /\ media.pc # "list" => Lanes \subseteq history'.behind
        /\ monitor.pc = "send" => monitor.lane \in history'.behind
    BY <1>0, <1>1 DEF PasChanges, History
  <2>2. media.registered => news' # <<>> /\ news'[Len(news')] = pas'
    BY <1>0, <2>1, Added
  <2>3. NewsInv' /\ MonitorCarries'
    BY <1>0, <2>1, <2>2 DEF NewsInv, MonitorCarries
  <2>4. MediaCarries'
    BY <1>0, <2>1, <2>2 DEF MediaCarries
  <2>5. ASSUME NEW l \in Lanes PROVE Fresh(l)'
    BY <2>1, <2>2 DEF Fresh, Coming
  <2> QED BY <2>3, <2>4, <2>5 DEF MediaInv
<1>2. ASSUME NEW m \in Modes, Breakout(m) PROVE MediaInv'
  <2>1. /\ npu' = [l \in Lanes |-> NoPort]
        /\ UNCHANGED <<pas, cache, news, events, media, monitor, history>>
    BY <1>2 DEF Breakout
  <2>2. NewsInv' /\ MediaCarries' /\ MonitorCarries'
    BY <1>0, <2>1 DEF NewsInv, MediaCarries, MonitorCarries
  <2>3. \A l \in Lanes : ~npu'[l].valid
    BY <2>1 DEF NoPort, NewPort
  <2> QED BY <2>2, <2>3 DEF MediaInv, Fresh
<1>3. ASSUME NEW p \in Lanes, PortAppears(p) PROVE MediaInv'
  <2>1. /\ npu' = [npu EXCEPT ![p] = NewPort]
        /\ cache' = cache /\ pas' = pas /\ news' = news /\ media' = media /\ monitor' = monitor
        /\ events' = IF Heard THEN Append(events, p) ELSE events
        /\ history.behind \subseteq history'.behind
        /\ ~Heard /\ media.pc # "list" => p \in history'.behind
    BY <1>0, <1>3 DEF PortAppears, History
  <2>2. NewsInv' /\ MonitorCarries' /\ MediaCarries'
    BY <1>0, <2>1 DEF NewsInv, MonitorCarries, MediaCarries
  <2>3. /\ Len(Append(events, p)) \in 1..Len(Append(events, p))
        /\ Append(events, p)[Len(Append(events, p))] = p
        /\ \A i \in 1..Len(events) :
             i \in 1..Len(Append(events, p)) /\ Append(events, p)[i] = events[i]
    BY <1>0, Added
  <2>4. ASSUME NEW l \in Lanes PROVE Fresh(l)'
    <3>1. CASE l = p
      <4>1. CASE Heard
        <5>1. \E i \in 1..Len(events') : events'[i] = l
          BY <2>1, <2>3, <3>1, <4>1
        <5> QED BY <5>1 DEF Fresh, Coming
      <4>2. CASE ~Heard
        BY <2>1, <3>1, <4>2 DEF Fresh, Coming
      <4> QED BY <4>1, <4>2
    <3>2. CASE l # p
      <4>1. npu'[l] = npu[l]
        BY <1>0, <2>1, <3>2
      <4>2. (\E i \in 1..Len(events) : events[i] = l) => \E i \in 1..Len(events') : events'[i] = l
        BY <2>1, <2>3
      <4>3. Coming(l) => Coming(l)'
        BY <2>1, <4>2 DEF Coming
      <4> QED BY <1>0, <2>1, <4>1, <4>3 DEF Fresh
    <3> QED BY <3>1, <3>2
  <2> QED BY <2>2, <2>4 DEF MediaInv
<1>4. ASSUME NEW p \in Lanes, NEW v \in Loopbacks, SetLoopback(p, v) PROVE MediaInv'
  <2>1. PICK r \in Request : r = [lane |-> p, type |-> None, loopback |-> v]
    BY LoopbackRequest
  <2>2. r.lane = p /\ r.type = None
    BY <2>1
  <2>3. /\ npu' = [npu EXCEPT ![p] = PortAfter(r, "none")]
        /\ cache' = [cache EXCEPT ![p] = EntryAfter(r, "none")]
        /\ UNCHANGED <<pas, news, events, media, monitor>>
        /\ history'.behind = history.behind
    BY <1>0, <1>4, <2>1 DEF SetLoopback, History
  <2>4. ~Applies(r)
    BY <2>2 DEF Applies
  <2>5. PortAfter(r, "none").media = npu[p].media /\ PortAfter(r, "none").valid = npu[p].valid
    BY <1>0, <2>2, <2>4 DEF PortAfter, Port
  <2>6. EntryAfter(r, "none").media = cache[p].media
    BY <2>2, <2>4 DEF EntryAfter
  <2>7. \A l \in Lanes : /\ npu'[l].media = npu[l].media /\ npu'[l].valid = npu[l].valid
                         /\ cache'[l].media = cache[l].media
    BY <1>0, <2>3, <2>5, <2>6
  <2>8. NewsInv' /\ MediaCarries' /\ MonitorCarries'
    BY <1>0, <2>3 DEF NewsInv, MediaCarries, MonitorCarries
  <2>9. ASSUME NEW l \in Lanes PROVE Fresh(l)'
    <3>1. Coming(l) => Coming(l)'
      BY <2>3 DEF Coming
    <3> QED BY <1>0, <2>3, <2>7, <3>1 DEF Fresh
  <2> QED BY <2>8, <2>9 DEF MediaInv
<1> QED BY <1>1, <1>2, <1>3, <1>4 DEF Other

LEMMA MediaNext == TypeInv /\ MediaInv /\ [Next]_vars => MediaInv'
<1> SUFFICES ASSUME TypeInv, MediaInv, [Next]_vars PROVE MediaInv'
  OBVIOUS
<1>1. CASE Next
  BY <1>1, MediaFresh, MonitorFresh, OtherFresh DEF Next
<1>2. CASE UNCHANGED vars
  BY <1>2 DEF vars, MediaInv, NewsInv, MediaCarries, MonitorCarries, Fresh, Coming
<1> QED BY <1>1, <1>2

(* Once both threads have handled every event, each port of the NPU has    *)
(* the type of PAS or the daemon believes it has, but for what behind      *)
(* names: until then something is Coming that will tell the daemon         *)
(* (monitor_phy_media, set_media_type_on_port_create, _phy_set).           *)
THEOREM MediaFollowed == Spec => []MediaFollowsPas
<1>1. MediaInv => MediaFollowsPas
  <2> SUFFICES ASSUME MediaInv, Quiet, NEW l \in Lanes, npu[l].valid
               PROVE  pas \in {npu[l].media, cache[l].media} \/ l \in history.behind
    BY DEF MediaFollowsPas
  <2>1. Len(events) = 0
    BY DEF Quiet
  <2>2. ~Coming(l)
    BY <2>1 DEF Quiet, Coming
  <2> QED BY <2>2 DEF MediaInv, Fresh
<1> QED BY <1>1, InitType, TypeNext, InitMedia, MediaNext, PTL DEF Spec


=============================================================================
