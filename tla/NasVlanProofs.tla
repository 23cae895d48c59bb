---------------------------- MODULE NasVlanProofs ---------------------------
(***************************************************************************)
(* Proofs about NasVlan, for any finite set of ports, any bridges, VLAN  *)
(* ids, requests and bounds, with any calls failing: types, and that the *)
(* NPU holds nothing the bridge table cannot account for; and, when no   *)
(* call failed and bridges do not share VLAN ids, that the table follows *)
(* the kernel and the NPU and the subscribers follow the table.          *)
(***************************************************************************)
EXTENDS NasVlan, SequenceTheorems, FiniteSetTheorems, TLAPS

(* NoNpuStray of a state of the VLAN manager.                            *)
Accounted(s) ==
  /\ \A v \in s.npuVlans \ {DefaultVlan} : \E b \in s.known : s.vid[b] = v
  /\ \A v \in Vids \ {DefaultVlan}, m \in Modes : \A p \in s.npu[<<v, m>>] :
       /\ v \in s.npuVlans
       /\ \E b \in s.known : s.vid[b] = v /\ p \in s.list[<<b, m>>]

(* Events speak of a bridge the kernel has created, those of a member of *)
(* the member, too.                                                      *)
Sound(S) == {e \in Event : e.br \in S /\ (e.op \in {"addPort", "delPort"} => e.port \in Ports)}

(* Events, members and the table are of bridges that were created.       *)
KernelInv ==
  /\ used \subseteq Bridges /\ kbridges \subseteq used
  /\ kmem \in [Ports \X MaybeVid -> used \cup {None}]
  /\ queue \in Seq(Sound(used))

(* The bridge of a request stays in the table until the request is served.  *)
TypeInv ==
  /\ TypeOK /\ KernelInv
  /\ nas.known \subseteq used
  /\ cps.work # {} => cps.br \in nas.known

LEMMA VidFacts == Vids \subseteq MaybeVid /\ 0 \in MaybeVid /\ 0 \notin Vids
BY NasVlanAssumption DEF MaybeVid

LEMMA ModeFacts == \A v : ModeOf(v) \in Modes
BY DEF ModeOf, Modes
-----------------------------------------------------------------------------
(* The functions of the VLAN manager on its state: types, bridges known, *)
(* and what the account of the NPU rests on.                             *)

LEMMA NpuAddFacts ==
  ASSUME NEW s \in VlanState, NEW v \in Vids, NEW m \in Modes, NEW S, S \subseteq Ports,
         NEW t, t = NpuAdd(s, v, m, S)
  PROVE  /\ t \in VlanState
         /\ t.known = s.known /\ t.vid = s.vid /\ t.list = s.list /\ t.npuVlans = s.npuVlans
         /\ \A w \in Vids, n \in Modes : \A x :
              x \in t.npu[<<w, n>>] <=> x \in s.npu[<<w, n>>] \/ (w = v /\ n = m /\ x \in S)
<1> DEFINE npu == [s.npu EXCEPT ![<<v, m>>] = @ \cup S]
           pvid == [p \in Ports |-> IF m = "untagged" /\ p \in S THEN v ELSE s.pvid[p]]
<1>1. npu \in [Vids \X Modes -> SUBSET Ports]
      /\ \A w \in Vids, n \in Modes : \A x :
           x \in npu[<<w, n>>] <=> x \in s.npu[<<w, n>>] \/ (w = v /\ n = m /\ x \in S)
  BY DEF VlanState
<1>2. pvid \in [Ports -> MaybeVid]
  BY VidFacts DEF VlanState
<1>3. t = [s EXCEPT !.npu = npu, !.pvid = pvid]
  BY DEF NpuAdd, VlanState
<1> HIDE DEF npu, pvid
<1> QED BY <1>1, <1>2, <1>3 DEF VlanState

LEMMA NpuDelFacts ==
  ASSUME NEW s \in VlanState, NEW v \in MaybeVid, NEW m \in Modes, NEW p \in Ports,
         NEW t, t = NpuDel(s, v, m, p)
  PROVE  /\ t \in VlanState
         /\ t.known = s.known /\ t.vid = s.vid /\ t.list = s.list /\ t.npuVlans = s.npuVlans
         /\ \A w \in Vids, n \in Modes : \A x :
              x \in t.npu[<<w, n>>] <=> x \in s.npu[<<w, n>>] /\ ~(w = v /\ n = m /\ x = p)
<1> DEFINE npu == [s.npu EXCEPT ![<<v, m>>] = @ \ {p}]
<1>1. npu \in [Vids \X Modes -> SUBSET Ports]
      /\ \A w \in Vids, n \in Modes : \A x :
           x \in npu[<<w, n>>] <=> x \in s.npu[<<w, n>>] /\ ~(w = v /\ n = m /\ x = p)
  BY DEF VlanState
<1>2. t = [s EXCEPT !.npu = npu]
  BY DEF NpuDel, VlanState
<1> HIDE DEF npu
<1> QED BY <1>1, <1>2 DEF VlanState

(* What t may have more than s, so that all is accounted for still: the  *)
(* VLAN of bridge b with b's members in it.                              *)
Grown(s, t, b) ==
  /\ b \in t.known /\ s.known \subseteq t.known
  /\ \A c \in s.known : s.vid[c] # 0 => t.vid[c] = s.vid[c]
  /\ \A c \in Bridges, m \in Modes : s.list[<<c, m>>] \subseteq t.list[<<c, m>>]
  /\ s.npuVlans \subseteq t.npuVlans /\ t.npuVlans \subseteq s.npuVlans \cup {t.vid[b]}
  /\ \A v \in Vids, m \in Modes : \A p \in t.npu[<<v, m>>] \ s.npu[<<v, m>>] :
       v = t.vid[b] /\ v \in t.npuVlans /\ p \in t.list[<<b, m>>]

LEMMA GrownIsAccounted ==
  ASSUME NEW s \in VlanState, NEW t \in VlanState, NEW b, Grown(s, t, b), Accounted(s)
  PROVE  Accounted(t)
<1>1. ASSUME NEW v \in t.npuVlans \ {DefaultVlan} PROVE \E c \in t.known : t.vid[c] = v
  <2>1. CASE v = t.vid[b]
    BY <2>1 DEF Grown
  <2>2. CASE v # t.vid[b]
    <3>1. v \in s.npuVlans \ {DefaultVlan} /\ v # 0
      BY <1>1, <2>2, VidFacts DEF Grown, VlanState
    <3> QED BY <3>1 DEF Grown, Accounted
  <2> QED BY <2>1, <2>2
<1>2. ASSUME NEW v \in Vids \ {DefaultVlan}, NEW m \in Modes, NEW p \in t.npu[<<v, m>>]
      PROVE  v \in t.npuVlans /\ \E c \in t.known : t.vid[c] = v /\ p \in t.list[<<c, m>>]
  <2>1. CASE p \in s.npu[<<v, m>>]
    <3>1. v \in s.npuVlans
      BY <2>1 DEF Accounted
    <3>2. PICK c \in s.known : s.vid[c] = v /\ p \in s.list[<<c, m>>]
      BY <2>1 DEF Accounted
    <3>3. c \in Bridges /\ v # 0
      BY <3>2, VidFacts DEF VlanState
    <3> QED BY <3>1, <3>2, <3>3 DEF Grown
  <2>2. CASE p \notin s.npu[<<v, m>>]
    BY <2>2 DEF Grown
  <2> QED BY <2>1, <2>2
<1> QED BY <1>1, <1>2 DEF Accounted

(* The parts the account rests on are the same.                          *)
Same(s, t) ==
  /\ t.known = s.known /\ t.vid = s.vid /\ t.list = s.list
  /\ t.npuVlans = s.npuVlans /\ t.npu = s.npu

LEMMA SameAccount ==
  ASSUME NEW s, NEW t, Same(s, t)
  PROVE  /\ Accounted(s) => Accounted(t)
         /\ \A u, b : Grown(u, s, b) => Grown(u, t, b)
BY DEF Same, Accounted, Grown

LEMMA ShowHide ==
  ASSUME NEW s \in VlanState, NEW b, NEW m, NEW p \in Ports
  PROVE  /\ Show(s, b, m, p) \in VlanState /\ Same(s, Show(s, b, m, p))
         /\ Hide(s, b, m, p) \in VlanState /\ Same(s, Hide(s, b, m, p))
<1> DEFINE more == [s.seen EXCEPT ![<<b, m>>] = @ \cup {p}]
           less == [s.seen EXCEPT ![<<b, m>>] = @ \ {p}]
<1>1. more \in [Bridges \X Modes -> SUBSET Ports] /\ less \in [Bridges \X Modes -> SUBSET Ports]
  BY DEF VlanState
<1>2. Show(s, b, m, p) = [s EXCEPT !.seen = more] /\ Hide(s, b, m, p) = [s EXCEPT !.seen = less]
  BY DEF Show, Hide, VlanState
<1> HIDE DEF more, less
<1> QED BY <1>1, <1>2 DEF VlanState, Same

(* Listing a port takes nothing away.                                    *)
LEMMA InsertFacts ==
  ASSUME NEW s \in VlanState, NEW b \in Bridges, NEW m \in Modes, NEW p \in Ports,
         NEW t, t = Insert(s, b, m, p)
  PROVE  /\ t \in VlanState
         /\ t.known = s.known /\ t.vid = s.vid /\ t.npuVlans = s.npuVlans /\ t.npu = s.npu
         /\ t.pvid = s.pvid
         /\ p \in t.list[<<b, m>>]
         /\ \A c \in Bridges, n \in Modes : s.list[<<c, n>>] \subseteq t.list[<<c, n>>]
<1> DEFINE list == [s.list EXCEPT ![<<b, m>>] = @ \cup {p}]
<1>1. list \in [Bridges \X Modes -> SUBSET Ports] /\ p \in list[<<b, m>>]
      /\ \A c \in Bridges, n \in Modes : s.list[<<c, n>>] \subseteq list[<<c, n>>]
  BY DEF VlanState
<1>2. t = [s EXCEPT !.list = list]
  BY DEF Insert, VlanState
<1> HIDE DEF list
<1> QED BY <1>1, <1>2 DEF VlanState

(* The first tagged member: the bridge gets its VLAN id, its VLAN and the *)
(* members it lists, or as much of that as does not fail.                *)
LEMMA FirstTaggedFacts ==
  ASSUME NEW s \in VlanState, NEW b \in s.known, s.vid[b] = 0, NEW v \in Vids,
         NEW p \in s.list[<<b, "tagged">>], NEW f,
         NEW t, t = FirstTagged(s, b, v, p, f)
  PROVE  t \in VlanState /\ t.known = s.known /\ Grown(s, t, b)
<1>1. b \in Bridges /\ "tagged" \in Modes /\ "untagged" \in Modes /\ p \in Ports
  BY DEF VlanState, Modes
<1> DEFINE vid == [s.vid EXCEPT ![b] = v]
           npu == [s.npu EXCEPT ![<<v, "tagged">>] = @ \cup {p}]
           q == [s EXCEPT !.vid = vid]
           r == [q EXCEPT !.npuVlans = @ \cup {v}]
           u == [r EXCEPT !.registered = @ \cup {b}]
           tagged == [u EXCEPT !.npu = npu]
           stored == s.list[<<b, "untagged">>]
<1>2. vid \in [Bridges -> MaybeVid] /\ vid[b] = v /\ \A c \in Bridges \ {b} : vid[c] = s.vid[c]
  BY <1>1, VidFacts DEF VlanState
<1>3. npu \in [Vids \X Modes -> SUBSET Ports]
      /\ \A w \in Vids, n \in Modes :
           npu[<<w, n>>] = IF w = v /\ n = "tagged" THEN s.npu[<<w, n>>] \cup {p} ELSE s.npu[<<w, n>>]
  BY <1>1 DEF VlanState
<1>4. t \in {q, r, u, tagged, NpuAdd(tagged, v, "untagged", stored)}
  BY DEF FirstTagged, VlanState
<1> HIDE DEF vid, npu
<1>5. /\ q \in VlanState /\ r \in VlanState /\ u \in VlanState /\ tagged \in VlanState
      /\ stored \subseteq Ports
  BY <1>1, <1>2, <1>3 DEF VlanState
<1>6. /\ q.known = s.known /\ q.vid = vid /\ q.list = s.list
      /\ q.npuVlans = s.npuVlans /\ q.npu = s.npu
      /\ r.known = s.known /\ r.vid = vid /\ r.list = s.list
      /\ r.npuVlans = s.npuVlans \cup {v} /\ r.npu = s.npu
      /\ u.known = s.known /\ u.vid = vid /\ u.list = s.list
      /\ u.npuVlans = s.npuVlans \cup {v} /\ u.npu = s.npu
      /\ tagged.known = s.known /\ tagged.vid = vid /\ tagged.list = s.list
      /\ tagged.npuVlans = s.npuVlans \cup {v} /\ tagged.npu = npu
  BY DEF VlanState
<1> HIDE DEF q, r, u, tagged
<1>7. \A c \in s.known : c \in Bridges
  BY DEF VlanState
<1>8. \A x \in {q, r, u} : Grown(s, x, b)
  BY <1>2, <1>6, <1>7 DEF Grown
<1>9. Grown(s, tagged, b)
  <2>1. ASSUME NEW w \in Vids, NEW n \in Modes, NEW x \in npu[<<w, n>>] \ s.npu[<<w, n>>]
        PROVE  w = v /\ x \in s.list[<<b, n>>]
    BY <1>3, <2>1
  <2> QED BY <1>2, <1>6, <1>7, <2>1 DEF Grown
<1>10. ASSUME t = NpuAdd(tagged, v, "untagged", stored)
       PROVE  t \in VlanState /\ t.known = s.known /\ Grown(s, t, b)
  <2>1. /\ t \in VlanState
        /\ t.known = tagged.known /\ t.vid = tagged.vid /\ t.list = tagged.list
        /\ t.npuVlans = tagged.npuVlans
        /\ \A w \in Vids, n \in Modes : \A x :
             x \in t.npu[<<w, n>>] <=>
               x \in tagged.npu[<<w, n>>] \/ (w = v /\ n = "untagged" /\ x \in stored)
    BY <1>1, <1>5, <1>10, NpuAddFacts
  <2>2. ASSUME NEW w \in Vids, NEW n \in Modes, NEW x \in t.npu[<<w, n>>] \ s.npu[<<w, n>>]
        PROVE  w = v /\ x \in s.list[<<b, n>>]
    <3>1. CASE x \in npu[<<w, n>>]
      BY <1>3, <2>2, <3>1
    <3>2. CASE x \notin npu[<<w, n>>]
      <4>1. w = v /\ n = "untagged" /\ x \in stored
        BY <1>6, <2>1, <2>2, <3>2
      <4> QED BY <4>1
    <3> QED BY <3>1, <3>2
  <2>3. Grown(s, t, b)
    BY <1>2, <1>6, <1>7, <2>1, <2>2 DEF Grown
  <2> QED BY <1>6, <2>1, <2>3
<1> QED BY <1>4, <1>5, <1>6, <1>8, <1>9, <1>10

LEMMA MemberAddFacts ==
  ASSUME NEW s \in VlanState, NEW b \in s.known, NEW p \in Ports, NEW v \in MaybeVid, NEW f,
         NEW t, t = MemberAdd(s, b, p, v, f)
  PROVE  t \in VlanState /\ t.known = s.known /\ Grown(s, t, b)
<1> DEFINE m == ModeOf(v)
           i == Insert(s, b, m, p)
<1>1. b \in Bridges /\ m \in Modes
  BY ModeFacts DEF VlanState
<1>2. /\ i \in VlanState
      /\ i.known = s.known /\ i.vid = s.vid /\ i.npuVlans = s.npuVlans /\ i.npu = s.npu
      /\ p \in i.list[<<b, m>>]
      /\ \A c \in Bridges, n \in Modes : s.list[<<c, n>>] \subseteq i.list[<<c, n>>]
  BY <1>1, InsertFacts
<1>3. \A x : Grown(i, x, b) => Grown(s, x, b)
  BY <1>2 DEF Grown
<1>4. Grown(s, s, b) /\ Grown(i, i, b)
  BY <1>2 DEF Grown
<1>5. \/ t = s \/ t = i
      \/ s.vid[b] = 0 /\ v # 0 /\ t = FirstTagged(i, b, v, p, f)
      \/ s.vid[b] \in s.npuVlans \cap Vids /\ t = NpuAdd(i, s.vid[b], m, {p})
  BY DEF MemberAdd, NpuAddOk
<1>6. v # 0 => v \in Vids /\ m = "tagged"
  BY DEF MaybeVid, ModeOf
<1> HIDE DEF i, m
<1>7. CASE s.vid[b] = 0 /\ v # 0 /\ t = FirstTagged(i, b, v, p, f)
  <2>1. t \in VlanState /\ t.known = i.known /\ Grown(i, t, b)
    BY <1>2, <1>6, <1>7, FirstTaggedFacts
  <2> QED BY <1>2, <1>3, <2>1
<1>8. CASE s.vid[b] \in s.npuVlans \cap Vids /\ t = NpuAdd(i, s.vid[b], m, {p})
  <2>1. /\ t \in VlanState
        /\ t.known = i.known /\ t.vid = i.vid /\ t.list = i.list /\ t.npuVlans = i.npuVlans
        /\ \A w \in Vids, n \in Modes : \A x :
             x \in t.npu[<<w, n>>] <=>
               x \in i.npu[<<w, n>>] \/ (w = s.vid[b] /\ n = m /\ x \in {p})
    <3>1. {p} \subseteq Ports /\ s.vid[b] \in Vids
      BY <1>8
    <3> QED BY <1>1, <1>2, <1>8, <3>1, NpuAddFacts
  <2>2. ASSUME NEW w \in Vids, NEW n \in Modes, NEW x \in t.npu[<<w, n>>] \ i.npu[<<w, n>>]
        PROVE  w = s.vid[b] /\ x \in i.list[<<b, n>>]
    BY <1>2, <2>1, <2>2
  <2>3. Grown(i, t, b)
    BY <1>2, <1>8, <2>1, <2>2 DEF Grown
  <2> QED BY <1>2, <1>3, <2>1, <2>3
<1> QED BY <1>2, <1>3, <1>4, <1>5, <1>7, <1>8

(* A member leaves the NPU and the list of its bridge.                   *)
Release(s, b, m, p) == [NpuDel(s, s.vid[b], m, p) EXCEPT !.list[<<b, m>>] = @ \ {p}]

LEMMA Released ==
  ASSUME NEW s \in VlanState, NEW b \in s.known, NEW m \in Modes, NEW p \in Ports,
         NEW t, t = Release(s, b, m, p)
  PROVE  t \in VlanState /\ t.known = s.known /\ (Accounted(s) => Accounted(t))
<1> DEFINE u == NpuDel(s, s.vid[b], m, p)
           list == [u.list EXCEPT ![<<b, m>>] = @ \ {p}]
<1>1. /\ u \in VlanState
      /\ u.known = s.known /\ u.vid = s.vid /\ u.list = s.list /\ u.npuVlans = s.npuVlans
      /\ \A w \in Vids, n \in Modes : \A x :
           x \in u.npu[<<w, n>>] <=> x \in s.npu[<<w, n>>] /\ ~(w = s.vid[b] /\ n = m /\ x = p)
  <2> DEFINE v == s.vid[b]
  <2>1. u = NpuDel(s, v, m, p) /\ v \in MaybeVid
    BY DEF VlanState
  <2> HIDE DEF u, v
  <2>2. /\ u \in VlanState
        /\ u.known = s.known /\ u.vid = s.vid /\ u.list = s.list /\ u.npuVlans = s.npuVlans
        /\ \A w \in Vids, n \in Modes : \A x :
             x \in u.npu[<<w, n>>] <=> x \in s.npu[<<w, n>>] /\ ~(w = v /\ n = m /\ x = p)
    BY <2>1, NpuDelFacts
  <2> QED BY <2>2 DEF v
<1>2. b \in Bridges
  BY DEF VlanState
<1> HIDE DEF u
<1>3. list \in [Bridges \X Modes -> SUBSET Ports]
      /\ \A c \in Bridges, n \in Modes : \A x :
           x \in list[<<c, n>>] <=> x \in s.list[<<c, n>>] /\ ~(c = b /\ n = m /\ x = p)
  BY <1>1, <1>2 DEF VlanState
<1>4. t = [u EXCEPT !.list = list]
  BY Zenon DEF Release, u
<1> HIDE DEF list
<1>5. /\ t \in VlanState /\ t.known = s.known /\ t.vid = s.vid /\ t.list = list
      /\ t.npuVlans = s.npuVlans /\ t.npu = u.npu
  BY <1>1, <1>3, <1>4 DEF VlanState
<1>6. ASSUME Accounted(s) PROVE Accounted(t)
  <2>1. \A v \in t.npuVlans \ {DefaultVlan} : \E c \in t.known : t.vid[c] = v
    BY <1>5, <1>6 DEF Accounted
  <2>2. ASSUME NEW v \in Vids \ {DefaultVlan}, NEW n \in Modes, NEW x \in t.npu[<<v, n>>]
        PROVE  v \in t.npuVlans /\ \E c \in t.known : t.vid[c] = v /\ x \in t.list[<<c, n>>]
    <3>1. x \in s.npu[<<v, n>>] /\ ~(v = s.vid[b] /\ n = m /\ x = p)
      BY <1>1, <1>5, <2>2
    <3>2. v \in s.npuVlans
      BY <1>6, <3>1 DEF Accounted
    <3>3. PICK c \in s.known : s.vid[c] = v /\ x \in s.list[<<c, n>>]
      BY <1>6, <3>1 DEF Accounted
    <3>4. c \in Bridges /\ ~(c = b /\ n = m /\ x = p)
      BY <3>1, <3>3 DEF VlanState
    <3> QED BY <1>3, <1>5, <3>2, <3>3, <3>4
  <2> QED BY <2>1, <2>2 DEF Accounted
<1> QED BY <1>5, <1>6

LEMMA OnAddPortFacts ==
  ASSUME NEW s \in VlanState, NEW b \in s.known, NEW p \in Ports, NEW v \in MaybeVid, NEW f,
         NEW t, t = OnAddPort(s, b, p, v, f)
  PROVE  t \in VlanState /\ t.known = s.known /\ (Accounted(s) => Accounted(t))
<1> DEFINE r == MemberAdd(s, b, p, v, f)
<1>1. r \in VlanState /\ r.known = s.known /\ Grown(s, r, b)
  BY MemberAddFacts
<1>2. t = s \/ t = r \/ t = Show(r, b, ModeOf(v), p)
  BY DEF OnAddPort
<1> HIDE DEF r
<1>3. Accounted(s) => Accounted(r)
  BY <1>1, GrownIsAccounted
<1>4. Show(r, b, ModeOf(v), p) \in VlanState /\ Same(r, Show(r, b, ModeOf(v), p))
  BY <1>1, ShowHide
<1> QED BY <1>1, <1>2, <1>3, <1>4, SameAccount DEF Same

LEMMA OnDelPortFacts ==
  ASSUME NEW s \in VlanState, NEW b, NEW p \in Ports, NEW m \in Modes, NEW f,
         NEW t, t = OnDelPort(s, b, p, m, f)
  PROVE  t \in VlanState /\ t.known = s.known /\ (Accounted(s) => Accounted(t))
<1> DEFINE r == Release(s, b, m, p)
<1>1. t = s \/ t = Hide(s, b, m, p) \/ (b \in s.known /\ t = Hide(r, b, m, p))
  BY Zenon DEF OnDelPort, Release
<1>2. b \in s.known => r \in VlanState /\ r.known = s.known /\ (Accounted(s) => Accounted(r))
  BY Released
<1> HIDE DEF r
<1>3. Hide(s, b, m, p) \in VlanState /\ Same(s, Hide(s, b, m, p))
  BY ShowHide
<1>4. b \in s.known => Hide(r, b, m, p) \in VlanState /\ Same(r, Hide(r, b, m, p))
  BY <1>2, ShowHide
<1> QED BY <1>1, <1>2, <1>3, <1>4, SameAccount DEF Same

LEMMA InsertBridge ==
  ASSUME NEW s \in VlanState, NEW b \in Bridges, NEW t, t = BridgeInsert(s, b)
  PROVE  t \in VlanState /\ t.known = s.known \cup {b} /\ (Accounted(s) => Accounted(t))
<1>1. CASE b \in s.known
  BY <1>1 DEF BridgeInsert
<1>2. CASE b \notin s.known
  <2> DEFINE vid == [s.vid EXCEPT ![b] = 0]
             known == s.known \cup {b}
  <2>1. /\ vid \in [Bridges -> MaybeVid] /\ known \in SUBSET Bridges
        /\ \A c \in s.known : vid[c] = s.vid[c]
    BY <1>2, VidFacts DEF VlanState
  <2>2. t = [s EXCEPT !.known = known, !.vid = vid]
    BY <1>2, Zenon DEF BridgeInsert
  <2> HIDE DEF vid, known
  <2>3. /\ t \in VlanState /\ t.known = known /\ t.vid = vid /\ t.list = s.list
        /\ t.npuVlans = s.npuVlans /\ t.npu = s.npu
    BY <2>1, <2>2 DEF VlanState
  <2>4. Grown(s, t, b)
    BY <2>1, <2>3 DEF Grown, known
  <2> QED BY <2>3, <2>4, GrownIsAccounted DEF known
<1> QED BY <1>1, <1>2

(* The bridge a request creates: with its VLAN id, its VLAN in the NPU.  *)
Opened(s, b, v) == [BridgeInsert(s, b) EXCEPT !.vid[b] = v]

LEMMA OpenedFacts ==
  ASSUME NEW s \in VlanState, NEW b \in Bridges \ s.known, NEW v \in Vids,
         NEW t, t = Opened(s, b, v)
  PROVE  /\ t \in VlanState /\ t.known = s.known \cup {b} /\ t.list = s.list
         /\ t.npuVlans = s.npuVlans /\ t.npu = s.npu
         /\ t.vid[b] = v /\ \A c \in s.known : t.vid[c] = s.vid[c]
<1> DEFINE u == BridgeInsert(s, b)
           first == [s.vid EXCEPT ![b] = 0]
           vid == [u.vid EXCEPT ![b] = v]
           known == s.known \cup {b}
<1>1. first \in [Bridges -> MaybeVid] /\ \A c \in s.known : first[c] = s.vid[c]
  BY VidFacts DEF VlanState
<1>2. u = [s EXCEPT !.known = known, !.vid = first]
  BY Zenon DEF BridgeInsert
<1>3. known \in SUBSET Bridges
  BY DEF VlanState
<1>4. t = [u EXCEPT !.vid = vid]
  BY Zenon DEF Opened
<1> HIDE DEF u, first, known
<1>5. /\ u \in VlanState /\ u.known = known /\ u.vid = first /\ u.list = s.list
      /\ u.npuVlans = s.npuVlans /\ u.npu = s.npu
  BY <1>1, <1>2, <1>3 DEF VlanState
<1>6. /\ vid \in [Bridges -> MaybeVid] /\ vid[b] = v
      /\ \A c \in s.known : vid[c] = s.vid[c]
  BY <1>1, <1>5, VidFacts
<1> HIDE DEF vid
<1>7. /\ t \in VlanState /\ t.known = known /\ t.vid = vid /\ t.list = s.list
      /\ t.npuVlans = s.npuVlans /\ t.npu = s.npu
  BY <1>4, <1>5, <1>6 DEF VlanState
<1> QED BY <1>6, <1>7 DEF known

LEMMA CreatedBridge ==
  ASSUME NEW s \in VlanState, NEW b \in Bridges \ s.known, NEW v \in Vids,
         NEW u, u = Opened(s, b, v),
         NEW t, t \in {u, [u EXCEPT !.npuVlans = @ \cup {v}]},
         NEW r, r \in {t, [t EXCEPT !.registered = @ \cup {b}]}
  PROVE  r \in VlanState /\ r.known = s.known \cup {b} /\ (Accounted(s) => Accounted(r))
<1>1. /\ u \in VlanState /\ u.known = s.known \cup {b} /\ u.list = s.list
      /\ u.npuVlans = s.npuVlans /\ u.npu = s.npu
      /\ u.vid[b] = v /\ \A c \in s.known : u.vid[c] = s.vid[c]
  BY OpenedFacts
<1> DEFINE vlans == u.npuVlans \cup {v}
           reg == t.registered \cup {b}
<1>2. t = u \/ t = [u EXCEPT !.npuVlans = vlans]
  OBVIOUS
<1>3. vlans \in SUBSET (Vids \cup {DefaultVlan})
  BY <1>1 DEF VlanState
<1>4. r = t \/ r = [t EXCEPT !.registered = reg]
  OBVIOUS
<1> HIDE DEF vlans
<1>5. /\ t \in VlanState /\ t.known = u.known /\ t.vid = u.vid /\ t.list = s.list
      /\ t.npuVlans \in {u.npuVlans, vlans} /\ t.npu = s.npu
  BY <1>1, <1>2, <1>3 DEF VlanState
<1>6. reg \in SUBSET Bridges
  BY <1>5 DEF VlanState
<1> HIDE DEF reg
<1>7. /\ r \in VlanState /\ r.known = u.known /\ r.vid = u.vid /\ r.list = s.list
      /\ r.npuVlans \in {u.npuVlans, vlans} /\ r.npu = s.npu
  BY <1>4, <1>5, <1>6 DEF VlanState
<1>8. Grown(s, r, b)
  BY <1>1, <1>7 DEF Grown, vlans
<1> QED BY <1>1, <1>7, <1>8, GrownIsAccounted

(* A bridge goes with its VLAN, unless the NPU refuses to delete it.     *)
LEMMA CleanedUp ==
  ASSUME NEW s \in VlanState, NEW b \in s.known, NEW f, NEW t, t = BridgeCleanup(s, b, f)
  PROVE  /\ t \in VlanState /\ t.known = s.known \ {b}
         /\ Accounted(s) /\ f # "vlanDelete" => Accounted(t)
<1> DEFINE v == s.vid[b]
           gone == v \in s.npuVlans \ {DefaultVlan} /\ f # "vlanDelete"
           vid == [s.vid EXCEPT ![b] = 0]
           list == [x \in Bridges \X Modes |-> IF x[1] = b THEN {} ELSE s.list[x]]
           seen == [x \in Bridges \X Modes |-> IF x[1] = b /\ v # 0 THEN {} ELSE s.seen[x]]
           npu == [x \in Vids \X Modes |-> IF gone /\ x[1] = v THEN {} ELSE s.npu[x]]
           known == s.known \ {b}
           vlans == IF gone THEN s.npuVlans \ {v} ELSE s.npuVlans
           reg == IF v = 0 \/ f = "register" THEN s.registered ELSE s.registered \ {b}
<1>1. vid \in [Bridges -> MaybeVid] /\ \A c \in Bridges \ {b} : vid[c] = s.vid[c]
  BY VidFacts DEF VlanState
<1>2. /\ list \in [Bridges \X Modes -> SUBSET Ports]
      /\ \A c \in Bridges \ {b}, n \in Modes : list[<<c, n>>] = s.list[<<c, n>>]
  BY DEF VlanState
<1>3. seen \in [Bridges \X Modes -> SUBSET Ports]
  BY DEF VlanState
<1>4. /\ npu \in [Vids \X Modes -> SUBSET Ports]
      /\ \A w \in Vids, n \in Modes : \A x \in npu[<<w, n>>] :
           x \in s.npu[<<w, n>>] /\ ~(gone /\ w = v)
  BY DEF VlanState
<1>5. /\ vlans \in SUBSET (Vids \cup {DefaultVlan}) /\ reg \in SUBSET Bridges
      /\ known \in SUBSET Bridges /\ known = s.known \ {b}
      /\ vlans \subseteq s.npuVlans /\ s.npuVlans \ {v} \subseteq vlans
      /\ gone => v \notin vlans
  BY DEF VlanState
<1>6. t = [s EXCEPT !.known = known, !.vid = vid, !.list = list, !.seen = seen,
                    !.registered = reg, !.npuVlans = vlans, !.npu = npu]
  BY Zenon DEF BridgeCleanup
<1>7. f # "vlanDelete" => gone \/ v \notin s.npuVlans \/ v = DefaultVlan
  OBVIOUS
<1> HIDE DEF vid, list, seen, npu, vlans, reg, gone, known
<1>8. /\ t \in VlanState /\ t.known = known /\ t.vid = vid /\ t.list = list
      /\ t.npuVlans = vlans /\ t.npu = npu
  BY <1>1, <1>2, <1>3, <1>4, <1>5, <1>6 DEF VlanState
<1>9. ASSUME Accounted(s), f # "vlanDelete" PROVE Accounted(t)
  <2>1. ASSUME NEW w \in t.npuVlans \ {DefaultVlan} PROVE \E c \in t.known : t.vid[c] = w
    <3>1. w \in s.npuVlans \ {DefaultVlan} /\ w # v
      BY <1>5, <1>7, <1>8, <1>9, <2>1
    <3>2. PICK c \in s.known : s.vid[c] = w
      BY <1>9, <3>1 DEF Accounted
    <3>3. c \in Bridges \ {b}
      BY <3>1, <3>2 DEF VlanState
    <3> QED BY <1>1, <1>5, <1>8, <3>2, <3>3
  <2>2. ASSUME NEW w \in Vids \ {DefaultVlan}, NEW n \in Modes, NEW x \in t.npu[<<w, n>>]
        PROVE  w \in t.npuVlans /\ \E c \in t.known : t.vid[c] = w /\ x \in t.list[<<c, n>>]
    <3>1. x \in s.npu[<<w, n>>] /\ ~(gone /\ w = v)
      BY <1>4, <1>8, <2>2
    <3>2. w \in s.npuVlans
      BY <1>9, <3>1 DEF Accounted
    <3>3. w # v
      BY <1>7, <1>9, <2>2, <3>1, <3>2
    <3>4. PICK c \in s.known : s.vid[c] = w /\ x \in s.list[<<c, n>>]
      BY <1>9, <3>1 DEF Accounted
    <3>5. c \in Bridges \ {b}
      BY <3>3, <3>4 DEF VlanState
    <3> QED BY <1>1, <1>2, <1>5, <1>8, <3>2, <3>3, <3>4, <3>5
  <2> QED BY <2>1, <2>2 DEF Accounted
<1> QED BY <1>5, <1>8, <1>9
-----------------------------------------------------------------------------
(* The kernel.                                                           *)

(* The types of the kernel's variables, as in TypeOK.                    *)
KernelTyped ==
  /\ used \subseteq Bridges /\ kbridges \subseteq Bridges
  /\ kmem \in [Ports \X MaybeVid -> MaybeBridge]
  /\ queue \in Seq(Event)

LEMMA KernelTypes == KernelInv => KernelTyped
<1> SUFFICES ASSUME KernelInv PROVE kmem \in [Ports \X MaybeVid -> MaybeBridge] /\ queue \in Seq(Event)
  BY DEF KernelInv, KernelTyped
<1>1. Sound(used) \subseteq Event
  BY DEF Sound
<1>2. queue \in Seq(Event)
  BY <1>1, SeqMonotonic DEF KernelInv
<1> QED BY <1>2 DEF KernelInv, MaybeBridge

LEMMA EventFacts ==
  ASSUME NEW S \in SUBSET Bridges, NEW b \in S
  PROVE  /\ \A op \in {"newBridge", "delBridge"} : BridgeEvent(op, b) \in Sound(S)
         /\ \A op \in {"addPort", "delPort"}, p \in Ports, v \in MaybeVid :
              PortEvent(op, b, p, v) \in Sound(S)
BY DEF BridgeEvent, PortEvent, Sound, Event, MaybeVid

LEMMA KernelCreateType ==
  ASSUME KernelInv, NEW b \in Bridges, KernelCreate(b)
  PROVE  KernelInv'
<1>1. used' = used \cup {b} /\ used' \subseteq Bridges
  BY DEF KernelCreate, KernelInv
<1>2. queue \in Seq(Sound(used'))
  <2>1. Sound(used) \subseteq Sound(used')
    BY <1>1 DEF Sound
  <2> QED BY <2>1, SeqMonotonic DEF KernelInv
<1>3. BridgeEvent("newBridge", b) \in Sound(used')
  BY <1>1, EventFacts
<1>4. queue' \in Seq(Sound(used'))
  BY <1>2, <1>3, AppendProperties DEF KernelCreate
<1>5. kmem' \in [Ports \X MaybeVid -> used' \cup {None}]
  BY <1>1 DEF KernelCreate, KernelInv
<1> QED BY <1>1, <1>4, <1>5 DEF KernelCreate, KernelInv

LEMMA KernelJoinType ==
  ASSUME KernelInv, NEW b \in Bridges, NEW p \in Ports, NEW v \in MaybeVid, KernelJoin(b, p, v)
  PROVE  KernelInv'
<1> DEFINE old == kmem[p, v]
           joined == PortEvent("addPort", b, p, v)
           left == PortEvent("delPort", old, p, v)
<1>1. b \in used /\ old \in used \cup {None} /\ used \subseteq Bridges
  BY DEF KernelJoin, KernelInv
<1>2. joined \in Sound(used) /\ (old # None => left \in Sound(used))
  BY <1>1, EventFacts
<1>3. \/ queue' = queue
      \/ queue' = Append(queue, joined)
      \/ old # None /\ queue' = queue \o <<left, joined>>
  <2>1. queue' = CASE old = b    -> queue
                   [] old = None -> Append(queue, joined)
                   [] OTHER -> queue \o <<left, joined>>
    BY Zenon DEF KernelJoin
  <2>2. b # None
    BY NasVlanAssumption
  <2> HIDE DEF joined, left, old
  <2> QED BY <2>1, <2>2
<1> HIDE DEF joined, left, old
<1>4. queue' \in Seq(Sound(used))
  <2>1. queue \in Seq(Sound(used))
    BY DEF KernelInv
  <2>2. CASE queue' = Append(queue, joined)
    BY <1>2, <2>1, <2>2, AppendProperties
  <2>3. CASE old # None /\ queue' = queue \o <<left, joined>>
    <3>1. <<left, joined>> \in Seq(Sound(used))
      BY <1>2, <2>3
    <3> QED BY <2>1, <2>3, <3>1, ConcatProperties
  <2> QED BY <1>3, <2>1, <2>2, <2>3
<1>5. kmem' \in [Ports \X MaybeVid -> used \cup {None}]
  BY <1>1 DEF KernelJoin, KernelInv
<1> QED BY <1>4, <1>5 DEF KernelJoin, KernelInv

LEMMA KernelLeaveType ==
  ASSUME KernelInv, NEW p \in Ports, NEW v \in MaybeVid, KernelLeave(p, v)
  PROVE  KernelInv'
<1> DEFINE old == kmem[p, v]
           left == PortEvent("delPort", old, p, v)
<1>1. old \in used \cup {None} /\ used \subseteq Bridges
  BY DEF KernelInv
<1>2. old # None => left \in Sound(used)
  BY <1>1, EventFacts
<1>3. queue' = queue \/ (old # None /\ queue' = Append(queue, left))
  BY DEF KernelLeave
<1> HIDE DEF left, old
<1>4. queue' \in Seq(Sound(used))
  <2>1. queue \in Seq(Sound(used))
    BY DEF KernelInv
  <2> QED BY <1>2, <1>3, <2>1, AppendProperties
<1>5. kmem' \in [Ports \X MaybeVid -> used \cup {None}]
  BY DEF KernelLeave, KernelInv
<1> QED BY <1>4, <1>5 DEF KernelLeave, KernelInv

LEMMA MembersFinite == IsFiniteSet(Ports \X MaybeVid)
<1>1. IsFiniteSet(MaybeVid)
  BY NasVlanAssumption, FS_AddElement DEF MaybeVid
<1> QED BY <1>1, NasVlanAssumption, FS_Product

LEMMA LeavingType ==
  ASSUME KernelInv, NEW S, S \subseteq Ports \X MaybeVid, \A x \in S : kmem[x] # None,
         NEW order \in SetToSeqs(S)
  PROVE  Leaving(S, order) \in Seq(Sound(used))
<1> DEFINE n == Cardinality(S)
           gone(i) == PortEvent("delPort", kmem[order[i]], order[i][1], order[i][2])
<1>1. n \in Nat
  BY MembersFinite, FS_Subset, FS_CardinalityType
<1>2. order \in [1..n -> S]
  BY DEF SetToSeqs
<1>3. ASSUME NEW i \in 1..n PROVE gone(i) \in Sound(used)
  <2>1. order[i] \in S
    BY <1>2
  <2> DEFINE b == kmem[order[i]]
             p == order[i][1]
             v == order[i][2]
  <2>2. p \in Ports /\ v \in MaybeVid
    BY <2>1
  <2>3. b \in used /\ used \in SUBSET Bridges
    BY <2>1 DEF KernelInv
  <2> HIDE DEF b, p, v
  <2>4. PortEvent("delPort", b, p, v) \in Sound(used)
    BY <2>2, <2>3, EventFacts
  <2> QED BY <2>4 DEF b, p, v
<1>4. Leaving(S, order) = [i \in 1..n |-> gone(i)]
  BY DEF Leaving
<1> HIDE DEF n, gone
<1>5. [i \in 1..n |-> gone(i)] \in [1..n -> Sound(used)]
  BY <1>3
<1> QED BY <1>1, <1>4, <1>5, SeqDef

LEMMA KernelDeleteType ==
  ASSUME KernelInv, NEW b \in Bridges, NEW gone \in BOOLEAN, gone => b \in kbridges,
         NEW also, also \subseteq Ports \X MaybeVid, KernelDelete(b, gone, also)
  PROVE  KernelInv'
<1> DEFINE mine == {x \in Ports \X MaybeVid : gone /\ kmem[x] = b}
           others == {x \in also \ mine : kmem[x] # None}
           middle == IF gone THEN <<BridgeEvent("delBridge", b)>> ELSE <<>>
<1>1. PICK o1 \in SetToSeqs(mine), o2 \in SetToSeqs(others) :
        queue' = queue \o Leaving(mine, o1) \o middle \o Leaving(others, o2)
  BY Zenon DEF KernelDelete
<1>2. Leaving(mine, o1) \in Seq(Sound(used))
  BY NasVlanAssumption, LeavingType
<1>3. Leaving(others, o2) \in Seq(Sound(used))
  BY LeavingType
<1>4. middle \in Seq(Sound(used))
  <2>1. CASE gone
    <3>1. BridgeEvent("delBridge", b) \in Sound(used)
      BY <2>1, EventFacts DEF KernelInv
    <3> QED BY <2>1, <3>1
  <2>2. CASE ~gone
    BY <2>2, EmptySeq
  <2> QED BY <2>1, <2>2
<1>5. queue \o Leaving(mine, o1) \in Seq(Sound(used))
  BY <1>2, ConcatProperties DEF KernelInv
<1> DEFINE first == queue \o Leaving(mine, o1)
<1>6. kmem' \in [Ports \X MaybeVid -> used \cup {None}]
  BY DEF KernelDelete, KernelInv
<1> HIDE DEF mine, others, middle
<1>7. first \o middle \in Seq(Sound(used))
  BY <1>4, <1>5, ConcatProperties
<1>8. queue' \in Seq(Sound(used))
  BY <1>1, <1>3, <1>7, ConcatProperties
<1> QED BY <1>6, <1>8 DEF KernelDelete, KernelInv
-----------------------------------------------------------------------------
(* The actions.                                                          *)

(* What each step keeps.  The account needs the NPU to delete what it has.  *)
Keeps ==
  /\ TypeInv'
  /\ Accounted(nas) /\ "vlanDelete" \notin FaultKinds => Accounted(nas')

Bounds == [{"requests", "external", "faults"} -> Nat]

LEMMA SpendType ==
  ASSUME TypeOK
  PROVE  /\ \A f : SpendFault(f) => spent' \in Bounds
         /\ \A f : SpendRequest(f) => spent' \in Bounds /\ cps.work = {} /\ Failing(f)
         /\ SpendExternal => spent' \in Bounds
<1>1. spent \in Bounds
  BY DEF TypeOK, Bounds
<1>2. ASSUME NEW f PROVE Faults(f) \in Nat
  BY <1>1 DEF Faults, Bounds
<1>3. ASSUME NEW f, SpendFault(f) PROVE spent' \in Bounds
  <2> DEFINE n == Faults(f)
  <2>1. n \in Nat /\ spent' = [spent EXCEPT !.faults = n]
    BY <1>2, <1>3 DEF SpendFault
  <2> HIDE DEF n
  <2> QED BY <1>1, <2>1 DEF Bounds
<1>4. ASSUME NEW f, SpendRequest(f) PROVE spent' \in Bounds
  <2> DEFINE n == Faults(f)
             k == spent.requests + 1
  <2>1. n \in Nat /\ k \in Nat /\ spent' = [spent EXCEPT !.requests = k, !.faults = n]
    BY <1>1, <1>2, <1>4 DEF SpendRequest, Bounds
  <2> HIDE DEF n, k
  <2> QED BY <1>1, <2>1 DEF Bounds
<1>5. SpendExternal => spent' \in Bounds
  BY <1>1 DEF SpendExternal, Bounds
<1> QED BY <1>3, <1>4, <1>5 DEF SpendRequest

(* The parts of TypeInv together.                                        *)
LEMMA Together ==
  ASSUME KernelInv', nas' \in VlanState, nas'.known \subseteq used', alive' \in BOOLEAN,
         cps' \in CpsState, cps'.work # {} => cps'.br \in nas'.known, byCps' \subseteq Bridges,
         spent' \in Bounds
  PROVE  TypeInv'
<1>1. KernelTyped'
  BY KernelTypes, PTL
<1> QED BY <1>1 DEF KernelTyped, TypeInv, TypeOK, Bounds

LEMMA InitType == Init => TypeInv /\ Accounted(nas)
<1> SUFFICES ASSUME Init PROVE TypeInv /\ Accounted(nas)
  OBVIOUS
<1>1. nas \in VlanState /\ nas.known = {} /\ Accounted(nas)
  BY VidFacts DEF Init, VlanState, Accounted
<1>2. KernelInv
  BY EmptySeq DEF Init, KernelInv
<1>3. cps \in CpsState /\ cps.work = {}
  BY DEF Init, Idle, CpsState, MaybeBridge
<1>4. spent \in [{"requests", "external", "faults"} -> Nat]
  BY DEF Init
<1> QED BY <1>1, <1>2, <1>3, <1>4, KernelTypes DEF Init, KernelTyped, TypeInv, TypeOK

LEMMA WorkType ==
  ASSUME NEW b \in Bridges, NEW s, NEW want
  PROVE  [br |-> b, work |-> WorkOf(s, b, want)] \in CpsState
BY DEF CpsState, WorkOf, MaybeBridge

LEMMA CreateKeeps ==
  ASSUME TypeInv, NEW b \in Bridges, NEW v \in VidsOf[b], NEW want, NEW f, CpsCreate(b, v, want, f)
  PROVE  Keeps
<1> DEFINE s == Opened(nas, b, v)
           made == IF v = DefaultVlan THEN s ELSE [s EXCEPT !.npuVlans = @ \cup {v}]
           done == [made EXCEPT !.registered = @ \cup {b}]
           work == [br |-> b, work |-> WorkOf(s, b, want)]
<1>1. v \in Vids /\ nas \in VlanState
  BY NasVlanAssumption DEF TypeInv, TypeOK
<1>2. KernelInv'
  BY KernelCreateType DEF CpsCreate, TypeInv
<1>3. used' = used \cup {b} /\ b \notin used
  BY DEF CpsCreate, KernelCreate
<1>4. \/ nas' = done /\ cps' = work
      \/ nas' \in {made, s} /\ UNCHANGED cps
  BY Zenon DEF CpsCreate, Opened
<1>5. made \in {s, [s EXCEPT !.npuVlans = @ \cup {v}]}
  OBVIOUS
<1> HIDE DEF s
<1>6. done \in {made, [made EXCEPT !.registered = @ \cup {b}]}
      /\ made \in {made, [made EXCEPT !.registered = @ \cup {b}]}
  OBVIOUS
<1> HIDE DEF made
<1>7. b \in Bridges \ nas.known
  BY <1>3 DEF TypeInv
<1>8. \A r \in {done, made} :
        r \in VlanState /\ r.known = nas.known \cup {b} /\ (Accounted(nas) => Accounted(r))
  BY <1>1, <1>5, <1>6, <1>7, CreatedBridge DEF s
<1>9. s \in VlanState /\ s.known = nas.known \cup {b} /\ (Accounted(nas) => Accounted(s))
  <2>1. s \in {s, [s EXCEPT !.npuVlans = @ \cup {v}]}
        /\ s \in {s, [s EXCEPT !.registered = @ \cup {b}]}
    OBVIOUS
  <2> QED BY <1>1, <1>7, <2>1, CreatedBridge DEF s
<1> HIDE DEF done
<1>10. nas' \in VlanState /\ nas'.known = nas.known \cup {b} /\ (Accounted(nas) => Accounted(nas'))
  BY <1>4, <1>8, <1>9
<1>11. work \in CpsState /\ work.br = b
  BY WorkType
<1>12. spent' \in Bounds /\ cps.work = {}
  BY SpendType DEF CpsCreate, TypeInv
<1> HIDE DEF work
<1>13. cps' \in CpsState /\ (cps'.work # {} => cps'.br \in nas'.known)
  BY <1>4, <1>10, <1>11, <1>12 DEF TypeInv, TypeOK
<1>14. TypeInv'
  <2>1. nas'.known \subseteq used'
    BY <1>3, <1>10 DEF TypeInv
  <2>2. alive' \in BOOLEAN /\ byCps' \subseteq Bridges
    BY DEF CpsCreate, TypeInv, TypeOK
  <2> QED BY <1>2, <1>10, <1>12, <1>13, <2>1, <2>2, Together
<1> QED BY <1>10, <1>14 DEF Keeps

LEMMA SetKeeps ==
  ASSUME TypeInv, NEW b \in Bridges, NEW want, CpsSet(b, want)
  PROVE  Keeps
<1> DEFINE work == [br |-> b, work |-> WorkOf(nas, b, want)]
<1>1. spent' \in Bounds
  BY SpendType DEF CpsSet, TypeInv
<1>2. work \in CpsState /\ work.br = b
  BY WorkType
<1>3. cps' = work /\ b \in nas.known /\ nas' = nas /\ alive' = alive /\ byCps' = byCps
      /\ UNCHANGED kernel
  BY Zenon DEF CpsSet
<1> HIDE DEF work
<1>4. KernelInv'
  BY <1>3 DEF TypeInv, KernelInv, kernel
<1>5. TypeInv'
  BY <1>1, <1>2, <1>3, <1>4, Together DEF TypeInv, TypeOK, kernel
<1> QED BY <1>3, <1>5 DEF Keeps

(* The step of a request that is being served.                           *)
LEMMA ServedType ==
  ASSUME TypeInv, NEW w \in Now, cps' = [cps EXCEPT !.work = @ \ {w}], nas'.known = nas.known
  PROVE  /\ w.mode \in Modes /\ w.port \in Ports /\ cps.br \in nas.known
         /\ cps' \in CpsState /\ (cps'.work # {} => cps'.br \in nas'.known)
<1>1. w \in cps.work /\ cps \in CpsState
  BY DEF Now, TypeInv, TypeOK
<1>2. w \in Work /\ cps.br \in nas.known
  BY <1>1 DEF CpsState, TypeInv
<1> QED BY <1>1, <1>2 DEF CpsState, Work

(* The port a request adds to bridge b, before the NPU is told.          *)
Listed(s, b, m, p) ==
  LET t == Insert(s, b, m, p)
  IN IF m = "untagged" THEN [t EXCEPT !.pvid[p] = s.vid[b]] ELSE t

LEMMA ListedFacts ==
  ASSUME NEW s \in VlanState, NEW b \in s.known, NEW m \in Modes, NEW p \in Ports,
         NEW t, t = Listed(s, b, m, p)
  PROVE  /\ t \in VlanState
         /\ t.known = s.known /\ t.vid = s.vid /\ t.npuVlans = s.npuVlans /\ t.npu = s.npu
         /\ p \in t.list[<<b, m>>]
         /\ \A c \in Bridges, n \in Modes : s.list[<<c, n>>] \subseteq t.list[<<c, n>>]
<1> DEFINE i == Insert(s, b, m, p)
           v == s.vid[b]
           pvid == [i.pvid EXCEPT ![p] = v]
<1>1. b \in Bridges /\ v \in MaybeVid
  BY DEF VlanState
<1>2. t \in {i, [i EXCEPT !.pvid = pvid]}
  BY DEF Listed
<1>3. /\ i \in VlanState
      /\ i.known = s.known /\ i.vid = s.vid /\ i.npuVlans = s.npuVlans /\ i.npu = s.npu
      /\ p \in i.list[<<b, m>>]
      /\ \A c \in Bridges, n \in Modes : s.list[<<c, n>>] \subseteq i.list[<<c, n>>]
  BY <1>1, InsertFacts
<1> HIDE DEF i, v
<1>4. pvid \in [Ports -> MaybeVid]
  BY <1>1, <1>3 DEF VlanState
<1> HIDE DEF pvid
<1> QED BY <1>2, <1>3, <1>4 DEF VlanState

(* The port a request adds to bridge b, and what the NPU took of it.     *)
Added(s, b, m, p, f) ==
  LET t == Listed(s, b, m, p)
      v == s.vid[b]
  IN IF NpuAddOk(t, v, f) THEN NpuAdd(t, v, m, {p}) ELSE t

LEMMA AddedFacts ==
  ASSUME NEW s \in VlanState, NEW b \in s.known, NEW m \in Modes, NEW p \in Ports, NEW f,
         NEW u, u = Added(s, b, m, p, f)
  PROVE  /\ u \in VlanState /\ u.known = s.known
         /\ Accounted(s) => Accounted(u)
<1> DEFINE t == Listed(s, b, m, p)
<1>1. /\ t \in VlanState
      /\ t.known = s.known /\ t.vid = s.vid /\ t.npuVlans = s.npuVlans /\ t.npu = s.npu
      /\ p \in t.list[<<b, m>>]
      /\ \A c \in Bridges, n \in Modes : s.list[<<c, n>>] \subseteq t.list[<<c, n>>]
  BY ListedFacts
<1> HIDE DEF t
<1>2. \/ u = t
      \/ s.vid[b] \in s.npuVlans \cap Vids /\ u = NpuAdd(t, s.vid[b], m, {p})
  BY <1>1 DEF Added, NpuAddOk, t
<1>3. CASE u = t
  <2>1. Grown(s, u, b)
    BY <1>1, <1>3 DEF Grown
  <2> QED BY <1>1, <1>3, <2>1, GrownIsAccounted
<1>4. CASE s.vid[b] \in s.npuVlans \cap Vids /\ u = NpuAdd(t, s.vid[b], m, {p})
  <2>1. {p} \subseteq Ports /\ s.vid[b] \in Vids
    BY <1>4
  <2>2. /\ u \in VlanState
        /\ u.known = t.known /\ u.vid = t.vid /\ u.list = t.list /\ u.npuVlans = t.npuVlans
        /\ \A w \in Vids, n \in Modes : \A x :
             x \in u.npu[<<w, n>>] <=>
               x \in t.npu[<<w, n>>] \/ (w = s.vid[b] /\ n = m /\ x \in {p})
    BY <1>1, <1>4, <2>1, NpuAddFacts
  <2>3. ASSUME NEW w \in Vids, NEW n \in Modes, NEW x \in u.npu[<<w, n>>] \ s.npu[<<w, n>>]
        PROVE  w = s.vid[b] /\ x \in t.list[<<b, n>>]
    BY <1>1, <2>2, <2>3
  <2>4. Grown(s, u, b)
    BY <1>1, <1>4, <2>2, <2>3 DEF Grown
  <2> QED BY <1>1, <2>2, <2>4, GrownIsAccounted
<1> QED BY <1>3, <1>4, <1>2

LEMMA AddPortKeeps ==
  ASSUME TypeInv, NEW w \in Now, NEW f, CpsAddPort(w, f)
  PROVE  Keeps
<1> DEFINE bridge == cps.br
           mode == w.mode
           port == w.port
           v == nas.vid[bridge]
           u == Added(nas, bridge, mode, port, f)
<1>1. nas \in VlanState /\ mode \in Modes /\ port \in Ports /\ bridge \in nas.known
  BY DEF Now, TypeInv, TypeOK, CpsState, Work
<1>2. v \in MaybeVid /\ bridge \in Bridges
  BY <1>1 DEF VlanState
<1>3. nas' = Show(u, bridge, mode, port)
  BY Zenon DEF CpsAddPort, Added, Listed
<1>4. UNCHANGED kernel \/ \E kv \in MaybeVid : KernelJoin(bridge, port, kv)
  <2>1. (IF mode = "tagged" THEN v ELSE 0) \in MaybeVid
    BY <1>2, VidFacts
  <2> QED BY <2>1 DEF CpsAddPort
<1> HIDE DEF bridge, mode, port
<1>5. u \in VlanState /\ u.known = nas.known /\ (Accounted(nas) => Accounted(u))
  BY <1>1, AddedFacts
<1> HIDE DEF u
<1>6. nas' \in VlanState /\ Same(u, nas')
  BY <1>1, <1>3, <1>5, ShowHide
<1>7. KernelInv' /\ used' = used
  BY <1>1, <1>2, <1>4, KernelJoinType DEF TypeInv, KernelInv, kernel, KernelJoin
<1> QED
  <2>1. spent' \in Bounds
    BY SpendType DEF CpsAddPort, TypeInv
  <2>2. alive' \in BOOLEAN /\ byCps' \subseteq Bridges /\ cps' = [cps EXCEPT !.work = @ \ {w}]
    BY DEF CpsAddPort, TypeInv, TypeOK
  <2>3. nas'.known = nas.known
    BY <1>5, <1>6 DEF Same
  <2>4. cps' \in CpsState /\ (cps'.work # {} => cps'.br \in nas'.known)
    BY <2>2, <2>3, ServedType
  <2>5. nas'.known \subseteq used'
    BY <1>7, <2>3 DEF TypeInv
  <2>6. TypeInv'
    BY <1>6, <1>7, <2>1, <2>2, <2>4, <2>5, Together
  <2> QED BY <1>5, <1>6, <2>6, SameAccount DEF Keeps

LEMMA DelPortKeeps ==
  ASSUME TypeInv, NEW w \in Now, NEW f, CpsDelPort(w, f)
  PROVE  Keeps
<1> DEFINE bridge == cps.br
           mode == w.mode
           port == w.port
           r == Release(nas, bridge, mode, port)
           u == IF NpuDelOk(nas, nas.vid[bridge], f) THEN r ELSE nas
<1>1. nas \in VlanState /\ mode \in Modes /\ port \in Ports /\ bridge \in nas.known
  BY DEF Now, TypeInv, TypeOK, CpsState, Work
<1>2. nas.vid[bridge] \in MaybeVid /\ bridge \in Bridges
  BY <1>1 DEF VlanState
<1>3. nas' = Hide(u, bridge, mode, port)
  BY Zenon DEF CpsDelPort, Release
<1>4. UNCHANGED kernel \/ \E kv \in MaybeVid : KernelLeave(port, kv)
  <2>1. (IF mode = "tagged" THEN nas.vid[bridge] ELSE 0) \in MaybeVid
    BY <1>2, VidFacts
  <2> QED BY <2>1 DEF CpsDelPort
<1>5. u = r \/ u = nas
  OBVIOUS
<1> HIDE DEF bridge, mode, port, u
<1>6. r \in VlanState /\ r.known = nas.known /\ (Accounted(nas) => Accounted(r))
  BY <1>1, Released
<1> HIDE DEF r
<1>7. u \in VlanState /\ u.known = nas.known /\ (Accounted(nas) => Accounted(u))
  BY <1>1, <1>5, <1>6
<1>8. nas' \in VlanState /\ Same(u, nas')
  BY <1>1, <1>3, <1>7, ShowHide
<1>9. KernelInv' /\ used' = used
  BY <1>1, <1>4, KernelLeaveType DEF TypeInv, KernelInv, kernel, KernelLeave
<1> QED
  <2>1. spent' \in Bounds
    BY SpendType DEF CpsDelPort, TypeInv
  <2>2. alive' \in BOOLEAN /\ byCps' \subseteq Bridges /\ cps' = [cps EXCEPT !.work = @ \ {w}]
    BY DEF CpsDelPort, TypeInv, TypeOK
  <2>3. nas'.known = nas.known
    BY <1>7, <1>8 DEF Same
  <2>4. cps' \in CpsState /\ (cps'.work # {} => cps'.br \in nas'.known)
    BY <2>2, <2>3, ServedType
  <2>5. nas'.known \subseteq used'
    BY <1>9, <2>3 DEF TypeInv
  <2>6. TypeInv'
    BY <1>8, <1>9, <2>1, <2>2, <2>4, <2>5, Together
  <2> QED BY <1>7, <1>8, <2>6, SameAccount DEF Keeps

LEMMA DeleteKeeps ==
  ASSUME TypeInv, NEW b \in Bridges, NEW f, CpsDelete(b, f)
  PROVE  Keeps
<1> DEFINE also == IF nas.vid[b] = 0 THEN {}
                   ELSE {<<p, nas.vid[b]>> : p \in nas.list[b, "tagged"]}
           gone == b \in kbridges /\ f # "kernel"
<1>1. b \in nas.known /\ nas \in VlanState /\ nas' = BridgeCleanup(nas, b, f)
  BY DEF CpsDelete, TypeInv, TypeOK
<1>2. also \subseteq Ports \X MaybeVid
  <2>1. nas.vid[b] \in MaybeVid
    BY <1>1 DEF VlanState
  <2>2. nas.list[b, "tagged"] \subseteq Ports
    <3>1. "tagged" \in Modes
      BY DEF Modes
    <3> QED BY <1>1, <3>1 DEF VlanState
  <2> DEFINE v == nas.vid[b]
             members == nas.list[b, "tagged"]
  <2>3. also = IF v = 0 THEN {} ELSE {<<p, v>> : p \in members}
    OBVIOUS
  <2> HIDE DEF also, v, members
  <2>4. v \in MaybeVid /\ members \subseteq Ports
    BY <2>1, <2>2 DEF v, members
  <2> QED BY <2>3, <2>4
<1>3. gone \in BOOLEAN /\ (gone => b \in kbridges) /\ KernelDelete(b, gone, also)
  BY DEF CpsDelete
<1> HIDE DEF also, gone
<1>4. KernelInv'
  BY <1>2, <1>3, KernelDeleteType DEF TypeInv
<1>5. nas' \in VlanState /\ nas'.known = nas.known \ {b}
      /\ (Accounted(nas) /\ f # "vlanDelete" => Accounted(nas'))
  BY <1>1, CleanedUp
<1>6. spent' \in Bounds /\ cps.work = {} /\ Failing(f)
  BY SpendType DEF CpsDelete, TypeInv
<1>7. used' = used
  BY <1>3 DEF KernelDelete
<1>8. TypeInv'
  <2>1. alive' \in BOOLEAN /\ byCps' \subseteq Bridges /\ cps' \in CpsState /\ cps'.work = {}
    BY <1>6 DEF CpsDelete, TypeInv, TypeOK
  <2>2. nas'.known \subseteq used'
    BY <1>5, <1>7 DEF TypeInv
  <2> QED BY <1>4, <1>5, <1>6, <2>1, <2>2, Together
<1> QED BY <1>5, <1>6, <1>8 DEF Keeps, Failing

(* A kernel event, on the table and on the account.                      *)
LEMMA HandleFacts ==
  ASSUME NEW s \in VlanState, NEW S \in SUBSET Bridges, s.known \subseteq S,
         NEW e \in Sound(S), NEW f, ~Fatal(s, e), NEW t, t = Handle(s, e, f)
  PROVE  /\ t \in VlanState /\ t.known \subseteq S
         /\ Accounted(s) /\ f # "vlanDelete" => Accounted(t)
<1>1. e \in Event /\ e.br \in S /\ e.br \in Bridges /\ e.vid \in MaybeVid
      /\ e.op \in {"newBridge", "delBridge", "addPort", "delPort"}
  BY DEF Sound, Event
<1>2. CASE e.op = "newBridge"
  <2>1. t = BridgeInsert(s, e.br)
    BY <1>2 DEF Handle
  <2>2. t \in VlanState /\ t.known = s.known \cup {e.br} /\ (Accounted(s) => Accounted(t))
    BY <1>1, <2>1, InsertBridge
  <2> QED BY <1>1, <2>2
<1>3. CASE e.op = "delBridge"
  <2>1. t = s \/ (e.br \in s.known /\ t = BridgeCleanup(s, e.br, f))
    BY <1>3 DEF Handle
  <2>2. CASE e.br \in s.known /\ t = BridgeCleanup(s, e.br, f)
    <3>1. /\ t \in VlanState /\ t.known = s.known \ {e.br}
          /\ Accounted(s) /\ f # "vlanDelete" => Accounted(t)
      BY <2>2, CleanedUp
    <3> QED BY <3>1
  <2> QED BY <2>1, <2>2
<1>4. CASE e.op = "addPort"
  <2>1. t = OnAddPort(s, e.br, e.port, e.vid, f) /\ e.br \in s.known /\ e.port \in Ports
    BY <1>4 DEF Handle, Fatal, Sound
  <2>2. t \in VlanState /\ t.known = s.known /\ (Accounted(s) => Accounted(t))
    BY <1>1, <2>1, OnAddPortFacts
  <2> QED BY <2>2
<1>5. CASE e.op = "delPort"
  <2>1. t = OnDelPort(s, e.br, e.port, ModeOf(e.vid), f) /\ e.port \in Ports
    BY <1>5 DEF Handle, Sound
  <2>2. t \in VlanState /\ t.known = s.known /\ (Accounted(s) => Accounted(t))
    BY <2>1, ModeFacts, OnDelPortFacts
  <2> QED BY <2>2
<1> QED BY <1>1, <1>2, <1>3, <1>4, <1>5

LEMMA EventKeeps ==
  ASSUME TypeInv, NEW f, VlanEvent(f) \/ VlanEventCrash
  PROVE  Keeps
<1> DEFINE e == Head(queue)
<1>1. PICK g : /\ Take(g)
               /\ \/ nas' = nas /\ alive' = FALSE
                  \/ ~Fatal(nas, e) /\ nas' = Handle(nas, e, g) /\ alive' = alive
  BY Zenon DEF VlanEvent, VlanEventCrash
<1>2. queue \in Seq(Sound(used)) /\ queue # <<>>
  BY <1>1 DEF Take, TypeInv, KernelInv
<1>3. e \in Sound(used) /\ queue' \in Seq(Sound(used))
  BY <1>1, <1>2, HeadTailProperties DEF Take
<1>4. KernelInv' /\ used' = used
  BY <1>1, <1>3 DEF Take, TypeInv, KernelInv
<1> HIDE DEF e
<1>5. nas \in VlanState /\ used \in SUBSET Bridges /\ nas.known \subseteq used
  BY DEF TypeInv, TypeOK
<1>6. /\ nas' \in VlanState /\ nas'.known \subseteq used
      /\ Accounted(nas) /\ g # "vlanDelete" => Accounted(nas')
  <2>1. CASE nas' = nas
    BY <1>5, <2>1
  <2>2. CASE ~Fatal(nas, e) /\ nas' = Handle(nas, e, g)
    BY <1>3, <1>5, <2>2, HandleFacts
  <2> QED BY <1>1, <2>1, <2>2
<1>7. spent' \in Bounds
  BY <1>1, SpendType DEF Take, TypeInv
<1>8. alive' \in BOOLEAN /\ byCps' \subseteq Bridges /\ cps' \in CpsState /\ cps'.work = {}
      /\ Failing(g)
  BY <1>1 DEF Take, SpendFault, TypeInv, TypeOK
<1>9. TypeInv'
  BY <1>4, <1>6, <1>7, <1>8, Together
<1> QED BY <1>6, <1>8, <1>9 DEF Keeps, Failing

LEMMA OtherKeeps ==
  ASSUME TypeInv, Other
  PROVE  Keeps
<1>1. SpendExternal /\ UNCHANGED <<nas, alive, cps, byCps>>
  BY DEF Other, OtherCreate, OtherDelete, OtherJoin, OtherLeave
<1>2. KernelInv' /\ used \subseteq used'
  <2>1. ASSUME NEW b \in Bridges, KernelCreate(b) PROVE KernelInv' /\ used \subseteq used'
    BY <2>1, KernelCreateType DEF TypeInv, KernelCreate
  <2>2. ASSUME NEW b \in Bridges, b \in kbridges, KernelDelete(b, TRUE, {})
        PROVE  KernelInv' /\ used \subseteq used'
    <3>1. KernelInv'
      BY <2>2, KernelDeleteType DEF TypeInv
    <3> QED BY <2>2, <3>1 DEF KernelDelete
  <2>3. ASSUME NEW b \in Bridges, NEW p \in Ports, NEW v \in VidsOf[b] \cup {0},
               KernelJoin(b, p, v)
        PROVE  KernelInv' /\ used \subseteq used'
    <3>1. v \in MaybeVid
      BY NasVlanAssumption DEF MaybeVid
    <3> QED BY <2>3, <3>1, KernelJoinType DEF TypeInv, KernelJoin
  <2>4. ASSUME NEW p \in Ports, NEW v \in MaybeVid, KernelLeave(p, v)
        PROVE  KernelInv' /\ used \subseteq used'
    BY <2>4, KernelLeaveType DEF TypeInv, KernelLeave
  <2> QED BY <2>1, <2>2, <2>3, <2>4 DEF Other, OtherCreate, OtherDelete, OtherJoin, OtherLeave
<1>3. spent' \in Bounds
  BY <1>1, SpendType DEF TypeInv
<1>4. TypeInv'
  BY <1>1, <1>2, <1>3, Together DEF TypeInv, TypeOK
<1> QED BY <1>1, <1>4 DEF Keeps

LEMMA NextKeeps == TypeInv /\ [Next]_vars => Keeps
<1> SUFFICES ASSUME TypeInv, [Next]_vars PROVE Keeps
  OBVIOUS
<1>1. CASE CpsRequest
  BY <1>1, CreateKeeps, SetKeeps, DeleteKeeps DEF CpsRequest
<1>2. CASE Serve
  <2>1. PICK w, f : CpsAddPort(w, f) \/ CpsDelPort(w, f)
    BY <1>2 DEF Serve
  <2>2. w \in Now
    BY <2>1 DEF CpsAddPort, CpsDelPort
  <2> QED BY <2>1, <2>2, AddPortKeeps, DelPortKeeps
<1>3. CASE EventThread
  BY <1>3, EventKeeps DEF EventThread
<1>4. CASE Other
  BY <1>4, OtherKeeps
<1>5. CASE UNCHANGED vars
  BY <1>5 DEF vars, Keeps, TypeInv, TypeOK, KernelInv
<1> QED BY <1>1, <1>2, <1>3, <1>4, <1>5 DEF Next
-----------------------------------------------------------------------------
(* Whatever other programs do to the kernel, whichever calls fail and    *)
(* however requests and events interleave, the bridge table, the lists of *)
(* ports, the NPU, the queue and the request being served keep the types *)
(* nas_int_bridge.h and nas_vlan_cps.cpp declare.                        *)
THEOREM TypeCorrect == Spec => []TypeOK
<1>1. Init => TypeInv
  BY InitType
<1>2. TypeInv /\ [Next]_vars => TypeInv'
  BY NextKeeps DEF Keeps
<1>3. TypeInv => TypeOK
  BY DEF TypeInv
<1> QED BY <1>1, <1>2, <1>3, PTL DEF Spec

(* When the NPU never refuses to delete a VLAN, nas_int_bridge.cpp leaves *)
(* nothing in it that no bridge of the table stands for, whatever else   *)
(* fails.                                                                *)
THEOREM NothingStray ==
  ASSUME "vlanDelete" \notin FaultKinds
  PROVE  Spec => []NoNpuStray
<1>1. Init => TypeInv /\ Accounted(nas)
  BY InitType
<1>2. (TypeInv /\ Accounted(nas)) /\ [Next]_vars => (TypeInv /\ Accounted(nas))'
  BY NextKeeps DEF Keeps
<1>3. Accounted(nas) => NoNpuStray
  BY DEF Accounted, NoNpuStray
<1> QED BY <1>1, <1>2, <1>3, PTL DEF Spec

-----------------------------------------------------------------------------
(* Lists and kernel.  The proofs go bridge by bridge, for bridges that are   *)
(* each used with one VLAN id, which no other has (OwnVid): two bridges of   *)
(* one id share a VLAN of the NPU, which nas_int_vlan.cpp cannot tell apart. *)

OwnVid ==
  /\ \A b \in Bridges : \A v, w \in VidsOf[b] : v = w
  /\ \A b, c \in Bridges : b # c => VidsOf[b] \cap VidsOf[c] = {}

Own(b) == VidsOf[b] \cup {0}

(* An event about port p's interface in VLAN v and bridge b. *)
Says(e, b, p, v) == e.op \in {"addPort", "delPort"} /\ e.br = b /\ e.port = p /\ e.vid = v
Silent(q, b, p, v) == \A i \in 1..Len(q) : ~Says(q[i], b, p, v)
Has(q, e) == \E i \in 1..Len(q) : q[i] = e

(* The last event of an interface and a bridge says whether it is there, k   *)
(* being the bridge it is in.                                                *)
Agrees(q, b, p, v, k) ==
  \A i \in 1..Len(q) :
    Says(q[i], b, p, v) /\ (\A j \in 1..Len(q) : j > i => ~Says(q[j], b, p, v)) =>
      (q[i].op = "addPort" <=> k = b)

(* The events the kernel reported: those of an interface end as it is, and   *)
(* no bridge comes after it went.                                            *)
Ends(q, kb) ==
  \A i \in 1..Len(q) : \A b \in Bridges :
    /\ q[i] = BridgeEvent("delBridge", b) => b \notin kb
    /\ q[i] = BridgeEvent("newBridge", b) =>
         b \in kb \/ \E j \in 1..Len(q) : j > i /\ q[j] = BridgeEvent("delBridge", b)

(* An event of an id that its bridge is used with, or of a whole bridge.     *)
Proper(e) ==
  /\ e.vid \in Own(e.br)
  /\ e.op \in {"newBridge", "delBridge"} => e = BridgeEvent(e.op, e.br)

Logged(q, kb, km) ==
  /\ \A b \in Bridges, p \in Ports, v \in MaybeVid :
       /\ km[<<p, v>>] = b => v \in Own(b)
       /\ Agrees(q, b, p, v, km[<<p, v>>])
  /\ \A i \in 1..Len(q) : Proper(q[i])
  /\ Ends(q, kb)

(* A bridge the kernel has not had. *)
Fresh(s, b) ==
  /\ \A m \in Modes : s.list[<<b, m>>] = {} /\ s.seen[<<b, m>>] = {}
  /\ \A v \in VidsOf[b] : /\ v \in s.npuVlans <=> v = DefaultVlan
                          /\ \A m \in Modes : s.npu[<<v, m>>] = {}

(* One that a request created. *)
Programmed(s, b) ==
  /\ b \in s.known /\ s.vid[b] \in VidsOf[b] /\ s.vid[b] \in s.npuVlans
  /\ \A m \in Modes :
       /\ s.list[<<b, m>>] \subseteq s.npu[<<s.vid[b], m>>]
       /\ s.vid[b] # DefaultVlan => s.npu[<<s.vid[b], m>>] = s.list[<<b, m>>]
       /\ s.seen[<<b, m>>] = s.list[<<b, m>>]

(* What the table has of an interface whose events are handled. *)
Caught(s, b, p, v, x, made) ==
  /\ x => p \in s.list[<<b, ModeOf(v)>>]
  /\ made /\ p \in s.list[<<b, ModeOf(v)>>] => x

(* The table has of bridge b what the kernel has, or an event is pending;    *)
(* made tells that a request created it.                                     *)
MendsOf(b, s, q, kb, km, us, made, live) ==
  /\ s.vid[b] \in Own(b)
  /\ b \notin us => Fresh(s, b)
  /\ made /\ b \in kb => Programmed(s, b)
  /\ b \in s.known /\ b \notin kb => Has(q, BridgeEvent("delBridge", b))
  /\ b \in kb /\ b \notin s.known => Has(q, BridgeEvent("newBridge", b))
  /\ live /\ b \in kb =>
       \A p \in Ports, v \in Own(b) :
         Silent(q, b, p, v) => Caught(s, b, p, v, km[<<p, v>>] = b, made)

Mends(s, q, kb, km, us, made, live) ==
  \A b \in Bridges : MendsOf(b, s, q, kb, km, us, b \in made, live)

Follows ==
  /\ byCps \subseteq used
  /\ Logged(queue, kbridges, kmem)
  /\ Mends(nas, queue, kbridges, kmem, used, byCps, alive)

(* As long as no call failed.                                                *)
FollowInv == spent.faults = 0 => Follows

-----------------------------------------------------------------------------
(* Sequences of events, appended and taken. *)

(* t is q with a behind it. *)
Behind(t, q, a) ==
  /\ t \in Seq(Event) /\ Len(q) \in Nat /\ Len(a) \in Nat
  /\ Len(t) = Len(q) + Len(a)
  /\ \A i \in 1..Len(q) : i \in 1..Len(t) /\ t[i] = q[i]
  /\ \A i \in 1..Len(a) : Len(q) + i \in 1..Len(t) /\ t[Len(q) + i] = a[i]
  /\ \A i \in 1..Len(t) : i \in 1..Len(q) \/ \E k \in 1..Len(a) : i = Len(q) + k

LEMMA Joined ==
  ASSUME NEW q \in Seq(Event), NEW a \in Seq(Event), NEW t, t = q \o a
  PROVE  Behind(t, q, a)
<1>1. Len(q) \in Nat /\ Len(a) \in Nat
  BY LenProperties
<1>2. /\ t \in Seq(Event) /\ Len(t) = Len(q) + Len(a)
      /\ \A i \in 1..Len(q) + Len(a) : t[i] = IF i <= Len(q) THEN q[i] ELSE a[i - Len(q)]
  BY ConcatProperties
<1>3. ASSUME NEW i \in 1..Len(a)
      PROVE  Len(q) + i \in 1..Len(t) /\ t[Len(q) + i] = a[i]
  <2>1. Len(q) + i \in 1..Len(q) + Len(a) /\ ~(Len(q) + i <= Len(q)) /\ (Len(q) + i) - Len(q) = i
    BY <1>1
  <2> QED BY <1>2, <2>1
<1>4. ASSUME NEW i \in 1..Len(t), i \notin 1..Len(q)
      PROVE  \E k \in 1..Len(a) : i = Len(q) + k
  <2>1. i - Len(q) \in 1..Len(a) /\ i = Len(q) + (i - Len(q))
    BY <1>1, <1>2, <1>4
  <2> QED BY <2>1
<1>5. \A i \in 1..Len(q) : i \in 1..Len(t) /\ t[i] = q[i]
  BY <1>1, <1>2
<1> QED BY <1>1, <1>2, <1>3, <1>4, <1>5 DEF Behind

LEMMA Dropped ==
  ASSUME NEW q \in Seq(Event), q # <<>>, NEW t, t = Tail(q)
  PROVE  /\ t \in Seq(Event) /\ Len(t) \in Nat /\ Len(q) = Len(t) + 1
         /\ Head(q) = q[1] /\ q[1] \in Event /\ 1 \in 1..Len(q)
         /\ \A i \in 1..Len(t) : i + 1 \in 1..Len(q) /\ t[i] = q[i + 1]
         /\ \A i \in 1..Len(q) : i = 1 \/ (i - 1 \in 1..Len(t) /\ t[i - 1] = q[i])
<1>1. /\ t \in Seq(Event) /\ Len(t) = Len(q) - 1 /\ Len(q) \in Nat \ {0}
      /\ Head(q) = q[1] /\ q[1] \in Event /\ \A i \in 1..Len(t) : t[i] = q[i + 1]
  BY HeadTailProperties, LenProperties
<1>2. \A i \in 1..Len(q) : i = 1 \/ (i - 1 \in 1..Len(t) /\ t[i - 1] = q[i])
  BY <1>1
<1>3. \A i \in 1..Len(t) : i + 1 \in 1..Len(q)
  BY <1>1
<1> QED BY <1>1, <1>2, <1>3

LEMMA HasJoin ==
  ASSUME NEW q \in Seq(Event), NEW a \in Seq(Event), NEW t, t = q \o a
  PROVE  /\ \A e : Has(t, e) <=> Has(q, e) \/ Has(a, e)
         /\ \A b, p, v : Silent(t, b, p, v) <=> Silent(q, b, p, v) /\ Silent(a, b, p, v)
<1>1. \A i \in 1..Len(q) : i \in 1..Len(t) /\ t[i] = q[i]
  BY Joined DEF Behind
<1>2. \A i \in 1..Len(a) : \E k \in 1..Len(t) : t[k] = a[i]
  <2>1. \A i \in 1..Len(a) : Len(q) + i \in 1..Len(t) /\ t[Len(q) + i] = a[i]
    BY Joined DEF Behind
  <2> QED BY <2>1
<1>3. \A i \in 1..Len(t) : \/ i \in 1..Len(q)
                           \/ \E k \in 1..Len(a) : t[i] = a[k]
  <2>1. \A i \in 1..Len(t) : i \in 1..Len(q) \/ \E k \in 1..Len(a) : i = Len(q) + k
    BY Joined DEF Behind
  <2>2. \A k \in 1..Len(a) : t[Len(q) + k] = a[k]
    BY Joined DEF Behind
  <2> QED BY <2>1, <2>2
<1>4. ASSUME NEW e PROVE Has(t, e) <=> Has(q, e) \/ Has(a, e)
  <2>1. Has(t, e) => Has(q, e) \/ Has(a, e)
    BY <1>1, <1>3 DEF Has
  <2>2. Has(q, e) \/ Has(a, e) => Has(t, e)
    BY <1>1, <1>2 DEF Has
  <2> QED BY <2>1, <2>2
<1>5. ASSUME NEW b, NEW p, NEW v
      PROVE  Silent(t, b, p, v) <=> Silent(q, b, p, v) /\ Silent(a, b, p, v)
  <2>1. Silent(t, b, p, v) => Silent(q, b, p, v) /\ Silent(a, b, p, v)
    BY <1>1, <1>2 DEF Silent
  <2>2. Silent(q, b, p, v) /\ Silent(a, b, p, v) => Silent(t, b, p, v)
    BY <1>1, <1>3 DEF Silent
  <2> QED BY <2>1, <2>2
<1> QED BY <1>4, <1>5

(* What is appended tells the new state of the interface, or is not about    *)
(* it.                                                                       *)
LEMMA AgreesJoin ==
  ASSUME NEW q \in Seq(Event), NEW a \in Seq(Event), NEW t, t = q \o a,
         NEW b, NEW p, NEW v, NEW m, NEW n,
         Agrees(q, b, p, v, m), Agrees(a, b, p, v, n),
         Silent(a, b, p, v) => (n = b <=> m = b)
  PROVE  Agrees(t, b, p, v, n)
<1> SUFFICES ASSUME NEW i \in 1..Len(t), Says(t[i], b, p, v),
                    \A j \in 1..Len(t) : j > i => ~Says(t[j], b, p, v)
             PROVE  t[i].op = "addPort" <=> n = b
  BY DEF Agrees
<1>1. /\ Len(q) \in Nat /\ Len(a) \in Nat
      /\ \A j \in 1..Len(q) : j \in 1..Len(t) /\ t[j] = q[j]
      /\ \A j \in 1..Len(a) : Len(q) + j \in 1..Len(t) /\ t[Len(q) + j] = a[j]
      /\ i \in 1..Len(q) \/ \E k \in 1..Len(a) : i = Len(q) + k
  BY Joined DEF Behind
<1>2. CASE i \in 1..Len(q)
  <2>1. ASSUME NEW k \in 1..Len(a) PROVE ~Says(a[k], b, p, v)
    <3>1. Len(q) + k > i
      BY <1>1, <1>2
    <3> QED BY <1>1, <3>1
  <2>2. Says(q[i], b, p, v) /\ \A j \in 1..Len(q) : j > i => ~Says(q[j], b, p, v)
    BY <1>1, <1>2
  <2>3. q[i].op = "addPort" <=> m = b
    BY <1>2, <2>2 DEF Agrees
  <2> QED BY <1>1, <1>2, <2>1, <2>3 DEF Silent
<1>3. ASSUME NEW k \in 1..Len(a), i = Len(q) + k PROVE t[i].op = "addPort" <=> n = b
  <2>1. ASSUME NEW j \in 1..Len(a), j > k PROVE ~Says(a[j], b, p, v)
    <3>1. Len(q) + j > i
      BY <1>1, <1>3, <2>1
    <3> QED BY <1>1, <3>1
  <2>2. Says(a[k], b, p, v)
    BY <1>1, <1>3
  <2>3. a[k].op = "addPort" <=> n = b
    BY <2>1, <2>2 DEF Agrees
  <2> QED BY <1>1, <1>3, <2>3
<1> QED BY <1>1, <1>2, <1>3

LEMMA TakenFacts ==
  ASSUME NEW q \in Seq(Event), q # <<>>, NEW t, t = Tail(q)
  PROVE  /\ \A e : Has(q, e) <=> e = Head(q) \/ Has(t, e)
         /\ \A b, p, v : Silent(q, b, p, v) <=> ~Says(Head(q), b, p, v) /\ Silent(t, b, p, v)
<1>1. /\ Head(q) = q[1] /\ 1 \in 1..Len(q)
      /\ \A i \in 1..Len(t) : i + 1 \in 1..Len(q) /\ t[i] = q[i + 1]
      /\ \A i \in 1..Len(q) : i = 1 \/ (i - 1 \in 1..Len(t) /\ t[i - 1] = q[i])
  BY Dropped
<1>2. \A i \in 1..Len(t) : \E k \in 1..Len(q) : q[k] = t[i]
  BY <1>1
<1>3. \A i \in 1..Len(q) : q[i] = Head(q) \/ \E k \in 1..Len(t) : t[k] = q[i]
  BY <1>1
<1>4. ASSUME NEW e PROVE Has(q, e) <=> e = Head(q) \/ Has(t, e)
  <2>1. Has(q, e) => e = Head(q) \/ Has(t, e)
    BY <1>3 DEF Has
  <2>2. e = Head(q) \/ Has(t, e) => Has(q, e)
    BY <1>1, <1>2 DEF Has
  <2> QED BY <2>1, <2>2
<1>5. ASSUME NEW b, NEW p, NEW v
      PROVE  Silent(q, b, p, v) <=> ~Says(Head(q), b, p, v) /\ Silent(t, b, p, v)
  <2>1. Silent(q, b, p, v) => ~Says(Head(q), b, p, v) /\ Silent(t, b, p, v)
    BY <1>1, <1>2 DEF Silent
  <2>2. ~Says(Head(q), b, p, v) /\ Silent(t, b, p, v) => Silent(q, b, p, v)
    BY <1>3 DEF Silent
  <2> QED BY <2>1, <2>2
<1> QED BY <1>4, <1>5

(* An event no later one corrects tells what the kernel has.                 *)
LastTells(e, t, b, p, v, k) ==
  Says(e, b, p, v) /\ Silent(t, b, p, v) => (e.op = "addPort" <=> k = b)

(* The event taken was the last of its interface, or the rest still agrees.  *)
LEMMA AgreesTaken ==
  ASSUME NEW q \in Seq(Event), q # <<>>, NEW t, t = Tail(q),
         NEW b, NEW p, NEW v, NEW k, Agrees(q, b, p, v, k)
  PROVE  Agrees(t, b, p, v, k) /\ LastTells(Head(q), t, b, p, v, k)
<1>1. /\ Len(t) \in Nat /\ Len(q) = Len(t) + 1 /\ Head(q) = q[1] /\ 1 \in 1..Len(q)
      /\ \A i \in 1..Len(t) : i + 1 \in 1..Len(q) /\ t[i] = q[i + 1]
      /\ \A i \in 1..Len(q) : i = 1 \/ (i - 1 \in 1..Len(t) /\ t[i - 1] = q[i])
  BY Dropped
<1>2. ASSUME NEW i \in 1..Len(t), Says(t[i], b, p, v),
             \A j \in 1..Len(t) : j > i => ~Says(t[j], b, p, v)
      PROVE  t[i].op = "addPort" <=> k = b
  <2>1. ASSUME NEW j \in 1..Len(q), j > i + 1 PROVE ~Says(q[j], b, p, v)
    <3>1. j - 1 \in 1..Len(t) /\ t[j - 1] = q[j] /\ j - 1 > i
      BY <1>1, <2>1
    <3> QED BY <1>2, <3>1
  <2>2. i + 1 \in 1..Len(q) /\ q[i + 1] = t[i]
    BY <1>1
  <2> QED BY <1>2, <2>1, <2>2 DEF Agrees
<1>3. ASSUME Says(Head(q), b, p, v), Silent(t, b, p, v) PROVE Head(q).op = "addPort" <=> k = b
  <2>1. \A j \in 1..Len(q) : j > 1 => ~Says(q[j], b, p, v)
    <3> SUFFICES ASSUME NEW j \in 1..Len(q), j > 1 PROVE ~Says(q[j], b, p, v)
      OBVIOUS
    <3>1. j - 1 \in 1..Len(t) /\ t[j - 1] = q[j]
      BY <1>1
    <3> QED BY <1>3, <3>1 DEF Silent
  <2> QED BY <1>1, <1>3, <2>1 DEF Agrees
<1>4. LastTells(Head(q), t, b, p, v, k)
  BY <1>3 DEF LastTells
<1>5. Agrees(t, b, p, v, k)
  BY <1>2 DEF Agrees
<1> QED BY <1>4, <1>5

-----------------------------------------------------------------------------
(* The operations of the kernel, with the events they report.                *)

(* What the events tell is what changed.                                     *)
Reports(a) ==
  /\ a \in Seq(Event) /\ queue' = queue \o a
  /\ \A b \in Bridges, p \in Ports, v \in MaybeVid :
       /\ kmem'[<<p, v>>] = b => v \in Own(b)
       /\ Agrees(a, b, p, v, kmem'[<<p, v>>])
       /\ Silent(a, b, p, v) => (kmem'[<<p, v>>] = b <=> kmem[<<p, v>>] = b)
  /\ \A i \in 1..Len(a) : Proper(a[i])
  /\ \A b \in Bridges :
       /\ Has(a, BridgeEvent("delBridge", b)) => b \notin kbridges'
       /\ Has(a, BridgeEvent("newBridge", b)) => b \in kbridges'
       /\ b \in kbridges' \ kbridges => b \notin used /\ Has(a, BridgeEvent("newBridge", b))
       /\ b \in kbridges \ kbridges' => Has(a, BridgeEvent("delBridge", b))
  /\ used \subseteq used'

LEMMA BridgeEvents ==
  /\ \A b, c : /\ BridgeEvent("delBridge", b) = BridgeEvent("delBridge", c) => b = c
               /\ BridgeEvent("newBridge", b) = BridgeEvent("newBridge", c) => b = c
               /\ BridgeEvent("newBridge", b) # BridgeEvent("delBridge", c)
  /\ \A b, c, p, v, op : op \in {"addPort", "delPort"} =>
       /\ PortEvent(op, b, p, v) # BridgeEvent("newBridge", c)
       /\ PortEvent(op, b, p, v) # BridgeEvent("delBridge", c)
  /\ \A b, c, p, v, op : op \in {"newBridge", "delBridge"} => ~Says(BridgeEvent(op, b), c, p, v)
  /\ \A b, c, p, x, v, w, op : op \in {"addPort", "delPort"} =>
       (Says(PortEvent(op, b, p, v), c, x, w) <=> b = c /\ p = x /\ v = w)
BY DEF BridgeEvent, PortEvent, Says

(* What the kernel reported is about bridges it has had.                     *)
LEMMA NoEventOfNew ==
  ASSUME KernelInv, NEW b \in Bridges \ used
  PROVE  ~Has(queue, BridgeEvent("delBridge", b))
<1> SUFFICES ASSUME NEW i \in 1..Len(queue), queue[i] = BridgeEvent("delBridge", b)
             PROVE  FALSE
  BY DEF Has
<1>1. queue[i] \in Sound(used)
  BY ElementOfSeq DEF KernelInv
<1>2. queue[i].br = b
  BY DEF BridgeEvent
<1> QED BY <1>1, <1>2 DEF Sound

(* No event, one or two.                                                     *)
LEMMA NoEvents ==
  /\ <<>> \in Seq(Event)
  /\ \A b, p, v, x : Agrees(<<>>, b, p, v, x) /\ Silent(<<>>, b, p, v)
  /\ \A e : ~Has(<<>>, e)
BY EmptySeq DEF Agrees, Silent, Has

LEMMA OneEvent ==
  ASSUME NEW e \in Event
  PROVE  /\ <<e>> \in Seq(Event) /\ Len(<<e>>) = 1 /\ <<e>>[1] = e
         /\ \A b, p, v, x : Agrees(<<e>>, b, p, v, x) <=>
                              (Says(e, b, p, v) => (e.op = "addPort" <=> x = b))
         /\ \A b, p, v : Silent(<<e>>, b, p, v) <=> ~Says(e, b, p, v)
         /\ \A d : Has(<<e>>, d) <=> d = e
<1>1. Len(<<e>>) = 1 /\ <<e>>[1] = e /\ 1..Len(<<e>>) = {1}
  OBVIOUS
<1>2. \A b, p, v : Silent(<<e>>, b, p, v) <=> ~Says(e, b, p, v)
  BY <1>1 DEF Silent
<1>3. \A d : Has(<<e>>, d) <=> d = e
  BY <1>1 DEF Has
<1>4. ASSUME NEW b, NEW p, NEW v, NEW x
      PROVE  Agrees(<<e>>, b, p, v, x) <=> (Says(e, b, p, v) => (e.op = "addPort" <=> x = b))
  BY <1>1 DEF Agrees
<1> QED BY <1>1, <1>2, <1>3, <1>4

LEMMA TwoEvents ==
  ASSUME NEW d \in Event, NEW e \in Event
  PROVE  /\ <<d, e>> \in Seq(Event)
         /\ \A i \in 1..Len(<<d, e>>) : <<d, e>>[i] \in {d, e}
         /\ \A b, p, v, x :
              /\ ~(Says(d, b, p, v) /\ Says(e, b, p, v))
              /\ Says(d, b, p, v) => (d.op = "addPort" <=> x = b)
              /\ Says(e, b, p, v) => (e.op = "addPort" <=> x = b)
              => Agrees(<<d, e>>, b, p, v, x)
         /\ \A b, p, v : Silent(<<d, e>>, b, p, v) <=> ~Says(d, b, p, v) /\ ~Says(e, b, p, v)
         /\ \A f : Has(<<d, e>>, f) <=> f \in {d, e}
<1> DEFINE t == <<d, e>>
<1>1. t \in Seq(Event) /\ Len(t) = 2 /\ 1..Len(t) = {1, 2} /\ t[1] = d /\ t[2] = e
  OBVIOUS
<1> HIDE DEF t
<1>3. \A b, p, v : Silent(t, b, p, v) <=> ~Says(d, b, p, v) /\ ~Says(e, b, p, v)
  BY <1>1 DEF Silent
<1>4. \A f : Has(t, f) <=> f \in {d, e}
  BY <1>1 DEF Has
<1>5. ASSUME NEW b, NEW p, NEW v, NEW x,
             Says(d, b, p, v) => (d.op = "addPort" <=> x = b),
             Says(e, b, p, v) => (e.op = "addPort" <=> x = b)
      PROVE  Agrees(t, b, p, v, x)
  BY <1>1, <1>5 DEF Agrees
<1>6. \A i \in 1..Len(t) : t[i] \in {d, e}
  BY <1>1
<1> QED BY <1>1, <1>3, <1>4, <1>5, <1>6 DEF t

LEMMA CreateReports ==
  ASSUME TypeInv, Logged(queue, kbridges, kmem), NEW b \in Bridges, KernelCreate(b)
  PROVE  Reports(<<BridgeEvent("newBridge", b)>>)
<1> DEFINE e == BridgeEvent("newBridge", b)
<1>1. e \in Event /\ e.vid = 0 /\ e.br = b /\ Proper(e)
  BY VidFacts DEF BridgeEvent, Event, Proper, Own
<1>2. queue' = queue \o <<e>>
  <2>1. queue \in Seq(Event)
    BY DEF TypeInv, TypeOK
  <2> QED BY <2>1, <1>1, AppendProperties DEF KernelCreate
<1>3. \A c, p, v : ~Says(e, c, p, v)
  BY BridgeEvents
<1>4. \A c : /\ e = BridgeEvent("newBridge", c) <=> b = c
             /\ e # BridgeEvent("delBridge", c)
  BY BridgeEvents
<1>5. kmem' = kmem /\ b \notin used /\ kbridges' = kbridges \cup {b} /\ used' = used \cup {b}
  BY DEF KernelCreate
<1> HIDE DEF e
<1>6. /\ <<e>> \in Seq(Event) /\ Len(<<e>>) = 1 /\ <<e>>[1] = e
      /\ \A c, p, v, x : Agrees(<<e>>, c, p, v, x) <=>
                           (Says(e, c, p, v) => (e.op = "addPort" <=> x = c))
      /\ \A d : Has(<<e>>, d) <=> d = e
  BY <1>1, OneEvent
<1>7. \A i \in 1..Len(<<e>>) : Proper(<<e>>[i])
  BY <1>1, <1>6
<1>8. \A c \in Bridges, p \in Ports, v \in MaybeVid :
        /\ kmem'[<<p, v>>] = c => v \in Own(c)
        /\ Agrees(<<e>>, c, p, v, kmem'[<<p, v>>])
  BY <1>3, <1>5, <1>6 DEF Logged
<1>9. \A c \in Bridges :
        /\ Has(<<e>>, BridgeEvent("delBridge", c)) => c \notin kbridges'
        /\ Has(<<e>>, BridgeEvent("newBridge", c)) => c \in kbridges'
        /\ c \in kbridges' \ kbridges => c \notin used /\ Has(<<e>>, BridgeEvent("newBridge", c))
        /\ c \in kbridges \ kbridges' => Has(<<e>>, BridgeEvent("delBridge", c))
  BY <1>4, <1>5, <1>6
<1>10. Reports(<<e>>)
  BY <1>2, <1>5, <1>6, <1>7, <1>8, <1>9 DEF Reports
<1> QED BY <1>10 DEF e

LEMMA JoinReports ==
  ASSUME TypeInv, Logged(queue, kbridges, kmem),
         NEW b \in Bridges, NEW p \in Ports, NEW v \in MaybeVid, v \in Own(b),
         KernelJoin(b, p, v)
  PROVE  /\ \E a : Reports(a)
         /\ kmem'[<<p, v>>] = b
<1> DEFINE old == kmem[<<p, v>>]
           joined == PortEvent("addPort", b, p, v)
           left == PortEvent("delPort", old, p, v)
<1>1. kmem \in [Ports \X MaybeVid -> MaybeBridge] /\ queue \in Seq(Event)
  BY DEF TypeInv, TypeOK
<1>2. /\ kmem' = [kmem EXCEPT ![<<p, v>>] = b] /\ UNCHANGED <<kbridges, used>>
      /\ \/ old = b /\ queue' = queue
         \/ old = None /\ queue' = Append(queue, joined)
         \/ old \notin {b, None} /\ queue' = queue \o <<left, joined>>
  <2>1. queue' = CASE old = b    -> queue
                   [] old = None -> Append(queue, joined)
                   [] OTHER -> queue \o <<left, joined>>
    BY Zenon DEF KernelJoin
  <2>2. b # None
    BY NasVlanAssumption
  <2> QED BY <2>1, <2>2 DEF KernelJoin
<1>3. /\ kmem'[<<p, v>>] = b
      /\ \A q \in Ports, w \in MaybeVid : <<q, w>> # <<p, v>> => kmem'[<<q, w>>] = kmem[<<q, w>>]
  BY <1>1, <1>2
<1>4. \A c \in Bridges, q \in Ports, w \in MaybeVid : kmem'[<<q, w>>] = c => w \in Own(c)
  BY <1>3 DEF Logged
<1>5. joined \in Event /\ joined.vid = v /\ joined.br = b /\ joined.op = "addPort"
  BY DEF PortEvent, Event
<1>6. \A c : /\ joined # BridgeEvent("newBridge", c) /\ joined # BridgeEvent("delBridge", c)
             /\ left # BridgeEvent("newBridge", c) /\ left # BridgeEvent("delBridge", c)
  BY BridgeEvents
<1>7. \A c, q, w : /\ Says(joined, c, q, w) <=> b = c /\ p = q /\ v = w
                   /\ Says(left, c, q, w) <=> old = c /\ p = q /\ v = w
  BY BridgeEvents
<1>8. CASE old = b /\ queue' = queue
  <2>1. queue' = queue \o <<>>
    BY <1>1, <1>8, ConcatEmptySeq
  <2>2. \A c \in Bridges, q \in Ports, w \in MaybeVid : kmem'[<<q, w>>] = kmem[<<q, w>>]
    BY <1>3, <1>8
  <2>3. Reports(<<>>)
    BY <1>2, <1>4, <2>1, <2>2, NoEvents DEF Reports
  <2> QED BY <1>3, <2>3
<1>9. CASE old = None /\ queue' = Append(queue, joined)
  <2> HIDE DEF joined, left
  <2>1. queue' = queue \o <<joined>>
    BY <1>1, <1>5, <1>9, AppendProperties
  <2>2. /\ <<joined>> \in Seq(Event) /\ Len(<<joined>>) = 1 /\ <<joined>>[1] = joined
        /\ \A c, q, w, x : Agrees(<<joined>>, c, q, w, x) <=>
                             (Says(joined, c, q, w) => (joined.op = "addPort" <=> x = c))
        /\ \A c, q, w : Silent(<<joined>>, c, q, w) <=> ~Says(joined, c, q, w)
        /\ \A d : Has(<<joined>>, d) <=> d = joined
    BY <1>5, OneEvent
  <2>3. ASSUME NEW c \in Bridges, NEW q \in Ports, NEW w \in MaybeVid
        PROVE  /\ Agrees(<<joined>>, c, q, w, kmem'[<<q, w>>])
               /\ Silent(<<joined>>, c, q, w) => (kmem'[<<q, w>>] = c <=> kmem[<<q, w>>] = c)
    <3>1. Says(joined, c, q, w) => kmem'[<<q, w>>] = c
      BY <1>3, <1>7
    <3>2. ~Says(joined, c, q, w) => (kmem'[<<q, w>>] = c <=> kmem[<<q, w>>] = c)
      <4>1. CASE <<q, w>> = <<p, v>>
        BY <1>3, <1>7, <1>9, <4>1, NasVlanAssumption
      <4>2. CASE <<q, w>> # <<p, v>>
        BY <1>3, <4>2
      <4> QED BY <4>1, <4>2
    <3> QED BY <1>5, <2>2, <3>1, <3>2
  <2>4. \A i \in 1..Len(<<joined>>) : Proper(<<joined>>[i])
    BY <1>5, <2>2 DEF Proper
  <2>5. Reports(<<joined>>)
    BY <1>2, <1>4, <1>6, <2>1, <2>2, <2>3, <2>4 DEF Reports
  <2> QED BY <1>3, <2>5
<1>10. CASE old \notin {b, None} /\ queue' = queue \o <<left, joined>>
  <2>1. old \in Bridges /\ left \in Event /\ left.vid = v /\ left.br = old /\ left.op = "delPort"
    BY <1>1, <1>10 DEF PortEvent, Event, MaybeBridge
  <2>2. v \in Own(old)
    BY <2>1 DEF Logged
  <2> HIDE DEF joined, left
  <2> DEFINE a == <<left, joined>>
  <2>3. /\ a \in Seq(Event)
        /\ \A i \in 1..Len(a) : a[i] \in {left, joined}
        /\ \A c, q, w, x :
             /\ ~(Says(left, c, q, w) /\ Says(joined, c, q, w))
             /\ Says(left, c, q, w) => (left.op = "addPort" <=> x = c)
             /\ Says(joined, c, q, w) => (joined.op = "addPort" <=> x = c)
             => Agrees(a, c, q, w, x)
        /\ \A c, q, w : Silent(a, c, q, w) <=> ~Says(left, c, q, w) /\ ~Says(joined, c, q, w)
        /\ \A f : Has(a, f) <=> f \in {left, joined}
    BY <1>5, <2>1, TwoEvents
  <2> HIDE DEF a
  <2>4. ASSUME NEW c \in Bridges, NEW q \in Ports, NEW w \in MaybeVid
        PROVE  /\ Agrees(a, c, q, w, kmem'[<<q, w>>])
               /\ Silent(a, c, q, w) => (kmem'[<<q, w>>] = c <=> kmem[<<q, w>>] = c)
    <3>1. Says(joined, c, q, w) => kmem'[<<q, w>>] = c /\ ~Says(left, c, q, w)
      BY <1>3, <1>7, <1>10
    <3>2. Says(left, c, q, w) => kmem'[<<q, w>>] # c
      BY <1>3, <1>7, <1>10
    <3>3. ~Says(left, c, q, w) /\ ~Says(joined, c, q, w) =>
            (kmem'[<<q, w>>] = c <=> kmem[<<q, w>>] = c)
      <4>1. CASE <<q, w>> = <<p, v>>
        BY <1>3, <1>7, <4>1
      <4>2. CASE <<q, w>> # <<p, v>>
        BY <1>3, <4>2
      <4> QED BY <4>1, <4>2
    <3>4. Agrees(a, c, q, w, kmem'[<<q, w>>])
      <4>1. PICK x : x = kmem'[<<q, w>>]
        OBVIOUS
      <4>2. /\ ~(Says(left, c, q, w) /\ Says(joined, c, q, w))
            /\ Says(left, c, q, w) => (left.op = "addPort" <=> x = c)
            /\ Says(joined, c, q, w) => (joined.op = "addPort" <=> x = c)
        BY <1>5, <2>1, <3>1, <3>2, <4>1
      <4>3. Agrees(a, c, q, w, x)
        BY <2>3, <4>2
      <4> QED BY <4>1, <4>3
    <3> QED BY <2>3, <3>3, <3>4
  <2>5. \A i \in 1..Len(a) : Proper(a[i])
    BY <1>5, <2>1, <2>2, <2>3 DEF Proper
  <2>6. queue' = queue \o a
    BY <1>10 DEF a
  <2>7. Reports(a)
    BY <1>2, <1>4, <1>6, <2>3, <2>4, <2>5, <2>6 DEF Reports
  <2> QED BY <1>3, <2>7
<1> QED BY <1>2, <1>8, <1>9, <1>10

LEMMA LeaveReports ==
  ASSUME TypeInv, Logged(queue, kbridges, kmem),
         NEW p \in Ports, NEW v \in MaybeVid, KernelLeave(p, v)
  PROVE  /\ \E a : Reports(a)
         /\ kmem'[<<p, v>>] = None
<1> DEFINE old == kmem[<<p, v>>]
           left == PortEvent("delPort", old, p, v)
<1>1. kmem \in [Ports \X MaybeVid -> MaybeBridge] /\ queue \in Seq(Event)
  BY DEF TypeInv, TypeOK
<1>2. /\ kmem' = [kmem EXCEPT ![<<p, v>>] = None] /\ UNCHANGED <<kbridges, used>>
      /\ \/ old = None /\ queue' = queue
         \/ old # None /\ queue' = Append(queue, left)
  BY DEF KernelLeave
<1>3. /\ kmem'[<<p, v>>] = None
      /\ \A q \in Ports, w \in MaybeVid : <<q, w>> # <<p, v>> => kmem'[<<q, w>>] = kmem[<<q, w>>]
  BY <1>1, <1>2
<1>4. None \notin Bridges
  BY NasVlanAssumption
<1>5. \A c \in Bridges, q \in Ports, w \in MaybeVid : kmem'[<<q, w>>] = c => w \in Own(c)
  BY <1>3, <1>4 DEF Logged
<1>6. CASE old = None /\ queue' = queue
  <2>1. queue' = queue \o <<>>
    BY <1>1, <1>6, ConcatEmptySeq
  <2>2. \A c \in Bridges, q \in Ports, w \in MaybeVid : kmem'[<<q, w>>] = kmem[<<q, w>>]
    BY <1>3, <1>6
  <2>3. Reports(<<>>)
    BY <1>2, <1>5, <2>1, <2>2, NoEvents DEF Reports
  <2> QED BY <1>3, <2>3
<1>7. CASE old # None /\ queue' = Append(queue, left)
  <2>1. old \in Bridges /\ left \in Event /\ left.vid = v /\ left.br = old /\ left.op = "delPort"
    BY <1>1, <1>7 DEF PortEvent, Event, MaybeBridge
  <2>2. v \in Own(old)
    BY <2>1 DEF Logged
  <2>3. \A c : left # BridgeEvent("newBridge", c) /\ left # BridgeEvent("delBridge", c)
    BY BridgeEvents
  <2>4. \A c, q, w : Says(left, c, q, w) <=> old = c /\ p = q /\ v = w
    BY BridgeEvents
  <2> HIDE DEF left
  <2>5. queue' = queue \o <<left>>
    BY <1>1, <1>7, <2>1, AppendProperties
  <2>6. /\ <<left>> \in Seq(Event) /\ Len(<<left>>) = 1 /\ <<left>>[1] = left
        /\ \A c, q, w, x : Agrees(<<left>>, c, q, w, x) <=>
                             (Says(left, c, q, w) => (left.op = "addPort" <=> x = c))
        /\ \A c, q, w : Silent(<<left>>, c, q, w) <=> ~Says(left, c, q, w)
        /\ \A d : Has(<<left>>, d) <=> d = left
    BY <2>1, OneEvent
  <2>7. ASSUME NEW c \in Bridges, NEW q \in Ports, NEW w \in MaybeVid
        PROVE  /\ Agrees(<<left>>, c, q, w, kmem'[<<q, w>>])
               /\ Silent(<<left>>, c, q, w) => (kmem'[<<q, w>>] = c <=> kmem[<<q, w>>] = c)
    <3>1. Says(left, c, q, w) => kmem'[<<q, w>>] # c
      BY <1>3, <1>4, <2>4
    <3>2. ~Says(left, c, q, w) => (kmem'[<<q, w>>] = c <=> kmem[<<q, w>>] = c)
      <4>1. CASE <<q, w>> = <<p, v>>
        BY <1>3, <1>4, <2>4, <4>1
      <4>2. CASE <<q, w>> # <<p, v>>
        BY <1>3, <4>2
      <4> QED BY <4>1, <4>2
    <3> QED BY <2>1, <2>6, <3>1, <3>2
  <2>8. \A i \in 1..Len(<<left>>) : Proper(<<left>>[i])
    BY <2>1, <2>2, <2>6 DEF Proper
  <2>9. Reports(<<left>>)
    BY <1>2, <1>5, <2>3, <2>5, <2>6, <2>7, <2>8 DEF Reports
  <2> QED BY <1>3, <2>9
<1> QED BY <1>2, <1>6, <1>7

(* The interfaces that leave, each with its event.                           *)
AllLeave(S, a) ==
  /\ a \in Seq(Event)
  /\ \A i \in 1..Len(a) : \E x \in S : a[i] = PortEvent("delPort", kmem[x], x[1], x[2])
  /\ \A x \in S : \E i \in 1..Len(a) : a[i] = PortEvent("delPort", kmem[x], x[1], x[2])

LEMMA LeavingSays ==
  ASSUME TypeInv, NEW S, S \subseteq Ports \X MaybeVid, \A x \in S : kmem[x] # None,
         NEW order \in SetToSeqs(S), NEW a, a = Leaving(S, order)
  PROVE  AllLeave(S, a)
<1> DEFINE n == Cardinality(S)
<1>1. IsFiniteSet(S) /\ n \in Nat
  BY MembersFinite, FS_Subset, FS_CardinalityType
<1>2. order \in [1..n -> S] /\ \A i, j \in 1..n : i # j => order[i] # order[j]
  BY Zenon DEF SetToSeqs
<1>3. a \in Seq(Sound(used))
  BY LeavingType DEF TypeInv
<1>4. a \in Seq(Event)
  <2>1. Sound(used) \subseteq Event
    BY DEF Sound
  <2> QED BY <1>3, <2>1, SeqMonotonic
<1>5. a = [i \in 1..n |-> PortEvent("delPort", kmem[order[i]], order[i][1], order[i][2])]
  BY DEF Leaving
<1>6. \A x \in S : \E i \in 1..n : order[i] = x
  <2>1. order \in Injection(1..n, S)
    BY <1>2 DEF Injection, IsInjective
  <2>2. IsFiniteSet(1..n) /\ Cardinality(1..n) = n
    BY <1>1, FS_Interval
  <2>3. order \in Surjection(1..n, S)
    BY <1>1, <2>1, <2>2, FS_Injection
  <2> QED BY <2>3 DEF Surjection
<1> HIDE DEF n
<1>7. Len(a) = n
  <2>1. DOMAIN a = 1..n
    BY <1>5
  <2> QED BY <1>1, <1>4, <2>1, LenProperties
<1>8. \A i \in 1..n : /\ order[i] \in S
                     /\ a[i] = PortEvent("delPort", kmem[order[i]], order[i][1], order[i][2])
  BY <1>2, <1>5
<1>9. ASSUME NEW x \in S
      PROVE  \E i \in 1..Len(a) : a[i] = PortEvent("delPort", kmem[x], x[1], x[2])
  <2>1. PICK i \in 1..n : order[i] = x
    BY <1>6
  <2>2. a[i] = PortEvent("delPort", kmem[x], x[1], x[2])
    BY <1>8, <2>1
  <2> QED BY <1>7, <2>2
<1>10. \A i \in 1..Len(a) : \E x \in S : a[i] = PortEvent("delPort", kmem[x], x[1], x[2])
  BY <1>7, <1>8
<1> QED BY <1>4, <1>9, <1>10 DEF AllLeave

LEMMA DeleteReports ==
  ASSUME TypeInv, Logged(queue, kbridges, kmem), NEW b \in Bridges, NEW gone \in BOOLEAN,
         NEW also, also \subseteq Ports \X MaybeVid, KernelDelete(b, gone, also)
  PROVE  /\ \E a : Reports(a)
         /\ kbridges' = IF gone THEN kbridges \ {b} ELSE kbridges
<1> DEFINE mine == {x \in Ports \X MaybeVid : gone /\ kmem[x] = b}
           others == {x \in also \ mine : kmem[x] # None}
           e == BridgeEvent("delBridge", b)
           middle == IF gone THEN <<e>> ELSE <<>>
           ev(x) == PortEvent("delPort", kmem[x], x[1], x[2])
<1>1. PICK o1 \in SetToSeqs(mine), o2 \in SetToSeqs(others) :
        queue' = queue \o Leaving(mine, o1) \o middle \o Leaving(others, o2)
  BY Zenon DEF KernelDelete
<1>2. /\ kbridges' = IF gone THEN kbridges \ {b} ELSE kbridges
      /\ kmem' = [x \in Ports \X MaybeVid |-> IF x \in mine \cup others THEN None ELSE kmem[x]]
      /\ used' = used
  BY DEF KernelDelete
<1>3. kmem \in [Ports \X MaybeVid -> MaybeBridge] /\ queue \in Seq(Event) /\ None \notin Bridges
  BY NasVlanAssumption DEF TypeInv, TypeOK
<1>4. PICK a1, a2 : a1 = Leaving(mine, o1) /\ a2 = Leaving(others, o2)
  OBVIOUS
<1>5. /\ mine \subseteq Ports \X MaybeVid /\ others \subseteq Ports \X MaybeVid
      /\ \A x \in mine \cup others : kmem[x] # None
  BY <1>3
<1>6. /\ a1 \in Seq(Event)
      /\ \A i \in 1..Len(a1) : \E x \in mine : a1[i] = ev(x)
      /\ \A x \in mine : \E i \in 1..Len(a1) : a1[i] = ev(x)
  <2>1. mine \subseteq Ports \X MaybeVid /\ \A x \in mine : kmem[x] # None
    BY <1>5
  <2> HIDE DEF mine, others
  <2>2. o1 \in SetToSeqs(mine) /\ a1 = Leaving(mine, o1)
    BY <1>1, <1>4
  <2>3. AllLeave(mine, a1)
    BY <2>1, <2>2, LeavingSays
  <2> QED BY <2>3 DEF AllLeave
<1>7. /\ a2 \in Seq(Event)
      /\ \A i \in 1..Len(a2) : \E x \in others : a2[i] = ev(x)
      /\ \A x \in others : \E i \in 1..Len(a2) : a2[i] = ev(x)
  <2>1. \A x \in others : kmem[x] # None
    BY <1>5
  <2> HIDE DEF others
  <2>2. AllLeave(others, a2)
    BY <1>4, <1>5, <2>1, LeavingSays
  <2> QED BY <2>2 DEF AllLeave
<1>8. \A x \in mine \cup others : x \in Ports \X MaybeVid /\ kmem[x] \in Bridges
  BY <1>3, <1>5 DEF MaybeBridge
<1>9. middle \in Seq(Event) /\ \A d : Has(middle, d) <=> gone /\ d = e
  <2>1. e \in Event
    BY VidFacts DEF BridgeEvent, Event
  <2> HIDE DEF e
  <2>2. CASE gone
    BY <2>1, <2>2, OneEvent
  <2>3. CASE ~gone
    BY <2>3, NoEvents
  <2> QED BY <2>2, <2>3
<1>10. PICK r : r = a1 \o middle
  OBVIOUS
<1>11. PICK a : a = r \o a2
  OBVIOUS
<1>12. \A x \in Ports \X MaybeVid : kmem'[x] = IF x \in mine \cup others THEN None ELSE kmem[x]
  BY <1>2
<1> HIDE DEF mine, others, middle, e
<1>13. r \in Seq(Event) /\ \A d : Has(r, d) <=> Has(a1, d) \/ (gone /\ d = e)
  BY <1>6, <1>9, <1>10, HasJoin, ConcatProperties
<1>14. a \in Seq(Event) /\ \A d : Has(a, d) <=> Has(a1, d) \/ (gone /\ d = e) \/ Has(a2, d)
  BY <1>7, <1>11, <1>13, HasJoin, ConcatProperties
<1>15. queue' = queue \o a
  <2>1. queue \o a1 \o middle = queue \o r
    BY <1>3, <1>6, <1>9, <1>10, ConcatAssociative
  <2>2. (queue \o r) \o a2 = queue \o a
    BY <1>3, <1>7, <1>11, <1>13, ConcatAssociative
  <2> QED BY <1>1, <1>4, <2>1, <2>2, Zenon
<1>16. \A d : Has(a, d) <=> (gone /\ d = e) \/ \E x \in mine \cup others : d = ev(x)
  <2>1. \A d : Has(a1, d) <=> \E x \in mine : d = ev(x)
    BY <1>6 DEF Has
  <2>2. \A d : Has(a2, d) <=> \E x \in others : d = ev(x)
    BY <1>7 DEF Has
  <2> HIDE DEF ev
  <2> QED BY <1>14, <2>1, <2>2
<1>17. \A i \in 1..Len(a) : Has(a, a[i])
  BY DEF Has
<1>18. \A i \in 1..Len(a) : (gone /\ a[i] = e) \/ \E x \in mine \cup others : a[i] = ev(x)
  BY <1>16, <1>17
<1>19. \A c, p, v : ~Says(e, c, p, v)
  BY BridgeEvents DEF e
<1>20. \A x \in mine \cup others : \A c, p, v :
         Says(ev(x), c, p, v) <=> kmem[x] = c /\ x[1] = p /\ x[2] = v
  BY BridgeEvents
<1>21. \A x \in mine \cup others : /\ ev(x).op = "delPort" /\ ev(x).br = kmem[x]
                                   /\ ev(x).vid = x[2]
  BY DEF PortEvent
<1>22. \A x \in mine \cup others : x = <<x[1], x[2]>> /\ x[1] \in Ports /\ x[2] \in MaybeVid
  BY <1>8
<1>23. \A i \in 1..Len(a) : Proper(a[i])
  <2> SUFFICES ASSUME NEW i \in 1..Len(a) PROVE Proper(a[i])
    OBVIOUS
  <2>1. CASE gone /\ a[i] = e
    BY <2>1 DEF e, BridgeEvent, Own, Proper
  <2>2. CASE \E x \in mine \cup others : a[i] = ev(x)
    <3>1. PICK x \in mine \cup others : a[i] = ev(x)
      BY <2>2
    <3>2. kmem[<<x[1], x[2]>>] = kmem[x] /\ kmem[x] \in Bridges
      BY <1>8, <1>22
    <3>3. x[2] \in Own(kmem[x])
      BY <1>22, <3>2 DEF Logged
    <3>4. a[i].br = kmem[x] /\ a[i].vid = x[2] /\ a[i].op = "delPort"
      BY <1>21, <3>1
    <3> QED BY <3>3, <3>4 DEF Proper
  <2> QED BY <1>18, <2>1, <2>2
<1>24. ASSUME NEW c \in Bridges, NEW p \in Ports, NEW v \in MaybeVid
       PROVE  /\ kmem'[<<p, v>>] = c => v \in Own(c)
              /\ Agrees(a, c, p, v, kmem'[<<p, v>>])
              /\ Silent(a, c, p, v) => (kmem'[<<p, v>>] = c <=> kmem[<<p, v>>] = c)
  <2>1. /\ <<p, v>> \in mine \cup others => kmem'[<<p, v>>] = None
        /\ <<p, v>> \notin mine \cup others => kmem'[<<p, v>>] = kmem[<<p, v>>]
    BY <1>12
  <2>2. kmem'[<<p, v>>] = c => v \in Own(c)
    BY <1>3, <2>1 DEF Logged
  <2>3. ASSUME NEW i \in 1..Len(a), Says(a[i], c, p, v)
        PROVE  a[i].op = "delPort" /\ kmem'[<<p, v>>] # c
    <3>1. PICK x \in mine \cup others : a[i] = ev(x)
      BY <1>18, <1>19, <2>3
    <3>2. Says(ev(x), c, p, v)
      BY <2>3, <3>1
    <3>3. kmem[x] = c /\ x[1] = p /\ x[2] = v
      BY <1>20, <3>2
    <3>4. x = <<p, v>>
      BY <1>22, <3>3
    <3> QED BY <1>3, <1>21, <2>1, <3>1, <3>4
  <2>4. Agrees(a, c, p, v, kmem'[<<p, v>>])
    BY <2>3 DEF Agrees
  <2>5. ASSUME Silent(a, c, p, v), <<p, v>> \in mine \cup others
        PROVE  kmem[<<p, v>>] # c
    <3>1. Has(a, ev(<<p, v>>))
      BY <1>16, <2>5
    <3>2. ~Says(ev(<<p, v>>), c, p, v)
      BY <2>5, <3>1 DEF Has, Silent
    <3> QED BY <1>20, <2>5, <3>2
  <2> QED BY <1>3, <2>1, <2>2, <2>4, <2>5
<1>25. ASSUME NEW c \in Bridges
       PROVE  /\ Has(a, BridgeEvent("delBridge", c)) => c \notin kbridges'
              /\ ~Has(a, BridgeEvent("newBridge", c))
              /\ c \notin kbridges' \ kbridges
              /\ c \in kbridges \ kbridges' => Has(a, BridgeEvent("delBridge", c))
  <2>1. \A x \in mine \cup others : /\ ev(x) # BridgeEvent("newBridge", c)
                                    /\ ev(x) # BridgeEvent("delBridge", c)
    BY BridgeEvents
  <2>2. e # BridgeEvent("newBridge", c) /\ (e = BridgeEvent("delBridge", c) <=> b = c)
    BY BridgeEvents DEF e
  <2> HIDE DEF ev
  <2> QED BY <1>2, <1>16, <2>1, <2>2
<1> HIDE DEF ev
<1>26. Reports(a)
  BY <1>2, <1>14, <1>15, <1>23, <1>24, <1>25 DEF Reports
<1> QED BY <1>2, <1>26

(* The log is as the kernel after each operation, and when an event is taken. *)
LEMMA LoggedGrows ==
  ASSUME TypeInv, Logged(queue, kbridges, kmem), NEW a, Reports(a)
  PROVE  Logged(queue', kbridges', kmem')
<1>1. queue \in Seq(Event) /\ a \in Seq(Event)
  BY DEF TypeInv, TypeOK, Reports
<1>2. PICK q : q = queue
  OBVIOUS
<1>3. PICK t : t = queue'
  OBVIOUS
<1>4. t = q \o a /\ q \in Seq(Event) /\ a \in Seq(Event)
  BY <1>1, <1>2, <1>3 DEF Reports
<1>5. /\ Len(q) \in Nat /\ Len(a) \in Nat
      /\ \A i \in 1..Len(q) : i \in 1..Len(t) /\ t[i] = q[i]
      /\ \A i \in 1..Len(a) : Len(q) + i \in 1..Len(t) /\ t[Len(q) + i] = a[i]
      /\ \A i \in 1..Len(t) : i \in 1..Len(q) \/ \E k \in 1..Len(a) : i = Len(q) + k
  <2>1. Behind(t, q, a)
    BY <1>4, Joined
  <2> QED BY <2>1 DEF Behind
<1>6. ASSUME NEW b \in Bridges, NEW p \in Ports, NEW v \in MaybeVid
      PROVE  kmem'[<<p, v>>] = b => v \in Own(b)
  BY DEF Reports
<1>7. ASSUME NEW b \in Bridges, NEW p \in Ports, NEW v \in MaybeVid
      PROVE  Agrees(t, b, p, v, kmem'[<<p, v>>])
  <2>1. PICK m, n : m = kmem[<<p, v>>] /\ n = kmem'[<<p, v>>]
    OBVIOUS
  <2>2. Agrees(q, b, p, v, m)
    BY <1>2, <2>1 DEF Logged
  <2>3. Agrees(a, b, p, v, n) /\ (Silent(a, b, p, v) => (n = b <=> m = b))
    BY <2>1 DEF Reports
  <2>4. Agrees(t, b, p, v, n)
    BY <1>4, <2>2, <2>3, AgreesJoin
  <2> QED BY <2>1, <2>4
<1>8. \A i \in 1..Len(t) : Proper(t[i])
  <2>1. \A i \in 1..Len(q) : Proper(q[i])
    BY <1>2 DEF Logged
  <2>2. \A i \in 1..Len(a) : Proper(a[i])
    BY DEF Reports
  <2> QED BY <1>5, <2>1, <2>2
<1>9. ASSUME NEW i \in 1..Len(t), NEW b \in Bridges, t[i] = BridgeEvent("delBridge", b)
      PROVE  b \notin kbridges'
  <2>1. CASE i \in 1..Len(q)
    <3>1. Has(queue, BridgeEvent("delBridge", b)) /\ b \notin kbridges
      BY <1>2, <1>5, <1>9, <2>1 DEF Has, Logged, Ends
    <3>2. b \in used
      BY <3>1, NoEventOfNew DEF TypeInv
    <3> QED BY <3>1, <3>2 DEF Reports
  <2>2. ASSUME NEW k \in 1..Len(a), i = Len(q) + k PROVE b \notin kbridges'
    <3>1. Has(a, BridgeEvent("delBridge", b))
      BY <1>5, <1>9, <2>2 DEF Has
    <3> QED BY <3>1 DEF Reports
  <2> QED BY <1>5, <2>1, <2>2
<1>10. ASSUME NEW i \in 1..Len(t), NEW b \in Bridges, t[i] = BridgeEvent("newBridge", b),
              b \notin kbridges'
       PROVE  \E j \in 1..Len(t) : j > i /\ t[j] = BridgeEvent("delBridge", b)
  <2>1. CASE i \in 1..Len(q)
    <3>1. CASE b \in kbridges
      <4>1. Has(a, BridgeEvent("delBridge", b))
        BY <1>10, <3>1 DEF Reports
      <4>2. PICK k \in 1..Len(a) : a[k] = BridgeEvent("delBridge", b)
        BY <4>1 DEF Has
      <4>3. Len(q) + k \in 1..Len(t) /\ t[Len(q) + k] = a[k] /\ Len(q) + k > i
        BY <1>5, <2>1
      <4> QED BY <4>2, <4>3
    <3>2. CASE b \notin kbridges
      <4>1. q[i] = BridgeEvent("newBridge", b)
        BY <1>5, <1>10, <2>1
      <4>2. PICK j \in 1..Len(q) : j > i /\ q[j] = BridgeEvent("delBridge", b)
        BY <1>2, <2>1, <3>2, <4>1 DEF Logged, Ends
      <4> QED BY <1>5, <4>2
    <3> QED BY <3>1, <3>2
  <2>2. ASSUME NEW k \in 1..Len(a), i = Len(q) + k PROVE FALSE
    <3>1. Has(a, BridgeEvent("newBridge", b))
      BY <1>5, <1>10, <2>2 DEF Has
    <3> QED BY <1>10, <3>1 DEF Reports
  <2> QED BY <1>5, <2>1, <2>2
<1>11. Ends(t, kbridges')
  BY <1>9, <1>10 DEF Ends
<1> QED BY <1>3, <1>6, <1>7, <1>8, <1>11 DEF Logged

LEMMA LoggedTaken ==
  ASSUME NEW q \in Seq(Event), q # <<>>, NEW t, t = Tail(q), NEW kb, NEW km, Logged(q, kb, km)
  PROVE  /\ Logged(t, kb, km)
         /\ Proper(Head(q))
         /\ \A b \in Bridges :
              /\ Head(q) = BridgeEvent("delBridge", b) => b \notin kb
              /\ Head(q) = BridgeEvent("newBridge", b) /\ b \notin kb =>
                   Has(t, BridgeEvent("delBridge", b))
<1>1. /\ Len(t) \in Nat /\ Len(q) = Len(t) + 1 /\ Head(q) = q[1] /\ 1 \in 1..Len(q)
      /\ \A i \in 1..Len(t) : i + 1 \in 1..Len(q) /\ t[i] = q[i + 1]
      /\ \A i \in 1..Len(q) : i = 1 \/ (i - 1 \in 1..Len(t) /\ t[i - 1] = q[i])
  BY Dropped
<1>2. \A b \in Bridges, p \in Ports, v \in MaybeVid :
        (km[<<p, v>>] = b => v \in Own(b)) /\ Agrees(t, b, p, v, km[<<p, v>>])
  BY AgreesTaken DEF Logged
<1>3. \A i \in 1..Len(t) : Proper(t[i])
  <2>1. \A i \in 1..Len(q) : Proper(q[i])
    BY DEF Logged
  <2> QED BY <1>1, <2>1
<1>4. Proper(Head(q))
  BY <1>1 DEF Logged
<1>5. ASSUME NEW i \in 1..Len(q), NEW b \in Bridges
      PROVE  /\ q[i] = BridgeEvent("delBridge", b) => b \notin kb
             /\ q[i] = BridgeEvent("newBridge", b) /\ b \notin kb =>
                  \E j \in 1..Len(t) : j > i - 1 /\ t[j] = BridgeEvent("delBridge", b)
  <2>1. q[i] = BridgeEvent("delBridge", b) => b \notin kb
    BY DEF Logged, Ends
  <2>2. ASSUME q[i] = BridgeEvent("newBridge", b), b \notin kb
        PROVE  \E j \in 1..Len(t) : j > i - 1 /\ t[j] = BridgeEvent("delBridge", b)
    <3>1. PICK j \in 1..Len(q) : j > i /\ q[j] = BridgeEvent("delBridge", b)
      BY <2>2 DEF Logged, Ends
    <3>2. j - 1 \in 1..Len(t) /\ t[j - 1] = q[j] /\ j - 1 > i - 1
      BY <1>1, <3>1
    <3> QED BY <3>1, <3>2
  <2> QED BY <2>1, <2>2
<1>6. Ends(t, kb)
  <2> SUFFICES ASSUME NEW i \in 1..Len(t), NEW b \in Bridges
               PROVE  /\ t[i] = BridgeEvent("delBridge", b) => b \notin kb
                      /\ t[i] = BridgeEvent("newBridge", b) /\ b \notin kb =>
                           \E j \in 1..Len(t) : j > i /\ t[j] = BridgeEvent("delBridge", b)
    BY DEF Ends
  <2>1. i + 1 \in 1..Len(q) /\ t[i] = q[i + 1] /\ (i + 1) - 1 = i
    BY <1>1
  <2> QED BY <1>5, <2>1
<1>7. \A b \in Bridges :
        /\ Head(q) = BridgeEvent("delBridge", b) => b \notin kb
        /\ Head(q) = BridgeEvent("newBridge", b) /\ b \notin kb =>
             Has(t, BridgeEvent("delBridge", b))
  BY <1>1, <1>5 DEF Has
<1> QED BY <1>2, <1>3, <1>4, <1>6, <1>7 DEF Logged

(* A report leaves every difference with what will mend it.                  *)
LEMMA ReportMends ==
  ASSUME TypeInv, byCps \subseteq used, NEW a, Reports(a), NEW s, NEW b \in Bridges,
         MendsOf(b, s, queue, kbridges, kmem, used, b \in byCps, alive)
  PROVE  MendsOf(b, s, queue', kbridges', kmem', used', b \in byCps, alive)
<1>1. queue \in Seq(Event) /\ a \in Seq(Event) /\ queue' = queue \o a
  BY DEF TypeInv, TypeOK, Reports
<1>2. PICK q : q = queue
  OBVIOUS
<1>3. PICK t : t = queue'
  OBVIOUS
<1>4. /\ \A e : Has(t, e) <=> Has(q, e) \/ Has(a, e)
      /\ \A p, v : Silent(t, b, p, v) => Silent(q, b, p, v) /\ Silent(a, b, p, v)
  BY <1>1, <1>2, <1>3, HasJoin
<1>5. /\ b \in kbridges' \ kbridges => b \notin used /\ Has(a, BridgeEvent("newBridge", b))
      /\ b \in kbridges \ kbridges' => Has(a, BridgeEvent("delBridge", b))
      /\ used \subseteq used'
  BY DEF Reports
<1>6. /\ s.vid[b] \in Own(b)
      /\ b \notin used' => Fresh(s, b)
      /\ b \in byCps /\ b \in kbridges' => Programmed(s, b)
  BY <1>5 DEF MendsOf
<1>7. /\ b \in s.known /\ b \notin kbridges' => Has(t, BridgeEvent("delBridge", b))
      /\ b \in kbridges' /\ b \notin s.known => Has(t, BridgeEvent("newBridge", b))
  BY <1>2, <1>4, <1>5 DEF MendsOf
<1>8. ASSUME alive, b \in kbridges', NEW p \in Ports, NEW v \in Own(b), Silent(t, b, p, v)
      PROVE  Caught(s, b, p, v, kmem'[<<p, v>>] = b, b \in byCps)
  <2>1. v \in MaybeVid
    BY <1>8, NasVlanAssumption DEF Own, MaybeVid
  <2>2. Silent(q, b, p, v) /\ Silent(a, b, p, v)
    BY <1>4, <1>8
  <2>3. kmem'[<<p, v>>] = b <=> kmem[<<p, v>>] = b
    BY <2>1, <2>2 DEF Reports
  <2>4. CASE b \in kbridges
    <3>1. Caught(s, b, p, v, kmem[<<p, v>>] = b, b \in byCps)
      BY <1>2, <1>8, <2>2, <2>4 DEF MendsOf
    <3> QED BY <2>3, <3>1 DEF Caught
  <2>5. CASE b \notin kbridges
    <3>1. b \notin used /\ b \notin byCps
      BY <1>5, <1>8, <2>5
    <3>2. kmem[<<p, v>>] \in used \cup {None} /\ b # None
      BY <2>1, NasVlanAssumption DEF TypeInv, KernelInv
    <3> QED BY <2>3, <3>1, <3>2 DEF Caught
  <2> QED BY <2>4, <2>5
<1> QED BY <1>3, <1>6, <1>7, <1>8 DEF MendsOf

(* Taking an event that is not about b.                                      *)
LEMMA TakenMends ==
  ASSUME NEW q \in Seq(Event), q # <<>>, NEW t, t = Tail(q), NEW b \in Bridges, Head(q).br # b,
         NEW s, NEW kb, NEW km, NEW us, NEW made, NEW live,
         MendsOf(b, s, q, kb, km, us, made, live)
  PROVE  MendsOf(b, s, t, kb, km, us, made, live)
<1>1. Head(q) # BridgeEvent("newBridge", b) /\ Head(q) # BridgeEvent("delBridge", b)
  BY DEF BridgeEvent
<1>2. \A p, v : ~Says(Head(q), b, p, v)
  BY DEF Says
<1>3. /\ Has(q, BridgeEvent("newBridge", b)) => Has(t, BridgeEvent("newBridge", b))
      /\ Has(q, BridgeEvent("delBridge", b)) => Has(t, BridgeEvent("delBridge", b))
  BY <1>1, TakenFacts
<1>4. \A p, v : Silent(t, b, p, v) => Silent(q, b, p, v)
  BY <1>2, TakenFacts
<1> QED BY <1>3, <1>4 DEF MendsOf

-----------------------------------------------------------------------------
(* The functions on the table: each changes what belongs to one bridge.      *)

(* What an operation on bridge c leaves of the others.                       *)
Apart(s, t, c) ==
  /\ \A b \in Bridges \ {c} :
       /\ b \in t.known <=> b \in s.known
       /\ t.vid[b] = s.vid[b]
       /\ \A m \in Modes : /\ t.list[<<b, m>>] = s.list[<<b, m>>]
                           /\ t.seen[<<b, m>>] = s.seen[<<b, m>>]
  /\ \A v \in Vids \ VidsOf[c] :
       /\ v \in t.npuVlans <=> v \in s.npuVlans
       /\ \A m \in Modes : t.npu[<<v, m>>] = s.npu[<<v, m>>]

LEMMA OwnFacts ==
  /\ \A b \in Bridges : VidsOf[b] \subseteq Vids /\ 0 \notin VidsOf[b] /\ 0 \in Own(b)
                        /\ Own(b) \subseteq MaybeVid
  /\ OwnVid => \A b, c \in Bridges : b # c => VidsOf[b] \subseteq Vids \ VidsOf[c]
BY NasVlanAssumption DEF Own, OwnVid, MaybeVid

LEMMA ApartMends ==
  ASSUME OwnVid, NEW s, NEW t, NEW c \in Bridges, Apart(s, t, c), NEW b \in Bridges \ {c},
         NEW q, NEW kb, NEW km, NEW us, NEW made, NEW live,
         MendsOf(b, s, q, kb, km, us, made, live)
  PROVE  MendsOf(b, t, q, kb, km, us, made, live)
<1>1. VidsOf[b] \subseteq Vids \ VidsOf[c]
  BY OwnFacts
<1>2. /\ b \in t.known <=> b \in s.known
      /\ t.vid[b] = s.vid[b]
      /\ \A m \in Modes : /\ t.list[<<b, m>>] = s.list[<<b, m>>]
                          /\ t.seen[<<b, m>>] = s.seen[<<b, m>>]
      /\ \A v \in VidsOf[b] : /\ v \in t.npuVlans <=> v \in s.npuVlans
                              /\ \A m \in Modes : t.npu[<<v, m>>] = s.npu[<<v, m>>]
  BY <1>1 DEF Apart
<1>3. Fresh(s, b) => Fresh(t, b)
  BY <1>2 DEF Fresh
<1>4. Programmed(s, b) => Programmed(t, b)
  BY <1>2 DEF Programmed
<1>5. \A p, v, x : Caught(s, b, p, v, x, made) => Caught(t, b, p, v, x, made)
  BY <1>2, ModeFacts DEF Caught
<1> QED BY <1>2, <1>3, <1>4, <1>5 DEF MendsOf

(* The fields the properties are about.                                      *)
Fields(t, known, vid, list, seen, vlans, npu) ==
  /\ t.known = known /\ t.vid = vid /\ t.list = list /\ t.seen = seen
  /\ t.npuVlans = vlans /\ t.npu = npu

LEMMA FieldsOf ==
  ASSUME NEW s \in VlanState, NEW b, NEW m, NEW p, NEW v, NEW S
  PROVE  /\ Fields(NpuAdd(s, v, m, S), s.known, s.vid, s.list, s.seen, s.npuVlans,
                   [s.npu EXCEPT ![<<v, m>>] = @ \cup S])
         /\ Fields(NpuDel(s, v, m, p), s.known, s.vid, s.list, s.seen, s.npuVlans,
                   [s.npu EXCEPT ![<<v, m>>] = @ \ {p}])
         /\ Fields(Insert(s, b, m, p), s.known, s.vid,
                   [s.list EXCEPT ![<<b, m>>] = @ \cup {p}], s.seen, s.npuVlans, s.npu)
         /\ Fields(Show(s, b, m, p), s.known, s.vid, s.list,
                   [s.seen EXCEPT ![<<b, m>>] = @ \cup {p}], s.npuVlans, s.npu)
         /\ Fields(Hide(s, b, m, p), s.known, s.vid, s.list,
                   [s.seen EXCEPT ![<<b, m>>] = @ \ {p}], s.npuVlans, s.npu)
<1>1. Fields(NpuAdd(s, v, m, S), s.known, s.vid, s.list, s.seen, s.npuVlans,
             [s.npu EXCEPT ![<<v, m>>] = @ \cup S])
  BY DEF NpuAdd, Fields, VlanState
<1>2. Fields(NpuDel(s, v, m, p), s.known, s.vid, s.list, s.seen, s.npuVlans,
             [s.npu EXCEPT ![<<v, m>>] = @ \ {p}])
  BY DEF NpuDel, Fields, VlanState
<1>3. Fields(Insert(s, b, m, p), s.known, s.vid,
             [s.list EXCEPT ![<<b, m>>] = @ \cup {p}], s.seen, s.npuVlans, s.npu)
  BY DEF Insert, Fields, VlanState
<1>4. Fields(Show(s, b, m, p), s.known, s.vid, s.list,
             [s.seen EXCEPT ![<<b, m>>] = @ \cup {p}], s.npuVlans, s.npu)
  BY DEF Show, Fields, VlanState
<1>5. Fields(Hide(s, b, m, p), s.known, s.vid, s.list,
             [s.seen EXCEPT ![<<b, m>>] = @ \ {p}], s.npuVlans, s.npu)
  BY DEF Hide, Fields, VlanState
<1> QED BY <1>1, <1>2, <1>3, <1>4, <1>5

(* One list of bridge c, its VLAN in the NPU and what subscribers were told  *)
(* of it are changed, the bridges are not.                                   *)
Touches(s, t, c, m, list, npu, seen) ==
  Fields(t, s.known, s.vid, [s.list EXCEPT ![<<c, m>>] = list],
         [s.seen EXCEPT ![<<c, m>>] = seen], s.npuVlans,
         [s.npu EXCEPT ![<<s.vid[c], m>>] = npu])

(* What the table has of c's list in mode m afterwards.                      *)
Touched(s, t, c, m, list) ==
  /\ Apart(s, t, c)
  /\ t.known = s.known /\ t.vid = s.vid
  /\ t.list[<<c, m>>] = list
  /\ \A n \in Modes \ {m} : t.list[<<c, n>>] = s.list[<<c, n>>]

(* c stays programmed when the NPU and the subscribers follow the list.      *)
Serves(s, t, c, m, list, npu, seen) ==
  /\ Touched(s, t, c, m, list)
  /\ Programmed(s, c) /\ seen = list /\ list \subseteq npu
     /\ (s.vid[c] # DefaultVlan => npu = list) => Programmed(t, c)

LEMMA TouchesFacts ==
  ASSUME NEW s \in VlanState, NEW c \in Bridges, NEW m \in Modes, s.vid[c] \in Own(c),
         NEW list, NEW npu, NEW seen, NEW t, Touches(s, t, c, m, list, npu, seen)
  PROVE  Serves(s, t, c, m, list, npu, seen)
<1>1. /\ t.known = s.known /\ t.vid = s.vid /\ t.npuVlans = s.npuVlans
      /\ t.list = [s.list EXCEPT ![<<c, m>>] = list]
      /\ t.seen = [s.seen EXCEPT ![<<c, m>>] = seen]
      /\ t.npu = [s.npu EXCEPT ![<<s.vid[c], m>>] = npu]
  BY DEF Touches, Fields
<1>2. /\ DOMAIN s.list = Bridges \X Modes /\ DOMAIN s.seen = Bridges \X Modes
      /\ DOMAIN s.npu = Vids \X Modes
      /\ s.list = [x \in Bridges \X Modes |-> s.list[x]]
      /\ s.seen = [x \in Bridges \X Modes |-> s.seen[x]]
      /\ s.npu = [x \in Vids \X Modes |-> s.npu[x]]
  BY DEF VlanState
<1>3. \A b \in Bridges, n \in Modes :
        /\ t.list[<<b, n>>] = IF b = c /\ n = m THEN list ELSE s.list[<<b, n>>]
        /\ t.seen[<<b, n>>] = IF b = c /\ n = m THEN seen ELSE s.seen[<<b, n>>]
  BY <1>1, <1>2
<1>4. \A v \in Vids, n \in Modes :
        t.npu[<<v, n>>] = IF v = s.vid[c] /\ n = m THEN npu ELSE s.npu[<<v, n>>]
  BY <1>1, <1>2
<1>5. \A v \in Vids \ VidsOf[c] : v # s.vid[c]
  BY NasVlanAssumption DEF Own
<1>6. Apart(s, t, c)
  BY <1>1, <1>3, <1>4, <1>5 DEF Apart
<1>7. ASSUME Programmed(s, c), seen = list, list \subseteq npu, s.vid[c] # DefaultVlan => npu = list
      PROVE  Programmed(t, c)
  <2>1. s.vid[c] \in Vids
    BY <1>7, OwnFacts DEF Programmed
  <2>2. \A n \in Modes :
          /\ t.list[<<c, n>>] = IF n = m THEN list ELSE s.list[<<c, n>>]
          /\ t.seen[<<c, n>>] = IF n = m THEN seen ELSE s.seen[<<c, n>>]
          /\ t.npu[<<s.vid[c], n>>] = IF n = m THEN npu ELSE s.npu[<<s.vid[c], n>>]
    BY <1>3, <1>4, <2>1
  <2> QED BY <1>1, <1>7, <2>2 DEF Programmed
<1>8. Touched(s, t, c, m, list)
  BY <1>1, <1>3, <1>6 DEF Touched
<1> QED BY <1>7, <1>8 DEF Serves

LEMMA NoChange ==
  ASSUME NEW s \in VlanState
  PROVE  /\ \A x : [s.list EXCEPT ![x] = s.list[x]] = s.list
         /\ \A x : [s.seen EXCEPT ![x] = s.seen[x]] = s.seen
         /\ \A x : [s.npu EXCEPT ![x] = s.npu[x]] = s.npu
<1>1. \A x : [s.list EXCEPT ![x] = s.list[x]] = s.list
  BY DEF VlanState
<1>2. \A x : [s.seen EXCEPT ![x] = s.seen[x]] = s.seen
  BY DEF VlanState
<1>3. \A x : [s.npu EXCEPT ![x] = s.npu[x]] = s.npu
  BY DEF VlanState
<1> QED BY <1>1, <1>2, <1>3

(* A member is added to a bridge with the NPU's consent, or only listed.     *)
AddsPort(s, t, c, m, p) ==
  /\ Touched(s, t, c, m, s.list[<<c, m>>] \cup {p})
  /\ Programmed(s, c) => Programmed(t, c)

LEMMA AddedAsTold ==
  ASSUME NEW s \in VlanState, NEW b \in Bridges, NEW m \in Modes, NEW p \in Ports,
         s.vid[b] \in Own(b), NEW t, NEW npu, NEW seen,
         Touches(s, t, b, m, s.list[<<b, m>>] \cup {p}, npu, seen),
         Programmed(s, b) => /\ npu = s.npu[<<s.vid[b], m>>] \cup {p}
                             /\ seen = s.seen[<<b, m>>] \cup {p}
  PROVE  AddsPort(s, t, b, m, p)
<1> DEFINE list == s.list[<<b, m>>] \cup {p}
<1> HIDE DEF list
<1>1. Serves(s, t, b, m, list, npu, seen)
  BY TouchesFacts DEF list
<1> USE DEF list
<1>2. Programmed(s, b) => /\ seen = list /\ list \subseteq npu
                          /\ s.vid[b] # DefaultVlan => npu = list
  BY DEF Programmed
<1> QED BY <1>1, <1>2 DEF AddsPort, Serves

(* nas_cps_add_port_to_vlan                                                  *)
LEMMA AddedPort ==
  ASSUME NEW s \in VlanState, NEW b \in s.known, NEW m \in Modes, NEW p \in Ports,
         s.vid[b] \in Own(b), NEW t, t = Show(Added(s, b, m, p, "none"), b, m, p)
  PROVE  AddsPort(s, t, b, m, p)
<1> DEFINE i == Listed(s, b, m, p)
           v == s.vid[b]
           u == Added(s, b, m, p, "none")
           list == [s.list EXCEPT ![<<b, m>>] = s.list[<<b, m>>] \cup {p}]
           seen == [s.seen EXCEPT ![<<b, m>>] = s.seen[<<b, m>>] \cup {p}]
           npu == [s.npu EXCEPT ![<<v, m>>] = s.npu[<<v, m>>] \cup {p}]
           ok == v \in s.npuVlans \cap Vids
<1>1. b \in Bridges
  BY DEF VlanState
<1>2. i \in VlanState /\ Fields(i, s.known, s.vid, list, s.seen, s.npuVlans, s.npu)
  <2> DEFINE j == Insert(s, b, m, p)
  <2>1. i \in VlanState
    BY ListedFacts
  <2>2. Fields(j, s.known, s.vid, list, s.seen, s.npuVlans, s.npu)
    BY FieldsOf
  <2>3. j \in VlanState
    BY <1>1, InsertFacts
  <2>4. i = j \/ i = [j EXCEPT !.pvid[p] = v]
    BY Zenon DEF Listed
  <2> HIDE DEF i, j
  <2>5. Fields(i, s.known, s.vid, list, s.seen, s.npuVlans, s.npu)
    BY <2>2, <2>3, <2>4 DEF Fields, VlanState
  <2> QED BY <2>1, <2>5
<1>3. u = IF ok THEN NpuAdd(i, v, m, {p}) ELSE i
  <2>1. i.npuVlans = s.npuVlans
    BY <1>2 DEF Fields
  <2> HIDE DEF i
  <2> QED BY <2>1 DEF Added, NpuAddOk, i
<1>4. u \in VlanState
  BY AddedFacts
<1>5. Fields(t, u.known, u.vid, u.list, [u.seen EXCEPT ![<<b, m>>] = @ \cup {p}], u.npuVlans, u.npu)
  <2> HIDE DEF u
  <2>1. t = Show(u, b, m, p)
    BY DEF u
  <2> QED BY <1>4, <2>1, FieldsOf
<1> HIDE DEF i, u
<1>6. CASE ok
  <2>1. Fields(u, i.known, i.vid, i.list, i.seen, i.npuVlans, [i.npu EXCEPT ![<<v, m>>] = @ \cup {p}])
    BY <1>2, <1>3, <1>6, FieldsOf
  <2>2. Touches(s, t, b, m, s.list[<<b, m>>] \cup {p}, s.npu[<<v, m>>] \cup {p},
                s.seen[<<b, m>>] \cup {p})
    BY <1>2, <1>5, <2>1 DEF Touches, Fields
  <2> QED BY <1>1, <2>2, AddedAsTold
<1>7. CASE ~ok
  <2>1. Touches(s, t, b, m, s.list[<<b, m>>] \cup {p}, s.npu[<<v, m>>], s.seen[<<b, m>>] \cup {p})
    BY <1>2, <1>3, <1>5, <1>7, NoChange DEF Touches, Fields
  <2>2. ~Programmed(s, b)
    BY <1>1, <1>7, OwnFacts DEF Programmed
  <2> QED BY <1>1, <2>1, <2>2, AddedAsTold
<1> QED BY <1>6, <1>7

(* The same, where the bridge may learn its VLAN id.                         *)
TakesPort(s, t, b, m, p) ==
  /\ Apart(s, t, b) /\ t.known = s.known /\ t.vid[b] \in Own(b)
  /\ t.list[<<b, m>>] = s.list[<<b, m>>] \cup {p}
  /\ \A n \in Modes \ {m} : t.list[<<b, n>>] = s.list[<<b, n>>]
  /\ Programmed(s, b) => Programmed(t, b)

(* nas_process_add_vlan_mem_from_os of a bridge in the table.                *)
LEMMA OnAddPortAdds ==
  ASSUME OwnVid, NEW s \in VlanState, \A o \in Bridges : s.vid[o] \in Own(o),
         NEW b \in s.known, NEW p \in Ports, NEW v \in Own(b),
         NEW t, t = OnAddPort(s, b, p, v, "none"), NEW m, m = ModeOf(v)
  PROVE  TakesPort(s, t, b, m, p)
<1> DEFINE w == s.vid[b]
           i == Insert(s, b, m, p)
           r == MemberAdd(s, b, p, v, "none")
           list == [s.list EXCEPT ![<<b, m>>] = s.list[<<b, m>>] \cup {p}]
<1>1. b \in Bridges /\ m \in Modes /\ w \in Own(b) /\ v \in MaybeVid
  BY ModeFacts, OwnFacts DEF VlanState
<1>2. ~Mismatch(s, b, v)
  <2> SUFFICES ASSUME v # 0, w # 0 PROVE v = w /\ \A o \in s.known \ {b} : s.vid[o] # v
    BY DEF Mismatch
  <2>1. v \in VidsOf[b] /\ w \in VidsOf[b]
    BY <1>1 DEF Own
  <2>2. v = w
    BY <1>1, <2>1 DEF OwnVid
  <2>3. ASSUME NEW o \in s.known \ {b} PROVE s.vid[o] # v
    <3>1. o \in Bridges /\ s.vid[o] \in Own(o) /\ o # b
      BY <2>3 DEF VlanState
    <3>2. VidsOf[o] \cap VidsOf[b] = {}
      BY <1>1, <3>1 DEF OwnVid
    <3> QED BY <2>1, <3>1, <3>2 DEF Own
  <2> QED BY <2>2, <2>3
<1>3. t = IF MemberAddOk(s, b, p, v, "none") THEN Show(r, b, m, p) ELSE r
  BY <1>2 DEF OnAddPort
<1>4. r \in VlanState
  BY <1>1, MemberAddFacts
<1>5. i \in VlanState /\ Fields(i, s.known, s.vid, list, s.seen, s.npuVlans, s.npu)
  BY <1>1, InsertFacts, FieldsOf
<1>6. Fields(Show(r, b, m, p), r.known, r.vid, r.list, [r.seen EXCEPT ![<<b, m>>] = @ \cup {p}],
             r.npuVlans, r.npu)
  <2> HIDE DEF r
  <2> QED BY <1>4, FieldsOf
<1>7. \/ p \in s.list[<<b, m>>] /\ r = s /\ t = Show(r, b, m, p)
      \/ w \in s.npuVlans \cap Vids /\ r = NpuAdd(i, w, m, {p}) /\ t = Show(r, b, m, p)
      \/ w \notin s.npuVlans \cap Vids /\ r = i /\ t \in {r, Show(r, b, m, p)}
      \/ w = 0 /\ v # 0 /\ r = FirstTagged(i, b, v, p, "none") /\ t \in {r, Show(r, b, m, p)}
  <2>1. t \in {r, Show(r, b, m, p)}
    BY <1>3
  <2>2. NpuAddOk(s, w, "none") <=> w \in s.npuVlans \cap Vids
    BY DEF NpuAddOk
  <2> DEFINE z == Show(r, b, m, p)
  <2> HIDE DEF z
  <2>3. CASE p \in s.list[<<b, m>>]
    BY <1>3, <2>3 DEF MemberAdd, MemberAddOk, z
  <2>4. CASE p \notin s.list[<<b, m>>] /\ w = 0 /\ v # 0
    BY <2>1, <2>4 DEF MemberAdd
  <2>5. CASE p \notin s.list[<<b, m>>] /\ w = 0 /\ v = 0
    BY <2>1, <2>5, VidFacts DEF MemberAdd
  <2>6. CASE p \notin s.list[<<b, m>>] /\ w # 0 /\ NpuAddOk(s, w, "none")
    BY <1>3, <2>2, <2>6 DEF MemberAdd, MemberAddOk, z
  <2>7. CASE p \notin s.list[<<b, m>>] /\ w # 0 /\ ~NpuAddOk(s, w, "none")
    BY <2>1, <2>2, <2>7 DEF MemberAdd
  <2> QED BY <2>3, <2>4, <2>5, <2>6, <2>7
<1> HIDE DEF r, i
<1>8. AddsPort(s, t, b, m, p) => TakesPort(s, t, b, m, p)
  BY <1>1 DEF AddsPort, Touched, TakesPort
<1>9. CASE p \in s.list[<<b, m>>] /\ r = s /\ t = Show(r, b, m, p)
  <2>1. s.list[<<b, m>>] \cup {p} = s.list[<<b, m>>]
    BY <1>9
  <2>2. Touches(s, t, b, m, s.list[<<b, m>>] \cup {p}, s.npu[<<w, m>>], s.seen[<<b, m>>] \cup {p})
    <3>1. /\ t.known = s.known /\ t.vid = s.vid /\ t.list = s.list
          /\ t.seen = [s.seen EXCEPT ![<<b, m>>] = s.seen[<<b, m>>] \cup {p}]
          /\ t.npuVlans = s.npuVlans /\ t.npu = s.npu
      BY <1>6, <1>9 DEF Fields
    <3>2. /\ [s.list EXCEPT ![<<b, m>>] = s.list[<<b, m>>] \cup {p}] = s.list
          /\ [s.npu EXCEPT ![<<w, m>>] = s.npu[<<w, m>>]] = s.npu
      BY <2>1, NoChange
    <3> QED BY <3>1, <3>2 DEF Touches, Fields
  <2>3. Programmed(s, b) => s.npu[<<w, m>>] = s.npu[<<w, m>>] \cup {p}
    BY <1>1, <1>9 DEF Programmed
  <2> QED BY <1>1, <1>8, <2>2, <2>3, AddedAsTold
<1>10. CASE w \in s.npuVlans \cap Vids /\ r = NpuAdd(i, w, m, {p}) /\ t = Show(r, b, m, p)
  <2>1. Fields(r, i.known, i.vid, i.list, i.seen, i.npuVlans, [i.npu EXCEPT ![<<w, m>>] = @ \cup {p}])
    BY <1>5, <1>10, FieldsOf
  <2>2. Touches(s, t, b, m, s.list[<<b, m>>] \cup {p}, s.npu[<<w, m>>] \cup {p},
                s.seen[<<b, m>>] \cup {p})
    <3>1. /\ t.known = r.known /\ t.vid = r.vid /\ t.list = r.list
          /\ t.seen = [r.seen EXCEPT ![<<b, m>>] = r.seen[<<b, m>>] \cup {p}]
          /\ t.npuVlans = r.npuVlans /\ t.npu = r.npu
      BY <1>6, <1>10 DEF Fields
    <3>2. /\ r.known = i.known /\ r.vid = i.vid /\ r.list = i.list /\ r.seen = i.seen
          /\ r.npu = [i.npu EXCEPT ![<<w, m>>] = i.npu[<<w, m>>] \cup {p}]
          /\ r.npuVlans = i.npuVlans
      BY <2>1 DEF Fields
    <3>3. /\ i.known = s.known /\ i.vid = s.vid /\ i.list = list /\ i.seen = s.seen
          /\ i.npuVlans = s.npuVlans /\ i.npu = s.npu
      BY <1>5 DEF Fields
    <3> QED BY <3>1, <3>2, <3>3 DEF Touches, Fields
  <2> QED BY <1>1, <1>8, <2>2, AddedAsTold
<1>11. CASE w \notin s.npuVlans \cap Vids /\ r = i /\ t \in {r, Show(r, b, m, p)}
  <2>1. ~Programmed(s, b)
    BY <1>1, <1>11, OwnFacts DEF Programmed
  <2>2. \E seen : Touches(s, t, b, m, s.list[<<b, m>>] \cup {p}, s.npu[<<w, m>>], seen)
    <3>1. CASE t = r
      <4>1. Touches(s, t, b, m, s.list[<<b, m>>] \cup {p}, s.npu[<<w, m>>], s.seen[<<b, m>>])
        BY <1>5, <1>11, <3>1, NoChange DEF Touches, Fields
      <4> QED BY <4>1
    <3>2. CASE t = Show(r, b, m, p)
      <4>1. Touches(s, t, b, m, s.list[<<b, m>>] \cup {p}, s.npu[<<w, m>>],
                    s.seen[<<b, m>>] \cup {p})
        BY <1>5, <1>6, <1>11, <3>2, NoChange DEF Touches, Fields
      <4> QED BY <4>1
    <3> QED BY <1>11, <3>1, <3>2
  <2> QED BY <1>1, <1>8, <2>1, <2>2, AddedAsTold
<1>12. CASE w = 0 /\ v # 0 /\ r = FirstTagged(i, b, v, p, "none") /\ t \in {r, Show(r, b, m, p)}
  <2>1. v \in VidsOf[b] /\ v \in Vids /\ "tagged" \in Modes /\ "untagged" \in Modes
    BY <1>1, <1>12, OwnFacts DEF Own, Modes
  <2>2. ~Programmed(s, b)
    BY <1>1, <1>12, OwnFacts DEF Programmed
  <2>3. /\ r.known = s.known /\ r.list = list /\ r.seen = s.seen
        /\ r.vid = [s.vid EXCEPT ![b] = v]
        /\ r.npuVlans \in {s.npuVlans, s.npuVlans \cup {v}}
        /\ \A x \in Vids \ {v}, n \in Modes : r.npu[<<x, n>>] = s.npu[<<x, n>>]
    <3> DEFINE j == [i EXCEPT !.vid[b] = v]
               k == [i EXCEPT !.vid[b] = v, !.npuVlans = @ \cup {v},
                              !.registered = @ \cup {b}, !.npu[<<v, "tagged">>] = @ \cup {p}]
    <3>1. r \in {j, NpuAdd(k, v, "untagged", i.list[<<b, "untagged">>])}
      BY <1>12 DEF FirstTagged
    <3>2. /\ Fields(j, i.known, [i.vid EXCEPT ![b] = v], i.list, i.seen, i.npuVlans, i.npu)
          /\ Fields(k, i.known, [i.vid EXCEPT ![b] = v], i.list, i.seen, i.npuVlans \cup {v},
                    [i.npu EXCEPT ![<<v, "tagged">>] = @ \cup {p}])
      BY <1>5 DEF Fields, VlanState
    <3>3. CASE r = j
      BY <1>5, <3>2, <3>3 DEF Fields
    <3>4. CASE r = NpuAdd(k, v, "untagged", i.list[<<b, "untagged">>])
      <4> DEFINE S == i.list[<<b, "untagged">>]
                 pvid == [q \in Ports |->
                            IF "untagged" = "untagged" /\ q \in S THEN v ELSE k.pvid[q]]
      <4>1. r = [k EXCEPT !.npu = [k.npu EXCEPT ![<<v, "untagged">>] = @ \cup S], !.pvid = pvid]
        BY <1>5, <3>4 DEF NpuAdd, VlanState
      <4> HIDE DEF S, pvid
      <4>2. Fields(r, k.known, k.vid, k.list, k.seen, k.npuVlans,
                   [k.npu EXCEPT ![<<v, "untagged">>] = @ \cup S])
        BY <1>5, <4>1 DEF Fields, VlanState
      <4> HIDE DEF k, j
      <4>3. r.npu = [[i.npu EXCEPT ![<<v, "tagged">>] = @ \cup {p}]
                       EXCEPT ![<<v, "untagged">>] = @ \cup S]
        BY <3>2, <4>2 DEF Fields
      <4>4. \A x \in Vids \ {v}, n \in Modes : r.npu[<<x, n>>] = i.npu[<<x, n>>]
        BY <1>5, <4>3 DEF VlanState
      <4>5. /\ r.known = k.known /\ r.vid = k.vid /\ r.list = k.list /\ r.seen = k.seen
            /\ r.npuVlans = k.npuVlans
        BY <4>2 DEF Fields
      <4>6. /\ k.known = i.known /\ k.vid = [i.vid EXCEPT ![b] = v] /\ k.list = i.list
            /\ k.seen = i.seen /\ k.npuVlans = i.npuVlans \cup {v}
        BY <3>2 DEF Fields
      <4>7. /\ i.known = s.known /\ i.vid = s.vid /\ i.list = list /\ i.seen = s.seen
            /\ i.npuVlans = s.npuVlans /\ i.npu = s.npu
        BY <1>5 DEF Fields
      <4> HIDE DEF list
      <4> QED BY <4>4, <4>5, <4>6, <4>7
    <3> QED BY <3>1, <3>3, <3>4
  <2>4. /\ t.known = s.known /\ t.list = list /\ t.vid = [s.vid EXCEPT ![b] = v]
        /\ t.npuVlans = r.npuVlans /\ t.npu = r.npu
        /\ t.seen = s.seen \/ t.seen = [s.seen EXCEPT ![<<b, m>>] = @ \cup {p}]
    BY <1>6, <1>12, <2>3 DEF Fields
  <2>5. \A c \in Bridges, n \in Modes :
          /\ t.list[<<c, n>>] = IF c = b /\ n = m THEN s.list[<<b, m>>] \cup {p} ELSE s.list[<<c, n>>]
          /\ c # b => t.seen[<<c, n>>] = s.seen[<<c, n>>]
          /\ t.vid[c] = IF c = b THEN v ELSE s.vid[c]
    BY <2>4 DEF VlanState
  <2>6. Apart(s, t, b)
    <3>1. ASSUME NEW c \in Bridges \ {b}
          PROVE  /\ c \in t.known <=> c \in s.known
                 /\ t.vid[c] = s.vid[c]
                 /\ \A n \in Modes : /\ t.list[<<c, n>>] = s.list[<<c, n>>]
                                     /\ t.seen[<<c, n>>] = s.seen[<<c, n>>]
      <4>1. t.known = s.known
        BY <2>4
      <4>2. c \in Bridges /\ c # b
        OBVIOUS
      <4>3. t.vid[c] = s.vid[c]
        BY <2>1, <2>5, <4>2
      <4>4. ASSUME NEW n \in Modes
            PROVE  t.list[<<c, n>>] = s.list[<<c, n>>] /\ t.seen[<<c, n>>] = s.seen[<<c, n>>]
        BY <2>5, <4>2
      <4> HIDE DEF list
      <4> QED BY <4>1, <4>3, <4>4
    <3>2. ASSUME NEW x \in Vids \ VidsOf[b]
          PROVE  /\ x \in t.npuVlans <=> x \in s.npuVlans
                 /\ \A n \in Modes : t.npu[<<x, n>>] = s.npu[<<x, n>>]
      <4>1. x # v /\ t.npuVlans = r.npuVlans /\ t.npu = r.npu
        BY <2>1, <2>4
      <4> QED BY <2>3, <4>1
    <3> QED BY <3>1, <3>2 DEF Apart
  <2> QED BY <1>1, <2>2, <2>4, <2>5, <2>6 DEF TakesPort
<1> QED BY <1>7, <1>9, <1>10, <1>11, <1>12

(* A member of bridge c goes, or what the table has of it stays.             *)
DropsPort(s, t, c, m, p) ==
  /\ Touched(s, t, c, m, t.list[<<c, m>>])
  /\ t.list[<<c, m>>] \in {s.list[<<c, m>>], s.list[<<c, m>>] \ {p}}
  /\ Programmed(s, c) => Programmed(t, c) /\ p \notin t.list[<<c, m>>]

LEMMA DroppedAsTold ==
  ASSUME NEW s \in VlanState, NEW b \in Bridges, NEW m \in Modes, NEW p \in Ports,
         s.vid[b] \in Own(b), NEW t, NEW list, NEW npu, NEW seen,
         list \in {s.list[<<b, m>>], s.list[<<b, m>>] \ {p}},
         Touches(s, t, b, m, list, npu, seen),
         Programmed(s, b) => /\ list = s.list[<<b, m>>] \ {p}
                             /\ npu = s.npu[<<s.vid[b], m>>] \ {p}
                             /\ seen = s.seen[<<b, m>>] \ {p}
  PROVE  DropsPort(s, t, b, m, p) /\ t.list[<<b, m>>] = list
<1>1. Serves(s, t, b, m, list, npu, seen)
  BY TouchesFacts
<1>2. Programmed(s, b) => /\ seen = list /\ list \subseteq npu
                          /\ s.vid[b] # DefaultVlan => npu = list
                          /\ p \notin list
  BY DEF Programmed
<1>3. t.list[<<b, m>>] = list
  BY <1>1 DEF Serves, Touched
<1> QED BY <1>1, <1>2, <1>3 DEF DropsPort, Serves

LEMMA ReleasedPort ==
  ASSUME NEW s \in VlanState, NEW b \in s.known, NEW m \in Modes, NEW p \in Ports,
         s.vid[b] \in Own(b), NEW t, t = Hide(Release(s, b, m, p), b, m, p)
  PROVE  DropsPort(s, t, b, m, p)
<1> DEFINE v == s.vid[b]
           u == NpuDel(s, v, m, p)
           r == Release(s, b, m, p)
<1>1. b \in Bridges /\ v \in MaybeVid
  BY DEF VlanState
<1>2. u \in VlanState /\ r \in VlanState
  BY <1>1, NpuDelFacts, Released
<1>3. Fields(u, s.known, s.vid, s.list, s.seen, s.npuVlans,
             [s.npu EXCEPT ![<<v, m>>] = s.npu[<<v, m>>] \ {p}])
  BY FieldsOf
<1>4. r = [u EXCEPT !.list = [u.list EXCEPT ![<<b, m>>] = u.list[<<b, m>>] \ {p}]]
  BY Zenon DEF Release
<1>5. Fields(t, r.known, r.vid, r.list, [r.seen EXCEPT ![<<b, m>>] = r.seen[<<b, m>>] \ {p}],
             r.npuVlans, r.npu)
  <2> HIDE DEF r
  <2>1. t = Hide(r, b, m, p)
    BY DEF r
  <2> QED BY <1>2, <2>1, FieldsOf
<1> HIDE DEF u, r
<1>6. /\ r.known = u.known /\ r.vid = u.vid /\ r.seen = u.seen /\ r.npuVlans = u.npuVlans
      /\ r.npu = u.npu /\ r.list = [u.list EXCEPT ![<<b, m>>] = u.list[<<b, m>>] \ {p}]
  BY <1>2, <1>4 DEF VlanState
<1>7. Touches(s, t, b, m, s.list[<<b, m>>] \ {p}, s.npu[<<v, m>>] \ {p}, s.seen[<<b, m>>] \ {p})
  <2>1. /\ u.known = s.known /\ u.vid = s.vid /\ u.list = s.list /\ u.seen = s.seen
        /\ u.npuVlans = s.npuVlans /\ u.npu = [s.npu EXCEPT ![<<v, m>>] = s.npu[<<v, m>>] \ {p}]
    BY <1>3 DEF Fields
  <2>2. /\ t.known = r.known /\ t.vid = r.vid /\ t.list = r.list /\ t.npuVlans = r.npuVlans
        /\ t.npu = r.npu /\ t.seen = [r.seen EXCEPT ![<<b, m>>] = r.seen[<<b, m>>] \ {p}]
    BY <1>5 DEF Fields
  <2> QED BY <1>6, <2>1, <2>2 DEF Touches, Fields
<1> QED BY <1>1, <1>7, DroppedAsTold

LEMMA HiddenPort ==
  ASSUME NEW s \in VlanState, NEW b \in Bridges, NEW m \in Modes, NEW p \in Ports,
         s.vid[b] \in Own(b), Programmed(s, b) => p \notin s.list[<<b, m>>],
         NEW t, t \in {s, Hide(s, b, m, p)}
  PROVE  DropsPort(s, t, b, m, p) /\ t.list[<<b, m>>] = s.list[<<b, m>>]
<1> DEFINE list == s.list[<<b, m>>]
           npu == s.npu[<<s.vid[b], m>>]
           seen == s.seen[<<b, m>>]
<1>1. /\ [s.list EXCEPT ![<<b, m>>] = list] = s.list
      /\ [s.seen EXCEPT ![<<b, m>>] = seen] = s.seen
      /\ [s.npu EXCEPT ![<<s.vid[b], m>>] = npu] = s.npu
  BY NoChange
<1>2. Programmed(s, b) => list = list \ {p} /\ seen = seen \ {p}
  BY DEF Programmed
<1>3. CASE t = s
  <2>1. Touches(s, t, b, m, list, npu, seen)
    BY <1>1, <1>3 DEF Touches, Fields
  <2>2. Serves(s, t, b, m, list, npu, seen)
    BY <2>1, TouchesFacts
  <2> QED BY <1>3, <2>2 DEF Serves, DropsPort
<1>4. CASE t = Hide(s, b, m, p)
  <2>1. Fields(t, s.known, s.vid, s.list, [s.seen EXCEPT ![<<b, m>>] = seen \ {p}], s.npuVlans,
               s.npu)
    BY <1>4, FieldsOf
  <2>2. Touches(s, t, b, m, list, npu, seen \ {p})
    BY <1>1, <2>1 DEF Touches, Fields
  <2>3. Serves(s, t, b, m, list, npu, seen \ {p})
    BY <2>2, TouchesFacts
  <2>4. Programmed(s, b) => /\ seen \ {p} = list /\ list \subseteq npu
                            /\ s.vid[b] # DefaultVlan => npu = list
    BY <1>2 DEF Programmed
  <2>5. t.list[<<b, m>>] = list
    BY <2>3 DEF Serves, Touched
  <2> QED BY <2>3, <2>4, <2>5 DEF Serves, DropsPort
<1> QED BY <1>3, <1>4

(* nas_process_del_vlan_mem_from_os                                          *)
LEMMA OnDelPortDrops ==
  ASSUME NEW s \in VlanState, NEW b \in Bridges, NEW m \in Modes, NEW p \in Ports,
         s.vid[b] \in Own(b), NEW t, t = OnDelPort(s, b, p, m, "none")
  PROVE  DropsPort(s, t, b, m, p)
<1>1. \/ t = s /\ (b \notin s.known \/ s.vid[b] \notin s.npuVlans \cap Vids)
      \/ b \in s.known /\ t = Hide(Release(s, b, m, p), b, m, p)
      \/ p \notin s.list[<<b, m>>] /\ t = Hide(s, b, m, p)
  BY Zenon DEF OnDelPort, Release, NpuDelOk
<1>2. b \notin s.known \/ s.vid[b] \notin s.npuVlans \cap Vids => ~Programmed(s, b)
  BY OwnFacts DEF Programmed
<1> QED BY <1>1, <1>2, ReleasedPort, HiddenPort

(* nas_cps_del_port_from_vlan                                                *)
LEMMA CpsDelPortDrops ==
  ASSUME NEW s \in VlanState, NEW b \in s.known, NEW m \in Modes, NEW p \in Ports,
         s.vid[b] \in Own(b), NEW ok, ok <=> NpuDelOk(s, s.vid[b], "none"),
         NEW t, t = Hide(IF ok THEN Release(s, b, m, p) ELSE s, b, m, p)
  PROVE  DropsPort(s, t, b, m, p) /\ (~ok => t.list[<<b, m>>] = s.list[<<b, m>>])
<1>1. b \in Bridges
  BY DEF VlanState
<1>2. CASE ok
  BY <1>2, ReleasedPort
<1>3. CASE ~ok
  <2>1. ~Programmed(s, b)
    BY <1>1, <1>3, OwnFacts DEF NpuDelOk, Programmed
  <2> QED BY <1>1, <1>3, <2>1, HiddenPort
<1> QED BY <1>2, <1>3

(* nas_create_insert_bridge_node                                             *)
LEMMA InsertApart ==
  ASSUME NEW s \in VlanState, NEW b \in Bridges, NEW t, t = BridgeInsert(s, b)
  PROVE  /\ Apart(s, t, b) /\ t.known = s.known \cup {b}
         /\ t.list = s.list /\ t.seen = s.seen /\ t.npuVlans = s.npuVlans /\ t.npu = s.npu
         /\ b \in s.known => t = s
         /\ b \notin s.known => t.vid[b] = 0
<1>1. CASE b \in s.known
  <2>1. t = s
    BY <1>1 DEF BridgeInsert
  <2> QED BY <1>1, <2>1 DEF Apart
<1>2. CASE b \notin s.known
  <2>1. t = [s EXCEPT !.known = s.known \cup {b}, !.vid = [s.vid EXCEPT ![b] = 0]]
    BY <1>2, Zenon DEF BridgeInsert
  <2>2. /\ t.known = s.known \cup {b} /\ t.vid = [s.vid EXCEPT ![b] = 0]
        /\ t.list = s.list /\ t.seen = s.seen /\ t.npuVlans = s.npuVlans /\ t.npu = s.npu
    BY <2>1 DEF VlanState
  <2>3. t.vid[b] = 0 /\ \A c \in Bridges \ {b} : t.vid[c] = s.vid[c]
    BY <2>2 DEF VlanState
  <2>4. Apart(s, t, b)
    BY <2>2, <2>3 DEF Apart
  <2> QED BY <1>2, <2>2, <2>3, <2>4
<1> QED BY <1>1, <1>2

(* nas_cleanup_bridge                                                        *)
LEMMA CleanupApart ==
  ASSUME NEW s \in VlanState, NEW b \in Bridges, s.vid[b] \in Own(b),
         NEW t, t = BridgeCleanup(s, b, "none")
  PROVE  Apart(s, t, b) /\ t.known = s.known \ {b} /\ t.vid[b] = 0
<1> DEFINE v == s.vid[b]
           gone == v \in s.npuVlans \ {DefaultVlan} /\ "none" # "vlanDelete"
           known == s.known \ {b}
           vid == [s.vid EXCEPT ![b] = 0]
           list == [x \in Bridges \X Modes |-> IF x[1] = b THEN {} ELSE s.list[x]]
           seen == [x \in Bridges \X Modes |-> IF x[1] = b /\ v # 0 THEN {} ELSE s.seen[x]]
           reg == IF v = 0 \/ "none" = "register" THEN s.registered ELSE s.registered \ {b}
           vlans == IF gone THEN s.npuVlans \ {v} ELSE s.npuVlans
           npu == [x \in Vids \X Modes |-> IF gone /\ x[1] = v THEN {} ELSE s.npu[x]]
<1>1. t = [s EXCEPT !.known = known, !.vid = vid, !.list = list, !.seen = seen,
                    !.registered = reg, !.npuVlans = vlans, !.npu = npu]
  BY Zenon DEF BridgeCleanup
<1>2. vid[b] = 0 /\ \A c \in Bridges \ {b} : vid[c] = s.vid[c]
  BY DEF VlanState
<1>3. \A c \in Bridges \ {b}, m \in Modes :
        list[<<c, m>>] = s.list[<<c, m>>] /\ seen[<<c, m>>] = s.seen[<<c, m>>]
  OBVIOUS
<1>4. \A x \in Vids \ VidsOf[b] : x # v
  BY NasVlanAssumption DEF Own
<1>5. \A x \in Vids \ VidsOf[b] : /\ x \in vlans <=> x \in s.npuVlans
                                  /\ \A m \in Modes : npu[<<x, m>>] = s.npu[<<x, m>>]
  BY <1>4
<1> HIDE DEF known, vid, list, seen, reg, vlans, npu
<1>6. /\ t.known = known /\ t.vid = vid /\ t.list = list /\ t.seen = seen
      /\ t.npuVlans = vlans /\ t.npu = npu
  BY <1>1 DEF VlanState
<1>7. \A c \in Bridges \ {b} : c \in t.known <=> c \in s.known
  BY <1>6 DEF known
<1>8. Apart(s, t, b)
  BY <1>2, <1>3, <1>5, <1>6, <1>7 DEF Apart
<1> QED BY <1>2, <1>6, <1>8 DEF known

(* The NPU had no VLAN of the new bridge, and now the bridge is as CPS wants. *)
OpensVlan(s, u, t, b, v) ==
  /\ v = DefaultVlan \/ v \notin u.npuVlans
  /\ Apart(s, t, b) /\ b \in t.known /\ t.vid[b] = v
  /\ Programmed(t, b) /\ \A m \in Modes : t.list[<<b, m>>] = {}

(* nas_cps_create_vlan of a bridge the kernel has not had.                   *)
LEMMA CreateProgrammed ==
  ASSUME NEW s \in VlanState, NEW b \in Bridges \ s.known, NEW v \in VidsOf[b], Fresh(s, b),
         NEW u, u = Opened(s, b, v),
         NEW made, made = IF v = DefaultVlan THEN u ELSE [u EXCEPT !.npuVlans = @ \cup {v}],
         NEW t, t = [made EXCEPT !.registered = @ \cup {b}]
  PROVE  OpensVlan(s, u, t, b, v)
<1> DEFINE i == BridgeInsert(s, b)
<1>1. v \in Vids /\ v # 0 /\ v \in MaybeVid /\ b \in Bridges
  BY NasVlanAssumption DEF MaybeVid
<1>2. /\ Apart(s, i, b) /\ i.known = s.known \cup {b}
      /\ i.list = s.list /\ i.seen = s.seen /\ i.npuVlans = s.npuVlans /\ i.npu = s.npu
      /\ i \in VlanState
  BY InsertApart, InsertBridge
<1>3. u = [i EXCEPT !.vid = [i.vid EXCEPT ![b] = v]]
  BY Zenon DEF Opened
<1> HIDE DEF i
<1>4. /\ u.known = i.known /\ u.vid = [i.vid EXCEPT ![b] = v] /\ u.list = s.list
      /\ u.seen = s.seen /\ u.npuVlans = s.npuVlans /\ u.npu = s.npu /\ u.registered = i.registered
  BY <1>2, <1>3 DEF VlanState
<1>5. u \in VlanState
  BY <1>1, OpenedFacts
<1>6. /\ made.known = i.known /\ made.vid = u.vid /\ made.list = s.list /\ made.seen = s.seen
      /\ made.npu = s.npu /\ made \in VlanState
      /\ made.npuVlans = IF v = DefaultVlan THEN s.npuVlans ELSE s.npuVlans \cup {v}
  <2> DEFINE vlans == u.npuVlans \cup {v}
  <2>1. vlans \in SUBSET (Vids \cup {DefaultVlan})
    BY <1>1, <1>5 DEF VlanState
  <2>2. made = IF v = DefaultVlan THEN u ELSE [u EXCEPT !.npuVlans = vlans]
    OBVIOUS
  <2> HIDE DEF vlans
  <2>3. CASE v = DefaultVlan
    <3>1. made = u
      BY <2>2, <2>3
    <3> QED BY <1>4, <1>5, <2>3, <3>1
  <2>4. CASE v # DefaultVlan
    <3>1. made = [u EXCEPT !.npuVlans = vlans]
      BY <2>2, <2>4
    <3>2. /\ made.known = u.known /\ made.vid = u.vid /\ made.list = u.list
          /\ made.seen = u.seen /\ made.npu = u.npu /\ made.npuVlans = vlans
          /\ made \in VlanState
      BY <1>5, <2>1, <3>1 DEF VlanState
    <3>3. vlans = s.npuVlans \cup {v}
      BY <1>4 DEF vlans
    <3> QED BY <1>4, <2>4, <3>2, <3>3
  <2> QED BY <2>3, <2>4
<1>7. /\ t.known = made.known /\ t.vid = made.vid /\ t.list = made.list /\ t.seen = made.seen
      /\ t.npu = made.npu /\ t.npuVlans = made.npuVlans
  BY <1>6 DEF VlanState
<1>8. t.vid[b] = v /\ \A c \in Bridges \ {b} : t.vid[c] = i.vid[c]
  BY <1>1, <1>2, <1>4, <1>6, <1>7 DEF VlanState
<1>9. \A x \in Vids \ VidsOf[b] : x \in t.npuVlans <=> x \in s.npuVlans
  BY <1>6, <1>7
<1>10. Apart(s, t, b)
  BY <1>2, <1>6, <1>7, <1>8, <1>9 DEF Apart
<1>11. \A m \in Modes : t.list[<<b, m>>] = {} /\ t.seen[<<b, m>>] = {} /\ t.npu[<<v, m>>] = {}
  BY <1>6, <1>7 DEF Fresh
<1>12. b \in t.known
  BY <1>2, <1>6, <1>7
<1>13. Programmed(t, b)
  <2>1. v \in t.npuVlans
    BY <1>6, <1>7 DEF Fresh
  <2> QED BY <1>8, <1>11, <1>12, <2>1 DEF Programmed
<1>14. v = DefaultVlan \/ v \notin u.npuVlans
  BY <1>4 DEF Fresh
<1> QED BY <1>8, <1>10, <1>11, <1>12, <1>13, <1>14 DEF OpensVlan

-----------------------------------------------------------------------------
(* What the table has of one bridge after a member came or went.             *)

LEMMA SameMode ==
  ASSUME OwnVid, NEW b \in Bridges, NEW v \in Own(b), NEW w \in Own(b), ModeOf(v) = ModeOf(w)
  PROVE  v = w
BY OwnFacts DEF OwnVid, Own, ModeOf

(* MendsOf, but perhaps for port p's interface in VLAN v.                    *)
MendsBut(b, s, q, kb, km, us, made, live, p, v) ==
  /\ s.vid[b] \in Own(b) /\ b \in us
  /\ made /\ b \in kb => Programmed(s, b)
  /\ b \in s.known /\ b \notin kb => Has(q, BridgeEvent("delBridge", b))
  /\ b \in kb /\ b \notin s.known => Has(q, BridgeEvent("newBridge", b))
  /\ live /\ b \in kb =>
       \A x \in Ports, w \in Own(b) :
         Silent(q, b, x, w) /\ ~(x = p /\ w = v) => Caught(s, b, x, w, km[<<x, w>>] = b, made)

LEMMA MendsAllBut ==
  ASSUME NEW b, NEW s, NEW q, NEW kb, NEW km, NEW us, b \in us, NEW made, NEW live,
         MendsOf(b, s, q, kb, km, us, made, live), NEW p, NEW v
  PROVE  MendsBut(b, s, q, kb, km, us, made, live, p, v)
BY DEF MendsOf, MendsBut

(* The event of an interface is taken.                                       *)
LEMMA TakenMendsBut ==
  ASSUME NEW q \in Seq(Event), q # <<>>, NEW t, t = Tail(q), NEW b,
         NEW e, e = Head(q), e.op \in {"addPort", "delPort"},
         NEW s, NEW kb, NEW km, NEW us, b \in us, NEW made, NEW live,
         MendsOf(b, s, q, kb, km, us, made, live)
  PROVE  MendsBut(b, s, t, kb, km, us, made, live, e.port, e.vid)
<1> DEFINE p == e.port
           v == e.vid
<1>1. Head(q) # BridgeEvent("newBridge", b) /\ Head(q) # BridgeEvent("delBridge", b)
  BY DEF BridgeEvent
<1>2. \A x, w : Says(Head(q), b, x, w) => x = p /\ w = v
  BY DEF Says
<1>3. /\ Has(q, BridgeEvent("newBridge", b)) => Has(t, BridgeEvent("newBridge", b))
      /\ Has(q, BridgeEvent("delBridge", b)) => Has(t, BridgeEvent("delBridge", b))
  BY <1>1, TakenFacts
<1>4. \A x, w : Silent(t, b, x, w) /\ ~(x = p /\ w = v) => Silent(q, b, x, w)
  BY <1>2, TakenFacts
<1> QED BY <1>3, <1>4 DEF MendsOf, MendsBut

LEMMA TakesMends ==
  ASSUME OwnVid, NEW s, NEW t, NEW b \in Bridges, NEW p \in Ports, NEW v \in Own(b),
         NEW m, m = ModeOf(v), TakesPort(s, t, b, m, p),
         NEW q, NEW kb, NEW km, NEW us, NEW made, NEW live,
         MendsBut(b, s, q, kb, km, us, made, live, p, v),
         made /\ b \in kb /\ Silent(q, b, p, v) => km[<<p, v>>] = b
  PROVE  MendsOf(b, t, q, kb, km, us, made, live)
<1>1. /\ t.known = s.known /\ t.vid[b] \in Own(b) /\ m \in Modes
      /\ t.list[<<b, m>>] = s.list[<<b, m>>] \cup {p}
      /\ \A n \in Modes \ {m} : t.list[<<b, n>>] = s.list[<<b, n>>]
      /\ Programmed(s, b) => Programmed(t, b)
  BY ModeFacts DEF TakesPort
<1>2. ASSUME live, b \in kb, NEW x \in Ports, NEW w \in Own(b), Silent(q, b, x, w)
      PROVE  Caught(t, b, x, w, km[<<x, w>>] = b, made)
  <2>1. CASE x = p /\ w = v
    BY <1>1, <1>2, <2>1 DEF Caught
  <2>2. CASE ~(x = p /\ w = v)
    <3>1. Caught(s, b, x, w, km[<<x, w>>] = b, made)
      BY <1>2, <2>2 DEF MendsBut
    <3>2. ModeOf(w) = m => x # p
      BY <2>2, SameMode
    <3>3. x \in t.list[<<b, ModeOf(w)>>] <=> x \in s.list[<<b, ModeOf(w)>>]
      BY <1>1, <3>2, ModeFacts
    <3> QED BY <3>1, <3>3 DEF Caught
  <2> QED BY <2>1, <2>2
<1> QED BY <1>1, <1>2 DEF MendsBut, MendsOf

LEMMA DropsMends ==
  ASSUME OwnVid, NEW s, NEW t, NEW b \in Bridges, NEW p \in Ports, NEW v \in Own(b),
         NEW m, m = ModeOf(v), DropsPort(s, t, b, m, p),
         NEW q, NEW kb, NEW km, NEW us, NEW made, NEW live,
         MendsBut(b, s, q, kb, km, us, made, live, p, v),
         b \in kb /\ Silent(q, b, p, v) => km[<<p, v>>] # b
  PROVE  MendsOf(b, t, q, kb, km, us, made, live)
<1>1. /\ t.known = s.known /\ t.vid = s.vid /\ m \in Modes
      /\ t.list[<<b, m>>] \in {s.list[<<b, m>>], s.list[<<b, m>>] \ {p}}
      /\ \A n \in Modes \ {m} : t.list[<<b, n>>] = s.list[<<b, n>>]
      /\ Programmed(s, b) => Programmed(t, b) /\ p \notin t.list[<<b, m>>]
  BY ModeFacts DEF DropsPort, Touched
<1>2. ASSUME live, b \in kb, NEW x \in Ports, NEW w \in Own(b), Silent(q, b, x, w)
      PROVE  Caught(t, b, x, w, km[<<x, w>>] = b, made)
  <2>1. CASE x = p /\ w = v
    <3>1. made => Programmed(s, b)
      BY <1>2 DEF MendsBut
    <3> QED BY <1>1, <1>2, <2>1, <3>1 DEF Caught
  <2>2. CASE ~(x = p /\ w = v)
    <3>1. Caught(s, b, x, w, km[<<x, w>>] = b, made)
      BY <1>2, <2>2 DEF MendsBut
    <3>2. ModeOf(w) = m => x # p
      BY <2>2, SameMode
    <3>3. x \in t.list[<<b, ModeOf(w)>>] <=> x \in s.list[<<b, ModeOf(w)>>]
      BY <1>1, <3>2, ModeFacts
    <3> QED BY <3>1, <3>3 DEF Caught
  <2> QED BY <2>1, <2>2
<1> QED BY <1>1, <1>2 DEF MendsBut, MendsOf

(* Nothing went.                                                             *)
LEMMA StaysMends ==
  ASSUME NEW s, NEW t, NEW b \in Bridges, NEW p, NEW m \in Modes, DropsPort(s, t, b, m, p),
         t.list[<<b, m>>] = s.list[<<b, m>>],
         NEW q, NEW kb, NEW km, NEW us, NEW made, NEW live, b \in us,
         MendsOf(b, s, q, kb, km, us, made, live)
  PROVE  MendsOf(b, t, q, kb, km, us, made, live)
<1>1. /\ t.known = s.known /\ t.vid = s.vid
      /\ \A n \in Modes : t.list[<<b, n>>] = s.list[<<b, n>>]
      /\ Programmed(s, b) => Programmed(t, b)
  BY DEF DropsPort, Touched
<1>2. \A x, w, there : Caught(s, b, x, w, there, made) => Caught(t, b, x, w, there, made)
  BY <1>1, ModeFacts DEF Caught
<1> QED BY <1>1, <1>2 DEF MendsOf

-----------------------------------------------------------------------------
(* The actions.                                                              *)

LEMMA FaultFree ==
  ASSUME TypeInv, spent'.faults = 0
  PROVE  /\ \A f : SpendFault(f) \/ SpendRequest(f) => f = "none" /\ spent.faults = 0
         /\ SpendExternal => spent.faults = 0
<1>1. spent \in Bounds
  BY DEF TypeInv, TypeOK, Bounds
<1>2. ASSUME NEW f, spent'.faults = Faults(f) PROVE f = "none" /\ spent.faults = 0
  BY <1>1, <1>2 DEF Faults, Bounds
<1>3. ASSUME NEW f, SpendFault(f) PROVE spent'.faults = Faults(f)
  <2> DEFINE n == Faults(f)
  <2>1. spent' = [spent EXCEPT !.faults = n]
    BY <1>3 DEF SpendFault
  <2> HIDE DEF n
  <2>2. spent'.faults = n
    BY <1>1, <2>1 DEF Bounds
  <2> QED BY <2>2 DEF n
<1>4. ASSUME NEW f, SpendRequest(f) PROVE spent'.faults = Faults(f)
  <2> DEFINE n == Faults(f)
             k == spent.requests + 1
  <2>1. spent' = [spent EXCEPT !.requests = k, !.faults = n]
    BY <1>4 DEF SpendRequest
  <2> HIDE DEF n, k
  <2>2. spent'.faults = n
    BY <1>1, <2>1 DEF Bounds
  <2> QED BY <2>2 DEF n
<1>5. SpendExternal => spent'.faults = spent.faults
  BY <1>1 DEF SpendExternal, Bounds
<1> QED BY <1>2, <1>3, <1>4, <1>5

(* The table is as it was while the kernel changed.                          *)
Reported ==
  /\ byCps \subseteq used'
  /\ Logged(queue', kbridges', kmem')
  /\ Mends(nas, queue', kbridges', kmem', used', byCps, alive)

LEMMA KernelReported ==
  ASSUME TypeInv, Follows, \E a : Reports(a)
  PROVE  Reported
<1>1. PICK a : Reports(a)
  OBVIOUS
<1>2. byCps \subseteq used /\ Logged(queue, kbridges, kmem)
  BY DEF Follows
<1>3. \A b \in Bridges : MendsOf(b, nas, queue, kbridges, kmem, used, b \in byCps, alive)
  BY DEF Follows, Mends
<1>4. byCps \subseteq used'
  BY <1>1, <1>2 DEF Reports
<1>5. Logged(queue', kbridges', kmem')
  BY <1>1, <1>2, LoggedGrows
<1>6. ASSUME NEW b \in Bridges
      PROVE  MendsOf(b, nas, queue', kbridges', kmem', used', b \in byCps, alive)
  <2>1. PICK s : s = nas
    OBVIOUS
  <2>2. MendsOf(b, s, queue, kbridges, kmem, used, b \in byCps, alive)
    BY <1>3, <2>1
  <2>3. MendsOf(b, s, queue', kbridges', kmem', used', b \in byCps, alive)
    BY <1>1, <1>2, <2>2, ReportMends
  <2> QED BY <2>1, <2>3
<1> QED BY <1>4, <1>5, <1>6 DEF Reported, Mends

LEMMA KernelSame ==
  ASSUME Follows, UNCHANGED kernel
  PROVE  Reported
BY DEF Follows, Reported, kernel

(* One bridge of the table changes.                                          *)
LEMMA OnlyOne ==
  ASSUME OwnVid, NEW s, NEW t, NEW b \in Bridges, Apart(s, t, b),
         NEW q, NEW kb, NEW km, NEW us, NEW made, NEW make, NEW live,
         \A c \in Bridges \ {b} : c \in make <=> c \in made,
         \A c \in Bridges \ {b} : MendsOf(c, s, q, kb, km, us, c \in made, live),
         MendsOf(b, t, q, kb, km, us, b \in make, live)
  PROVE  Mends(t, q, kb, km, us, make, live)
<1>1. ASSUME NEW c \in Bridges \ {b} PROVE MendsOf(c, t, q, kb, km, us, c \in make, live)
  <2>1. MendsOf(c, s, q, kb, km, us, c \in made, live)
    OBVIOUS
  <2>2. MendsOf(c, t, q, kb, km, us, c \in made, live)
    BY <2>1, ApartMends
  <2>3. c \in make <=> c \in made
    OBVIOUS
  <2> QED BY <2>2, <2>3 DEF MendsOf, Caught
<1> QED BY <1>1 DEF Mends

(* Other programs at the kernel.                                             *)
LEMMA OtherFollows ==
  ASSUME OwnVid, TypeInv, Follows, Other
  PROVE  Follows'
<1>1. Logged(queue, kbridges, kmem)
  BY DEF Follows
<1>2. \E a : Reports(a)
  <2>1. ASSUME NEW b \in Bridges, KernelCreate(b) PROVE \E a : Reports(a)
    BY <1>1, <2>1, CreateReports
  <2>2. ASSUME NEW b \in Bridges, KernelDelete(b, TRUE, {}) PROVE \E a : Reports(a)
    <3>1. PICK gone, also : gone = TRUE /\ also = {}
      OBVIOUS
    <3>2. KernelDelete(b, gone, also)
      BY <2>2, <3>1
    <3> QED BY <1>1, <3>1, <3>2, DeleteReports
  <2>3. ASSUME NEW b \in Bridges, NEW p \in Ports, NEW v \in VidsOf[b] \cup {0}, KernelJoin(b, p, v)
        PROVE  \E a : Reports(a)
    <3>1. v \in Own(b) /\ v \in MaybeVid
      BY OwnFacts DEF Own
    <3> QED BY <1>1, <2>3, <3>1, JoinReports
  <2>4. ASSUME NEW p \in Ports, NEW v \in MaybeVid, KernelLeave(p, v) PROVE \E a : Reports(a)
    BY <1>1, <2>4, LeaveReports
  <2> QED BY <2>1, <2>2, <2>3, <2>4 DEF Other, OtherCreate, OtherDelete, OtherJoin, OtherLeave
<1>3. nas' = nas /\ alive' = alive /\ byCps' = byCps
  BY DEF Other, OtherCreate, OtherDelete, OtherJoin, OtherLeave
<1>4. Reported
  BY <1>2, KernelReported
<1> QED BY <1>3, <1>4 DEF Reported, Follows

LEMMA CreateFollows ==
  ASSUME OwnVid, TypeInv, Follows, NEW b \in Bridges, NEW v \in VidsOf[b], NEW want,
         CpsCreate(b, v, want, "none")
  PROVE  Follows'
<1>1. /\ KernelCreate(b) /\ byCps' = byCps \cup {b} /\ alive' = alive
      /\ b \notin used /\ used' = used \cup {b} /\ kbridges' = kbridges \cup {b} /\ kmem' = kmem
  BY DEF CpsCreate, KernelCreate
<1>2. Reported
  <2>1. Reports(<<BridgeEvent("newBridge", b)>>)
    BY <1>1, CreateReports DEF Follows
  <2> QED BY <2>1, KernelReported
<1>3. b \in Bridges \ nas.known /\ nas \in VlanState
  BY <1>1 DEF TypeInv, TypeOK
<1>4. Fresh(nas, b)
  BY <1>1 DEF Follows, Mends, MendsOf
<1> DEFINE u == Opened(nas, b, v)
           made == IF v = DefaultVlan THEN u ELSE [u EXCEPT !.npuVlans = @ \cup {v}]
           done == [made EXCEPT !.registered = @ \cup {b}]
<1>5. v = DefaultVlan \/ v \notin u.npuVlans => nas' = done
  BY Zenon DEF CpsCreate, Opened
<1>6. PICK s, t, r, k : s = nas /\ r = u /\ k = made /\ t = done
  OBVIOUS
<1>7. /\ v = DefaultVlan \/ v \notin r.npuVlans
      /\ Apart(s, t, b) /\ b \in t.known /\ t.vid[b] = v
      /\ Programmed(t, b) /\ \A m \in Modes : t.list[<<b, m>>] = {}
  <2>1. s \in VlanState /\ b \in Bridges \ s.known /\ Fresh(s, b) /\ r = Opened(s, b, v)
    BY <1>3, <1>4, <1>6
  <2>2. k = IF v = DefaultVlan THEN r ELSE [r EXCEPT !.npuVlans = @ \cup {v}]
    BY <1>6
  <2>3. t = [k EXCEPT !.registered = @ \cup {b}]
    BY <1>6
  <2> HIDE DEF u, made, done
  <2>4. OpensVlan(s, r, t, b, v)
    BY <2>1, <2>2, <2>3, CreateProgrammed
  <2> QED BY <2>4 DEF OpensVlan
<1>8. nas' = t
  BY <1>5, <1>6, <1>7
<1> HIDE DEF u, made, done
<1>9. MendsOf(b, t, queue', kbridges', kmem', used', b \in byCps', alive)
  <2>1. t.vid[b] \in Own(b) /\ b \in used' /\ b \in kbridges'
    BY <1>1, <1>7 DEF Own
  <2>2. \A p \in Ports, w \in Own(b) : kmem'[<<p, w>>] # b
    <3>1. \A p \in Ports, w \in Own(b) : kmem[<<p, w>>] \in used \cup {None} /\ b # None
      BY OwnFacts, NasVlanAssumption DEF TypeInv, KernelInv
    <3> QED BY <1>1, <3>1
  <2>3. \A p \in Ports, w \in Own(b) : Caught(t, b, p, w, kmem'[<<p, w>>] = b, b \in byCps')
    BY <1>7, <2>2, ModeFacts DEF Caught
  <2> QED BY <1>7, <2>1, <2>3 DEF MendsOf
<1>10. Mends(t, queue', kbridges', kmem', used', byCps', alive)
  <2>1. \A c \in Bridges \ {b} : c \in byCps' <=> c \in byCps
    BY <1>1
  <2>2. \A c \in Bridges \ {b} : MendsOf(c, s, queue', kbridges', kmem', used', c \in byCps, alive)
    BY <1>2, <1>6 DEF Reported, Mends
  <2> QED BY <1>7, <1>9, <2>1, <2>2, OnlyOne
<1> QED BY <1>1, <1>2, <1>8, <1>10 DEF Reported, Follows

LEMMA DeleteFollows ==
  ASSUME OwnVid, TypeInv, Follows, NEW b \in Bridges, CpsDelete(b, "none")
  PROVE  Follows'
<1> DEFINE v == nas.vid[b]
           members == nas.list[b, "tagged"]
<1>1. nas \in VlanState /\ b \in nas.known /\ v \in Own(b) /\ v \in MaybeVid
      /\ members \subseteq Ports
  <2>1. "tagged" \in Modes
    BY DEF Modes
  <2> QED BY <2>1 DEF CpsDelete, TypeInv, TypeOK, Follows, Mends, MendsOf, VlanState
<1>2. PICK also : also = IF v = 0 THEN {} ELSE {<<p, v>> : p \in members}
  OBVIOUS
<1>3. PICK gone \in BOOLEAN : gone <=> b \in kbridges
  OBVIOUS
<1>4. KernelDelete(b, gone, also)
  BY <1>2, <1>3 DEF CpsDelete
<1>5. nas' = BridgeCleanup(nas, b, "none") /\ alive' = alive /\ byCps' = byCps
  BY DEF CpsDelete
<1> HIDE DEF v, members
<1>6. also \subseteq Ports \X MaybeVid
  BY <1>1, <1>2
<1>7. \E a : Reports(a)
  BY <1>4, <1>6, DeleteReports DEF Follows
<1>8. kbridges' = (IF gone THEN kbridges \ {b} ELSE kbridges) /\ used' = used
  BY <1>4 DEF KernelDelete
<1>9. b \notin kbridges' /\ b \in used'
  BY <1>1, <1>3, <1>8 DEF TypeInv
<1>10. Reported
  BY <1>7, KernelReported
<1>11. PICK s, t : s = nas /\ t = nas'
  OBVIOUS
<1>12. Apart(s, t, b) /\ t.known = s.known \ {b} /\ t.vid[b] = 0
  BY <1>1, <1>5, <1>11, CleanupApart DEF v
<1>13. MendsOf(b, t, queue', kbridges', kmem', used', b \in byCps', alive)
  BY <1>9, <1>12, OwnFacts DEF MendsOf
<1>14. Mends(t, queue', kbridges', kmem', used', byCps', alive)
  <2>1. \A c \in Bridges \ {b} : MendsOf(c, s, queue', kbridges', kmem', used', c \in byCps, alive)
    BY <1>10, <1>11 DEF Reported, Mends
  <2>2. \A c \in Bridges \ {b} : c \in byCps' <=> c \in byCps
    BY <1>5
  <2> QED BY <1>12, <1>13, <2>1, <2>2, OnlyOne
<1> QED BY <1>5, <1>10, <1>11, <1>14 DEF Reported, Follows

LEMMA OtherModeMends ==
  ASSUME NEW s, NEW t, NEW b \in Bridges, NEW p, NEW m, TakesPort(s, t, b, m, p),
         \A w \in Own(b) : ModeOf(w) # m,
         NEW q, NEW kb, NEW km, NEW us, NEW made, NEW live, b \in us,
         MendsOf(b, s, q, kb, km, us, made, live)
  PROVE  MendsOf(b, t, q, kb, km, us, made, live)
<1>1. /\ t.known = s.known /\ t.vid[b] \in Own(b)
      /\ \A w \in Own(b) : t.list[<<b, ModeOf(w)>>] = s.list[<<b, ModeOf(w)>>]
      /\ Programmed(s, b) => Programmed(t, b)
  BY ModeFacts DEF TakesPort
<1>2. \A x : \A w \in Own(b) : \A there :
        Caught(s, b, x, w, there, made) => Caught(t, b, x, w, there, made)
  BY <1>1 DEF Caught
<1> QED BY <1>1, <1>2 DEF MendsOf

(* The request serves a bridge of the table that the kernel has had.         *)
LEMMA ServedBridge ==
  ASSUME TypeInv, Follows, NEW w \in Now
  PROVE  /\ nas \in VlanState /\ w.mode \in Modes /\ w.port \in Ports
         /\ cps.br \in nas.known /\ cps.br \in Bridges /\ cps.br \in used
         /\ nas.vid[cps.br] \in Own(cps.br)
<1>1. nas \in VlanState /\ w.mode \in Modes /\ w.port \in Ports /\ cps.br \in nas.known
  BY DEF Now, TypeInv, TypeOK, CpsState, Work
<1> QED BY <1>1 DEF VlanState, TypeInv, Follows, Mends, MendsOf

LEMMA AddFollows ==
  ASSUME OwnVid, TypeInv, Follows, NEW w \in Now, CpsAddPort(w, "none")
  PROVE  Follows'
<1>1. PICK b, m, p, v : b = cps.br /\ m = w.mode /\ p = w.port /\ v = nas.vid[b]
  OBVIOUS
<1>2. /\ nas \in VlanState /\ m \in Modes /\ p \in Ports /\ b \in nas.known /\ b \in Bridges
      /\ b \in used /\ v \in Own(b)
  BY <1>1, ServedBridge
<1>3. PICK kv : kv = IF m = "tagged" THEN v ELSE 0
  OBVIOUS
<1>4. /\ nas' = Show(Added(nas, b, m, p, "none"), b, m, p)
      /\ alive' = alive /\ byCps' = byCps
      /\ \/ UNCHANGED kernel /\ (b \notin kbridges \/ (m = "tagged" /\ v = 0))
         \/ KernelJoin(b, p, kv)
  <2>1. nas' = Show(Added(nas, b, m, p, "none"), b, m, p)
    BY <1>1, Zenon DEF CpsAddPort, Added, Listed
  <2>2. IF b \notin kbridges \/ (m = "tagged" /\ v = 0) THEN UNCHANGED kernel
        ELSE KernelJoin(b, p, kv)
    BY <1>1, <1>3 DEF CpsAddPort
  <2>3. alive' = alive /\ byCps' = byCps
    BY DEF CpsAddPort
  <2> QED BY <2>1, <2>2, <2>3
<1>5. kv \in Own(b) /\ kv \in MaybeVid /\ 0 \in Own(b)
  BY <1>2, <1>3, OwnFacts
<1>7. Reported /\ used' = used /\ kbridges' = kbridges
      /\ \/ kmem'[<<p, kv>>] = b
         \/ b \notin kbridges' \/ (m = "tagged" /\ v = 0)
  <2>1. CASE KernelJoin(b, p, kv)
    <3>1. (\E a : Reports(a)) /\ kmem'[<<p, kv>>] = b
      BY <1>2, <1>5, <2>1, JoinReports DEF Follows
    <3>2. Reported
      BY <3>1, KernelReported
    <3> QED BY <2>1, <3>1, <3>2 DEF KernelJoin
  <2>2. CASE UNCHANGED kernel /\ (b \notin kbridges \/ (m = "tagged" /\ v = 0))
    <3>1. Reported
      BY <2>2, KernelSame
    <3> QED BY <2>2, <3>1 DEF kernel
  <2> QED BY <1>4, <2>1, <2>2
<1>8. PICK s, t : s = nas /\ t = nas'
  OBVIOUS
<1>9. TakesPort(s, t, b, m, p)
  <2>1. s \in VlanState /\ b \in s.known /\ s.vid[b] \in Own(b)
        /\ t = Show(Added(s, b, m, p, "none"), b, m, p)
    BY <1>1, <1>2, <1>4, <1>8
  <2>2. AddsPort(s, t, b, m, p)
    BY <1>2, <2>1, AddedPort
  <2> QED BY <2>1, <2>2 DEF AddsPort, Touched, TakesPort
<1>10. b \in used' /\ \A c \in Bridges : MendsOf(c, s, queue', kbridges', kmem', used', c \in byCps, alive)
  BY <1>2, <1>7, <1>8 DEF Reported, Mends
<1>11. PICK q, kb, km, us, made : /\ q = queue' /\ kb = kbridges' /\ km = kmem' /\ us = used'
                                  /\ made = byCps
  OBVIOUS
<1>12. MendsOf(b, s, q, kb, km, us, b \in made, alive) /\ b \in us
  BY <1>2, <1>10, <1>11
<1>13. MendsOf(b, t, q, kb, km, us, b \in made, alive)
  <2>1. CASE m = "untagged" \/ VidsOf[b] # {}
    <3>1. PICK x \in Own(b) : ModeOf(x) = m /\ (m = "untagged" => x = 0)
                                            /\ (m = "tagged" /\ v # 0 => x = v)
      BY <1>2, <2>1, OwnFacts DEF Own, ModeOf, Modes
    <3>2. MendsBut(b, s, q, kb, km, us, b \in made, alive, p, x)
      BY <1>12, MendsAllBut
    <3>3. b \in made /\ b \in kb => km[<<p, x>>] = b
      <4>1. ASSUME b \in made, b \in kb PROVE v # 0
        <5>1. Programmed(s, b)
          BY <1>12, <4>1 DEF MendsOf
        <5> QED BY <1>1, <1>2, <1>8, <5>1, OwnFacts DEF Programmed
      <4>2. v # 0 => x = kv
        BY <1>2, <1>3, <3>1 DEF Modes
      <4> QED BY <1>7, <1>11, <4>1, <4>2
    <3> QED BY <1>2, <1>9, <3>1, <3>2, <3>3, TakesMends
  <2>2. CASE m # "untagged" /\ VidsOf[b] = {}
    <3>1. \A x \in Own(b) : ModeOf(x) # m
      BY <2>2 DEF Own, ModeOf
    <3> QED BY <1>2, <1>9, <1>12, <3>1, OtherModeMends
  <2> QED BY <2>1, <2>2
<1>14. Mends(t, q, kb, km, us, made, alive)
  <2>1. \A c \in Bridges \ {b} : MendsOf(c, s, q, kb, km, us, c \in made, alive)
    BY <1>10, <1>11
  <2>2. Apart(s, t, b)
    BY <1>9 DEF TakesPort
  <2> QED BY <1>2, <1>13, <2>1, <2>2, OnlyOne
<1> QED BY <1>4, <1>7, <1>8, <1>11, <1>14 DEF Reported, Follows

LEMMA DelFollows ==
  ASSUME OwnVid, TypeInv, Follows, NEW w \in Now, CpsDelPort(w, "none")
  PROVE  Follows'
<1>1. PICK b, m, p, v : b = cps.br /\ m = w.mode /\ p = w.port /\ v = nas.vid[b]
  OBVIOUS
<1>2. /\ nas \in VlanState /\ m \in Modes /\ p \in Ports /\ b \in nas.known /\ b \in Bridges
      /\ b \in used /\ v \in Own(b)
  BY <1>1, ServedBridge
<1>3. PICK kv : kv = IF m = "tagged" THEN v ELSE 0
  OBVIOUS
<1>4. PICK ok \in BOOLEAN : ok <=> NpuDelOk(nas, v, "none")
  OBVIOUS
<1>5. /\ nas' = Hide(IF ok THEN Release(nas, b, m, p) ELSE nas, b, m, p)
      /\ alive' = alive /\ byCps' = byCps
      /\ ok => KernelLeave(p, kv)
      /\ ~ok => UNCHANGED kernel
  <2>1. nas' = Hide(IF NpuDelOk(nas, v, "none") THEN Release(nas, b, m, p) ELSE nas, b, m, p)
    BY <1>1, Zenon DEF CpsDelPort, Release
  <2>2. IF NpuDelOk(nas, v, "none") THEN KernelLeave(p, kv) ELSE UNCHANGED kernel
    BY <1>1, <1>3 DEF CpsDelPort
  <2>3. alive' = alive /\ byCps' = byCps
    BY DEF CpsDelPort
  <2> QED BY <1>4, <2>1, <2>2, <2>3
<1>6. kv \in Own(b) /\ kv \in MaybeVid /\ 0 \in Own(b)
  BY <1>2, <1>3, OwnFacts
<1>7. /\ Reported /\ used' = used
      /\ ok => kmem'[<<p, kv>>] # b /\ ModeOf(kv) = m
  <2>1. CASE ok
    <3>1. (\E a : Reports(a)) /\ kmem'[<<p, kv>>] = None
      BY <1>2, <1>5, <1>6, <2>1, LeaveReports DEF Follows
    <3>2. Reported
      BY <3>1, KernelReported
    <3>3. v # 0 /\ b # None
      BY <1>2, <1>4, <2>1, NasVlanAssumption DEF NpuDelOk
    <3>4. ModeOf(kv) = m
      BY <1>2, <1>3, <3>3 DEF ModeOf, Modes
    <3> QED BY <1>5, <2>1, <3>1, <3>2, <3>3, <3>4 DEF KernelLeave
  <2>2. CASE ~ok
    <3>1. UNCHANGED kernel
      BY <1>5, <2>2
    <3>2. Reported
      BY <3>1, KernelSame
    <3> QED BY <2>2, <3>1, <3>2 DEF kernel
  <2> QED BY <2>1, <2>2
<1>8. PICK s, t : s = nas /\ t = nas'
  OBVIOUS
<1>9. DropsPort(s, t, b, m, p) /\ (~ok => t.list[<<b, m>>] = s.list[<<b, m>>])
  <2>1. /\ s \in VlanState /\ b \in s.known /\ s.vid[b] \in Own(b)
        /\ ok <=> NpuDelOk(s, s.vid[b], "none")
        /\ t = Hide(IF ok THEN Release(s, b, m, p) ELSE s, b, m, p)
    BY <1>1, <1>2, <1>4, <1>5, <1>8
  <2> QED BY <1>2, <2>1, CpsDelPortDrops
<1>10. PICK q, kb, km, us, made : /\ q = queue' /\ kb = kbridges' /\ km = kmem' /\ us = used'
                                  /\ made = byCps
  OBVIOUS
<1>11. b \in us /\ \A c \in Bridges : MendsOf(c, s, q, kb, km, us, c \in made, alive)
  BY <1>2, <1>7, <1>8, <1>10 DEF Reported, Mends
<1>12. MendsOf(b, t, q, kb, km, us, b \in made, alive)
  <2>1. CASE ok
    <3>1. MendsBut(b, s, q, kb, km, us, b \in made, alive, p, kv)
      BY <1>2, <1>11, MendsAllBut
    <3>2. km[<<p, kv>>] # b /\ m = ModeOf(kv)
      BY <1>7, <1>10, <2>1
    <3> QED BY <1>2, <1>6, <1>9, <3>1, <3>2, DropsMends
  <2>2. CASE ~ok
    BY <1>2, <1>9, <1>11, <2>2, StaysMends
  <2> QED BY <2>1, <2>2
<1>13. Mends(t, q, kb, km, us, made, alive)
  <2>1. Apart(s, t, b)
    BY <1>9 DEF DropsPort, Touched
  <2> QED BY <1>2, <1>11, <1>12, <2>1, OnlyOne
<1> QED BY <1>5, <1>7, <1>8, <1>10, <1>13 DEF Reported, Follows

(* The event e is the first of q; r is the rest.                             *)
LEMMA HandleMends ==
  ASSUME OwnVid, NEW s \in VlanState, \A o \in Bridges : s.vid[o] \in Own(o),
         NEW S \in SUBSET Bridges, NEW q \in Seq(Event), q # <<>>, NEW r, r = Tail(q),
         NEW e \in Sound(S), e = Head(q), ~Fatal(s, e),
         NEW t, t = Handle(s, e, "none"), NEW b, b = e.br,
         NEW kb, NEW km, Logged(q, kb, km), NEW made, NEW live,
         MendsOf(b, s, q, kb, km, S, made, live)
  PROVE  Apart(s, t, b) /\ MendsOf(b, t, r, kb, km, S, made, live)
<1>1. /\ e \in Event /\ b \in S /\ b \in Bridges /\ s.vid[b] \in Own(b)
      /\ e.op \in {"newBridge", "delBridge", "addPort", "delPort"}
      /\ e.op \in {"addPort", "delPort"} => e.port \in Ports
  BY DEF Sound, Event
<1>2. /\ Proper(e)
      /\ e = BridgeEvent("delBridge", b) => b \notin kb
      /\ e = BridgeEvent("newBridge", b) /\ b \notin kb => Has(r, BridgeEvent("delBridge", b))
  BY <1>1, LoggedTaken
<1>3. CASE e.op = "newBridge"
  <2>1. e = BridgeEvent("newBridge", b) /\ t = BridgeInsert(s, b)
    BY <1>2, <1>3 DEF Proper, Handle
  <2>2. /\ Apart(s, t, b) /\ t.known = s.known \cup {b} /\ t.list = s.list
        /\ b \in s.known => t = s
        /\ b \notin s.known => t.vid[b] = 0
    BY <1>1, <2>1, InsertApart
  <2>3. t.vid[b] \in Own(b)
    BY <1>1, <2>2, OwnFacts
  <2>4. made /\ b \in kb => Programmed(t, b)
    BY <2>2 DEF MendsOf, Programmed
  <2>5. ASSUME live, b \in kb, NEW x \in Ports, NEW w \in Own(b), Silent(r, b, x, w)
        PROVE  Caught(t, b, x, w, km[<<x, w>>] = b, made)
    <3>1. ~Says(e, b, x, w)
      BY <1>3 DEF Says
    <3>2. Silent(q, b, x, w)
      BY <2>5, <3>1, TakenFacts
    <3>3. Caught(s, b, x, w, km[<<x, w>>] = b, made)
      BY <2>5, <3>2 DEF MendsOf
    <3> QED BY <2>2, <3>3 DEF Caught
  <2> QED BY <1>1, <1>2, <2>1, <2>2, <2>3, <2>4, <2>5 DEF MendsOf
<1>4. CASE e.op = "delBridge"
  <2>1. e = BridgeEvent("delBridge", b) /\ b \notin kb
        /\ t = IF b \in s.known THEN BridgeCleanup(s, b, "none") ELSE s
    BY <1>2, <1>4 DEF Proper, Handle
  <2>2. Apart(s, t, b) /\ b \notin t.known /\ t.vid[b] \in Own(b)
    <3>1. CASE b \in s.known
      BY <1>1, <2>1, <3>1, CleanupApart, OwnFacts
    <3>2. CASE b \notin s.known
      BY <1>1, <2>1, <3>2 DEF Apart
    <3> QED BY <3>1, <3>2
  <2> QED BY <1>1, <2>1, <2>2 DEF MendsOf
<1>5. CASE e.op \in {"addPort", "delPort"}
  <2>1. PICK p, v, m : p = e.port /\ v = e.vid /\ m = ModeOf(v)
    OBVIOUS
  <2>2. p \in Ports /\ v \in Own(b) /\ v \in MaybeVid /\ m \in Modes
    BY <1>1, <1>2, <1>5, <2>1, ModeFacts DEF Proper, Event
  <2>3. MendsBut(b, s, r, kb, km, S, made, live, p, v)
    <3>1. MendsBut(b, s, r, kb, km, S, made, live, e.port, e.vid)
      BY <1>1, <1>5, TakenMendsBut
    <3> QED BY <2>1, <3>1
  <2>4. Silent(r, b, p, v) => (e.op = "addPort" <=> km[<<p, v>>] = b)
    <3>1. Agrees(q, b, p, v, km[<<p, v>>])
      BY <1>1, <2>2 DEF Logged
    <3>2. Says(Head(q), b, p, v)
      BY <1>1, <1>5, <2>1 DEF Says
    <3>3. PICK k : k = km[<<p, v>>]
      OBVIOUS
    <3>4. Agrees(q, b, p, v, k)
      BY <3>1, <3>3
    <3>5. q \in Seq(Event) /\ q # <<>> /\ r = Tail(q) /\ e = Head(q)
      BY <1>1
    <3>6. LastTells(Head(q), r, b, p, v, k)
      BY <3>4, <3>5, AgreesTaken
    <3> QED BY <3>2, <3>3, <3>5, <3>6 DEF LastTells
  <2>5. CASE e.op = "addPort"
    <3>1. b \in s.known /\ t = OnAddPort(s, b, p, v, "none")
      BY <2>1, <2>5 DEF Fatal, Handle
    <3>2. TakesPort(s, t, b, m, p)
      BY <2>1, <2>2, <3>1, OnAddPortAdds
    <3>3. Silent(r, b, p, v) => km[<<p, v>>] = b
      BY <2>4, <2>5
    <3>4. MendsOf(b, t, r, kb, km, S, made, live)
      BY <1>1, <2>1, <2>2, <2>3, <3>2, <3>3, TakesMends
    <3> QED BY <3>2, <3>4 DEF TakesPort
  <2>6. CASE e.op = "delPort"
    <3>1. t = OnDelPort(s, b, p, m, "none")
      BY <2>1, <2>6 DEF Handle
    <3>2. DropsPort(s, t, b, m, p)
      BY <1>1, <2>2, <3>1, OnDelPortDrops
    <3>3. Silent(r, b, p, v) => km[<<p, v>>] # b
      BY <2>4, <2>6
    <3>4. MendsOf(b, t, r, kb, km, S, made, live)
      BY <1>1, <2>1, <2>2, <2>3, <3>2, <3>3, DropsMends
    <3> QED BY <3>2, <3>4 DEF DropsPort, Touched
  <2> QED BY <1>5, <2>5, <2>6
<1> QED BY <1>1, <1>3, <1>4, <1>5

LEMMA EventFollows ==
  ASSUME OwnVid, TypeInv, Follows, VlanEvent("none") \/ VlanEventCrash
  PROVE  Follows'
<1>1. PICK q, e, s, t : q = queue /\ e = Head(queue) /\ s = nas /\ t = nas'
  OBVIOUS
<1>2. PICK r, b : r = Tail(q) /\ b = e.br
  OBVIOUS
<1>3. /\ q # <<>> /\ queue' = r /\ UNCHANGED <<kbridges, kmem, used, byCps>>
      /\ \/ ~Fatal(s, e) /\ t = Handle(s, e, "none") /\ alive' = alive
         \/ e.op = "addPort" /\ alive' = FALSE /\ t = s
  BY <1>1, <1>2 DEF VlanEvent, VlanEventCrash, Take, Fatal
<1>4. /\ s \in VlanState /\ used \in SUBSET Bridges /\ q \in Seq(Sound(used)) /\ q \in Seq(Event)
  BY <1>1 DEF TypeInv, TypeOK, KernelInv
<1>5. e \in Sound(used) /\ e = Head(q) /\ b \in Bridges /\ b \in used
  BY <1>1, <1>2, <1>3, <1>4, HeadTailProperties DEF Sound
<1>6. PICK kb, km, us, made : kb = kbridges /\ km = kmem /\ us = used /\ made = byCps
  OBVIOUS
<1>7. /\ made \subseteq us /\ Logged(q, kb, km)
      /\ \A c \in Bridges : MendsOf(c, s, q, kb, km, us, c \in made, alive)
      /\ \A c \in Bridges : s.vid[c] \in Own(c)
  BY <1>1, <1>6 DEF Follows, Mends, MendsOf
<1>8. Logged(r, kb, km)
  BY <1>2, <1>3, <1>4, <1>7, LoggedTaken
<1>9. \A c \in Bridges \ {b} : MendsOf(c, s, r, kb, km, us, c \in made, alive)
  <2> SUFFICES ASSUME NEW c \in Bridges \ {b}
               PROVE  MendsOf(c, s, r, kb, km, us, c \in made, alive)
    OBVIOUS
  <2>1. MendsOf(c, s, q, kb, km, us, c \in made, alive) /\ Head(q).br # c
    BY <1>2, <1>5, <1>7
  <2> QED BY <1>2, <1>3, <1>4, <2>1, TakenMends
<1>10. CASE ~Fatal(s, e) /\ t = Handle(s, e, "none") /\ alive' = alive
  <2>1. MendsOf(b, s, q, kb, km, us, b \in made, alive)
    BY <1>5, <1>7
  <2>2. us \in SUBSET Bridges /\ e \in Sound(us)
    BY <1>4, <1>5, <1>6
  <2>3. Apart(s, t, b) /\ MendsOf(b, t, r, kb, km, us, b \in made, alive)
    BY <1>2, <1>3, <1>4, <1>5, <1>7, <1>10, <2>1, <2>2, HandleMends
  <2>4. Mends(t, r, kb, km, us, made, alive)
    BY <1>5, <1>9, <2>3, OnlyOne
  <2> QED BY <1>1, <1>3, <1>6, <1>7, <1>8, <1>10, <2>4 DEF Follows
<1>11. CASE e.op = "addPort" /\ alive' = FALSE /\ t = s
  <2>1. MendsOf(b, s, q, kb, km, us, b \in made, alive)
    BY <1>5, <1>7
  <2>2. PICK p, v : p = e.port /\ v = e.vid
    OBVIOUS
  <2>3. MendsBut(b, s, r, kb, km, us, b \in made, alive, p, v)
    <3>1. b \in us /\ e = Head(q) /\ e.op \in {"addPort", "delPort"}
      BY <1>5, <1>6, <1>11
    <3>2. MendsBut(b, s, r, kb, km, us, b \in made, alive, e.port, e.vid)
      BY <1>2, <1>3, <1>4, <2>1, <3>1, TakenMendsBut
    <3> QED BY <2>2, <3>2
  <2>4. MendsOf(b, s, r, kb, km, us, b \in made, FALSE)
    BY <2>3 DEF MendsBut, MendsOf
  <2>5. \A c \in Bridges \ {b} : MendsOf(c, s, r, kb, km, us, c \in made, FALSE)
    BY <1>9 DEF MendsOf
  <2>6. Mends(s, r, kb, km, us, made, FALSE)
    BY <2>4, <2>5 DEF Mends
  <2> QED BY <1>1, <1>3, <1>6, <1>7, <1>8, <1>11, <2>6 DEF Follows
<1> QED BY <1>3, <1>10, <1>11

LEMMA FollowInit == Init => FollowInv
<1> SUFFICES ASSUME Init PROVE Follows
  BY DEF FollowInv
<1>1. /\ byCps = {} /\ kbridges = {} /\ queue = <<>> /\ nas.known = {}
      /\ kmem = [x \in Ports \X MaybeVid |-> None] /\ nas.npuVlans = {DefaultVlan}
      /\ nas.vid = [b \in Bridges |-> 0]
      /\ nas.list = [x \in Bridges \X Modes |-> {}] /\ nas.seen = [x \in Bridges \X Modes |-> {}]
      /\ nas.npu = [x \in Vids \X Modes |-> {}]
  BY DEF Init
<1>2. Logged(queue, kbridges, kmem)
  <2>1. \A b \in Bridges, p \in Ports, v \in MaybeVid : kmem[<<p, v>>] # b
    BY <1>1, NasVlanAssumption
  <2>2. \A b, p, v, x : Agrees(queue, b, p, v, x)
    BY <1>1, NoEvents
  <2>3. 1..Len(queue) = {}
    BY <1>1, EmptySeq
  <2> QED BY <2>1, <2>2, <2>3 DEF Logged, Ends
<1>3. ASSUME NEW b \in Bridges
      PROVE  MendsOf(b, nas, queue, kbridges, kmem, used, b \in byCps, alive)
  <2>1. Fresh(nas, b)
    BY <1>1, OwnFacts DEF Fresh
  <2>2. nas.vid[b] \in Own(b)
    BY <1>1, OwnFacts
  <2> QED BY <1>1, <2>1, <2>2 DEF MendsOf
<1> QED BY <1>1, <1>2, <1>3 DEF Follows, Mends

LEMMA FollowKeeps ==
  ASSUME OwnVid, TypeInv, FollowInv, [Next]_vars
  PROVE  FollowInv'
<1> SUFFICES ASSUME spent'.faults = 0 PROVE Follows'
  BY DEF FollowInv
<1>1. CASE CpsRequest
  <2>1. PICK b, want, f :
          /\ b \in Bridges
          /\ (\E v \in VidsOf[b] : CpsCreate(b, v, want, f)) \/ CpsSet(b, want) \/ CpsDelete(b, f)
    BY <1>1 DEF CpsRequest
  <2>2. CASE \E v \in VidsOf[b] : CpsCreate(b, v, want, f)
    <3>1. PICK v \in VidsOf[b] : CpsCreate(b, v, want, f)
      BY <2>2
    <3>2. f = "none" /\ Follows
      BY <3>1, FaultFree DEF CpsCreate, FollowInv
    <3> QED BY <2>1, <3>1, <3>2, CreateFollows
  <2>3. CASE CpsSet(b, want)
    <3>1. Follows
      BY <2>3, FaultFree DEF CpsSet, FollowInv
    <3> QED BY <2>3, <3>1 DEF CpsSet, Follows, kernel
  <2>4. CASE CpsDelete(b, f)
    <3>1. f = "none" /\ Follows
      BY <2>4, FaultFree DEF CpsDelete, FollowInv
    <3> QED BY <2>1, <2>4, <3>1, DeleteFollows
  <2> QED BY <2>1, <2>2, <2>3, <2>4
<1>2. CASE Serve
  <2>1. PICK w, f : CpsAddPort(w, f) \/ CpsDelPort(w, f)
    BY <1>2 DEF Serve
  <2>2. w \in Now /\ SpendFault(f)
    BY <2>1 DEF CpsAddPort, CpsDelPort
  <2>3. f = "none" /\ Follows
    BY <2>2, FaultFree DEF FollowInv
  <2> QED BY <2>1, <2>2, <2>3, AddFollows, DelFollows
<1>3. CASE EventThread
  <2>1. PICK f : VlanEventCrash \/ VlanEvent(f)
    BY <1>3 DEF EventThread
  <2>2. CASE VlanEventCrash
    <3>1. Follows
      BY <2>2, FaultFree DEF VlanEventCrash, Take, FollowInv
    <3> QED BY <2>2, <3>1, EventFollows
  <2>3. CASE VlanEvent(f)
    <3>1. f = "none" /\ Follows
      BY <2>3, FaultFree DEF VlanEvent, Take, FollowInv
    <3> QED BY <2>3, <3>1, EventFollows
  <2> QED BY <2>1, <2>2, <2>3
<1>4. CASE Other
  <2>1. SpendExternal
    BY <1>4 DEF Other, OtherCreate, OtherDelete, OtherJoin, OtherLeave
  <2>2. Follows
    BY <2>1, FaultFree DEF FollowInv
  <2> QED BY <1>4, <2>2, OtherFollows
<1>5. CASE UNCHANGED vars
  BY <1>5 DEF vars, FollowInv, Follows
<1> QED BY <1>1, <1>2, <1>3, <1>4, <1>5 DEF Next

(* Nothing is pending and no call failed.                                    *)
LEMMA QuietFollows ==
  ASSUME OwnVid, TypeInv, FollowInv, Quiet
  PROVE  /\ nas.known = kbridges
         /\ \A b \in nas.known : \A p \in Ports, v \in Own(b) :
              Caught(nas, b, p, v, kmem[<<p, v>>] = b, b \in byCps)
         /\ \A b \in nas.known \cap byCps : Programmed(nas, b)
         /\ \A b \in nas.known, p \in Ports, v \in MaybeVid : kmem[<<p, v>>] = b => v \in Own(b)
<1>1. Follows /\ queue = <<>> /\ alive /\ nas \in VlanState /\ kbridges \subseteq Bridges
  BY DEF FollowInv, Quiet, Settled, TypeInv, TypeOK
<1>2. \A b \in Bridges : MendsOf(b, nas, queue, kbridges, kmem, used, b \in byCps, alive)
  BY <1>1 DEF Follows, Mends
<1>3. /\ \A e : ~Has(queue, e)
      /\ \A b, p, v : Silent(queue, b, p, v)
  BY <1>1, NoEvents
<1>4. nas.known \subseteq Bridges
  BY <1>1 DEF VlanState
<1>5. \A b \in Bridges : b \in nas.known <=> b \in kbridges
  BY <1>2, <1>3 DEF MendsOf
<1>6. nas.known = kbridges
  BY <1>1, <1>4, <1>5
<1>7. \A b \in nas.known : \A p \in Ports, v \in Own(b) :
        Caught(nas, b, p, v, kmem[<<p, v>>] = b, b \in byCps)
  BY <1>1, <1>2, <1>3, <1>4, <1>6 DEF MendsOf
<1>8. \A b \in nas.known \cap byCps : Programmed(nas, b)
  BY <1>2, <1>4, <1>6 DEF MendsOf
<1>9. \A b \in nas.known, p \in Ports, v \in MaybeVid : kmem[<<p, v>>] = b => v \in Own(b)
  BY <1>1, <1>4 DEF Follows, Logged
<1> QED BY <1>6, <1>7, <1>8, <1>9

(* When each bridge is used with one VLAN id that no other has, the bridge   *)
(* table of nas_int_bridge.cpp ends with the bridges and the members the     *)
(* kernel has, however the requests of nas_vlan_cps.cpp, the events and      *)
(* other programs' changes interleave.                                       *)
THEOREM TableFollows ==
  ASSUME OwnVid
  PROVE  Spec => []FollowsKernel
<1>1. Init => TypeInv /\ FollowInv
  BY InitType, FollowInit
<1>2. (TypeInv /\ FollowInv) /\ [Next]_vars => (TypeInv /\ FollowInv)'
  BY NextKeeps, FollowKeeps DEF Keeps
<1>3. TypeInv /\ FollowInv => FollowsKernel
  <2> SUFFICES ASSUME TypeInv, FollowInv, Quiet
               PROVE  /\ nas.known = kbridges
                      /\ \A b \in nas.known, p \in Ports :
                           /\ kmem[p, 0] = b => p \in nas.list[b, "untagged"]
                           /\ \A v \in Vids : kmem[p, v] = b => p \in nas.list[b, "tagged"]
                           /\ b \in byCps =>
                                /\ p \in nas.list[b, "untagged"] => kmem[p, 0] = b
                                /\ p \in nas.list[b, "tagged"] => kmem[p, nas.vid[b]] = b
    BY DEF FollowsKernel
  <2>1. /\ nas.known = kbridges
        /\ \A b \in nas.known : \A p \in Ports, v \in Own(b) :
             Caught(nas, b, p, v, kmem[<<p, v>>] = b, b \in byCps)
        /\ \A b \in nas.known \cap byCps : Programmed(nas, b)
        /\ \A b \in nas.known, p \in Ports, v \in MaybeVid : kmem[<<p, v>>] = b => v \in Own(b)
    BY QuietFollows
  <2>2. ASSUME NEW b \in nas.known, NEW p \in Ports
        PROVE  /\ kmem[<<p, 0>>] = b => p \in nas.list[<<b, "untagged">>]
               /\ \A v \in Vids : kmem[<<p, v>>] = b => p \in nas.list[<<b, "tagged">>]
               /\ b \in byCps =>
                    /\ p \in nas.list[<<b, "untagged">>] => kmem[<<p, 0>>] = b
                    /\ p \in nas.list[<<b, "tagged">>] => kmem[<<p, nas.vid[b]>>] = b
    <3>1. b \in Bridges
      BY DEF TypeInv, TypeOK, VlanState
    <3>2. 0 \in Own(b) /\ ModeOf(0) = "untagged"
      BY <3>1, OwnFacts DEF ModeOf
    <3>3. Caught(nas, b, p, 0, kmem[<<p, 0>>] = b, b \in byCps)
      BY <2>1, <3>2
    <3>4. ASSUME NEW v \in Vids, kmem[<<p, v>>] = b PROVE p \in nas.list[<<b, "tagged">>]
      <4>1. v \in Own(b) /\ ModeOf(v) = "tagged"
        BY <2>1, <3>4, VidFacts DEF ModeOf
      <4>2. Caught(nas, b, p, v, kmem[<<p, v>>] = b, b \in byCps)
        BY <2>1, <4>1
      <4> QED BY <3>4, <4>1, <4>2 DEF Caught
    <3>5. ASSUME b \in byCps, p \in nas.list[<<b, "tagged">>] PROVE kmem[<<p, nas.vid[b]>>] = b
      <4>1. PICK v : v = nas.vid[b]
        OBVIOUS
      <4>2. v \in Own(b) /\ ModeOf(v) = "tagged"
        BY <2>1, <3>1, <3>5, <4>1, OwnFacts DEF Programmed, ModeOf, Own
      <4>3. Caught(nas, b, p, v, kmem[<<p, v>>] = b, b \in byCps)
        BY <2>1, <4>2
      <4> QED BY <3>5, <4>1, <4>2, <4>3 DEF Caught
    <3> QED BY <3>2, <3>3, <3>4, <3>5 DEF Caught
  <2> QED BY <2>1, <2>2
<1> QED BY <1>1, <1>2, <1>3, PTL DEF Spec

(* Under the same condition the NPU's VLANs and what subscribers of the      *)
(* bridge objects were told end with the members in the lists, for every     *)
(* bridge that nas_cps_create_vlan made.                                     *)
THEOREM NpuFollows ==
  ASSUME OwnVid
  PROVE  Spec => []NpuFollowsLists
<1>1. Init => TypeInv /\ FollowInv
  BY InitType, FollowInit
<1>2. (TypeInv /\ FollowInv) /\ [Next]_vars => (TypeInv /\ FollowInv)'
  BY NextKeeps, FollowKeeps DEF Keeps
<1>3. TypeInv /\ FollowInv => NpuFollowsLists
  <2>1. ASSUME TypeInv, FollowInv, Quiet PROVE \A b \in nas.known \cap byCps : Programmed(nas, b)
    BY <2>1, QuietFollows
  <2> QED BY <2>1 DEF NpuFollowsLists, Programmed
<1> QED BY <1>1, <1>2, <1>3, PTL DEF Spec

=============================================================================
