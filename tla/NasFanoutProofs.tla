-------------------------- MODULE NasFanoutProofs ---------------------------
(***************************************************************************)
(* Proofs about NasFanout, for any number of lanes, any scripts, bounds    *)
(* and failing calls, whichever scripts run at once: an interface is on a  *)
(* lane of the mode and has the mode's name; a script that says it created *)
(* the interfaces has; the transceiver's lanes follow the admin states.    *)
(***************************************************************************)
EXTENDS NasFanout, SequenceTheorems, FiniteSetTheorems, TLAPS

(* What a script holds between two steps. *)
Holds(s) ==
  /\ IsFiniteSet(s.listing)
  /\ s.pc = "make" => s.listing # {}
  /\ s.pc \in {"delete", "create"} => s.todo # <<>>
  /\ s.pc \in {"breakout", "wait"} => s.todo = <<>>

TypeInv == TypeOK /\ \A f \in Fanouts : Holds(fanout[f])
-----------------------------------------------------------------------------
(* Lanes, names and orders. *)

LEMMA LaneFacts ==
  /\ IsFiniteSet(Lanes) /\ 1 \in Lanes
  /\ \A l \in Lanes : l \in Nat /\ l >= 1
<1>1. Cardinality(Lanes) \in Nat
  BY NasFanoutAssumption, FS_CardinalityType
<1> QED BY <1>1, NasFanoutAssumption

LEMMA ModeLanes ==
  \A m \in Modes : LanesOf(m) \subseteq Lanes /\ LanesOf(m) # {} /\ IsFiniteSet(LanesOf(m))
<1>1. \A m \in Modes : LanesOf(m) \subseteq Lanes /\ LanesOf(m) # {}
  BY LaneFacts DEF LanesOf, Modes
<1> QED BY <1>1, LaneFacts, FS_Subset

LEMMA ItemType == \A l \in Lanes : ItemOf(l) \in Item /\ ItemOf(l).lane = l
BY LaneFacts DEF ItemOf, SubOf, Item

(* A list of a finite set, in any order, has its members and no others. *)
LEMMA OrderFacts ==
  ASSUME NEW S, IsFiniteSet(S), NEW order \in Orders(S)
  PROVE  /\ order \in Seq(S)
         /\ DOMAIN order = 1..Len(order)
         /\ \A k \in DOMAIN order : order[k] \in S
         /\ S # {} => 1 \in DOMAIN order
<1> DEFINE n == Cardinality(S)
<1>1. n \in Nat /\ (S # {} => n # 0)
  BY FS_CardinalityType, FS_EmptySet
<1>2. order \in [1..n -> S]
  BY DEF Orders, SetToSeqs
<1> HIDE DEF n
<1>3. order \in Seq(S) /\ Len(order) = n
  BY <1>1, <1>2, SeqDef, LenProperties
<1> QED BY <1>1, <1>2, <1>3

LEMMA ListingFacts ==
  ASSUME TypeOK
  PROVE  Listing \subseteq Item /\ IsFiniteSet(Listing)
<1> DEFINE on == {k \in Lanes : ifs[k].listed}
           entry == [l \in on |-> [lane |-> l, sub |-> ifs[l].sub]]
<1>1. Listing = {[lane |-> l, sub |-> ifs[l].sub] : l \in on}
  BY DEF Listing
<1>2. IsFiniteSet(on)
  BY LaneFacts, FS_Subset
<1>3. Listing \subseteq Item
  BY <1>1 DEF TypeOK, Interface, Item
<1>4. entry \in Surjection(on, Listing)
  BY <1>1 DEF Surjection
<1> HIDE DEF on, entry
<1> QED BY <1>2, <1>3, <1>4, FS_Surjection
-----------------------------------------------------------------------------
(* Requests. *)

(* A deletion leaves interfaces as they were, or not there. *)
LEMMA Deletion ==
  ASSUME TypeOK, NEW found, Deletes(found) \/ DeleteFails(found)
  PROVE  /\ ifs' \in [Lanes -> Interface]
         /\ spent' \in [{"runs", "others", "creates", "faults"} -> Nat]
         /\ \A l \in Lanes : ifs'[l].exists =>
              ifs[l].exists /\ ifs'[l].sub = ifs[l].sub /\ ifs'[l].index = ifs[l].index
<1>1. CASE Deletes(found)
  BY <1>1 DEF Deletes, TypeOK, Interface, NoInterface
<1>2. CASE found = {} /\ UNCHANGED <<ifs, spent>>
  BY <1>2 DEF TypeOK
<1>3. CASE /\ SpendFault("delete")
           /\ ifs' = [l \in Lanes |-> [ifs[l] EXCEPT !.listed = @ /\ l \notin found]]
  <2>1. spent' \in [{"runs", "others", "creates", "faults"} -> Nat]
    BY <1>3 DEF SpendFault, TypeOK
  <2>2. ASSUME NEW l \in Lanes
        PROVE  /\ ifs'[l] \in Interface /\ ifs'[l].exists = ifs[l].exists
               /\ ifs'[l].sub = ifs[l].sub /\ ifs'[l].index = ifs[l].index
    BY <1>3 DEF TypeOK, Interface
  <2> QED BY <1>3, <2>1, <2>2
<1> QED BY <1>1, <1>2, <1>3 DEF DeleteFails

(* A creation leaves the interfaces there are, and makes one on a lane that *)
(* has a port, if any; a late script's is noted in left.                    *)
LEMMA Creation ==
  ASSUME TypeOK, NEW p, NEW i \in Item, Creates(p, i) \/ CreateFails(p, i)
  PROVE  /\ ifs' \in [Lanes -> Interface]
         /\ spent' \in [{"runs", "others", "creates", "faults"} -> Nat]
         /\ history' \in History
         /\ history'.late = history.late /\ history.left \subseteq history'.left
         /\ \A l \in Lanes :
              \/ ifs'[l] = ifs[l]
              \/ /\ l = i.lane /\ l \in valid /\ ifs'[l].sub = i.sub
                 /\ p \in history.late => ifs'[l].index \in history'.left
<1>1. Index \in Nat /\ i.sub \in Nat /\ i.lane \in Lanes
  BY DEF Index, TypeOK, Item
<1>2. /\ New(i) \in Interface
      /\ New(i).sub = i.sub /\ New(i).index = Index
  BY <1>1 DEF New, Interface
<1>3. CASE UNCHANGED <<ifs, history>> /\ (UNCHANGED spent \/ SpendFault("create"))
  BY <1>3 DEF TypeOK, SpendFault
<1>4. CASE /\ Free(i) /\ ifs' = [ifs EXCEPT ![i.lane] = New(i)] /\ By(p)
           /\ \/ spent' = [spent EXCEPT !.creates = @ + 1]
              \/ spent' = [spent EXCEPT !.faults = @ + 1, !.creates = @ + 1]
  <2>1. spent' \in [{"runs", "others", "creates", "faults"} -> Nat]
    <3>1. spent.creates + 1 \in Nat /\ spent.faults + 1 \in Nat
      BY DEF TypeOK
    <3>2. CASE spent' = [spent EXCEPT !.creates = @ + 1]
      BY <3>1, <3>2 DEF TypeOK
    <3>3. CASE spent' = [spent EXCEPT !.faults = @ + 1, !.creates = @ + 1]
      BY <3>1, <3>3 DEF TypeOK
    <3> QED BY <1>4, <3>2, <3>3
  <2>2. /\ history' \in History /\ history'.late = history.late
        /\ history'.left = IF p \in history.late THEN history.left \cup {Index} ELSE history.left
    BY <1>1, <1>4 DEF By, TypeOK, History
  <2>3. ifs' \in [Lanes -> Interface]
    BY <1>1, <1>2, <1>4 DEF TypeOK
  <2>4. i.lane \in valid
    BY <1>4 DEF Free
  <2> QED BY <1>1, <1>2, <1>4, <2>1, <2>2, <2>3, <2>4 DEF TypeOK
<1> QED BY <1>3, <1>4 DEF Creates, CreateFails

LEMMA SpendType ==
  ASSUME TypeOK, NEW b \in {"runs", "others", "creates", "faults"}, Spend(b)
  PROVE  spent' \in [{"runs", "others", "creates", "faults"} -> Nat]
BY DEF Spend, TypeOK

(* The interfaces a request of nas_delete_interface.py finds. *)
LEMMA FoundLanes == ASSUME NEW r \in Remover, NEW l \in FoundFor(r) PROVE l \in Lanes
<1>1. \/ l \in {k \in Lanes : ifs[k].listed /\ ifs[k].index = r.index}
      \/ l \in Named(r.name)
      \/ l \in {k \in {r.name.lane} : ifs[k].listed} /\ r.name.lane \in Lanes
  BY DEF FoundFor, Remover, Item
<1> QED BY <1>1 DEF Named

(* A change of an admin state leaves lanes, names and indexes. *)
LEMMA AdminType ==
  ASSUME TypeOK, NEW l \in Lanes, NEW v \in BOOLEAN, Admin(l, v)
  PROVE  /\ ifs' \in [Lanes -> Interface] /\ events' \in Seq(Nat)
         /\ history' \in History
         /\ history'.late = history.late /\ history'.left = history.left
         /\ \A k \in Lanes : ifs'[k].exists = ifs[k].exists /\ ifs'[k].sub = ifs[k].sub
                             /\ ifs'[k].index = ifs[k].index
<1>1. ifs[l].index \in Nat
  BY DEF TypeOK, Interface
<1>2. events' \in Seq(Nat)
  BY <1>1 DEF Admin, TypeOK
<1>3. ifs' \in [Lanes -> Interface]
      /\ \A k \in Lanes : ifs'[k].exists = ifs[k].exists /\ ifs'[k].sub = ifs[k].sub
                          /\ ifs'[k].index = ifs[k].index
  BY DEF Admin, TypeOK, Interface
<1>4. /\ history' \in History
      /\ history'.late = history.late /\ history'.left = history.left
  BY <1>1 DEF Admin, TypeOK, History
<1> QED BY <1>2, <1>3, <1>4
-----------------------------------------------------------------------------
(* Types. *)

LEMMA InitType == Init => TypeInv
<1> SUFFICES ASSUME Init PROVE TypeInv
  OBVIOUS
<1>1. mode \in Modes /\ valid \subseteq LanesOf(mode)
  BY DEF Init
<1>2. ifs \in [Lanes -> Interface] /\ laser \in [Lanes -> BOOLEAN] /\ events \in Seq(Nat)
  BY DEF Init, NoInterface, Interface
<1>3. fanout \in [Fanouts -> Script] /\ \A f \in Fanouts : Holds(fanout[f])
  <2>1. <<>> \in Seq(Item) /\ {} \in SUBSET Item /\ IsFiniteSet({})
    BY EmptySeq, FS_EmptySet
  <2> DEFINE s == [pc |-> "idle", target |-> "whole", listing |-> {}, todo |-> <<>>,
                   result |-> "none"]
  <2>2. s \in Script /\ Holds(s)
    BY <2>1 DEF Script, Modes, Holds
  <2>3. fanout = [f \in Fanouts |-> s]
    BY DEF Init
  <2> HIDE DEF s
  <2> QED BY <2>2, <2>3
<1>4. boot \in Boot /\ remover \in Remover /\ monitor \in Monitor
  BY LaneFacts, EmptySeq DEF Init, BootDone, Removed, Waiting, Boot, Remover, Monitor, Item
<1>5. history \in History /\ spent \in [{"runs", "others", "creates", "faults"} -> Nat]
  BY DEF Init, History
<1> QED BY <1>1, <1>2, <1>3, <1>4, <1>5 DEF TypeInv, TypeOK

(* A script's step: its own record, well formed, takes the place of the old. *)
LEMMA ScriptType ==
  ASSUME TypeInv, NEW f \in Fanouts, NEW s \in Script, Holds(s), fanout' = [fanout EXCEPT ![f] = s]
  PROVE  fanout' \in [Fanouts -> Script] /\ \A g \in Fanouts : Holds(fanout'[g])
BY DEF TypeInv, TypeOK

LEMMA FinishScript ==
  ASSUME TypeInv, NEW f \in Fanouts, NEW result \in {"none", "created", "failed"},
         fanout' = Finish(f, result)
  PROVE  fanout' \in [Fanouts -> Script] /\ \A g \in Fanouts : Holds(fanout'[g])
<1> DEFINE s == [fanout[f] EXCEPT !.pc = "idle", !.todo = <<>>, !.listing = {}, !.result = result]
<1>1. s \in Script /\ Holds(s)
  <2>1. <<>> \in Seq(Item) /\ {} \in SUBSET Item /\ IsFiniteSet({})
    BY EmptySeq, FS_EmptySet
  <2>2. fanout[f] \in Script
    BY DEF TypeInv, TypeOK
  <2> QED BY <2>1, <2>2 DEF Script, Holds
<1>2. fanout' = [fanout EXCEPT ![f] = s]
  BY DEF Finish, TypeInv, TypeOK
<1> HIDE DEF s
<1> QED BY <1>1, <1>2, ScriptType

(* A name is made for a port that was listed, and joins those that were.   *)
LEMMA Appended ==
  ASSUME NEW S, NEW list \in Seq(S), NEW x \in S
  PROVE  LET longer == Append(list, x)
         IN /\ longer \in Seq(S) /\ longer # <<>>
            /\ \E k \in DOMAIN longer : longer[k] = x
            /\ \A k \in DOMAIN list : k \in DOMAIN longer /\ longer[k] = list[k]
            /\ \A k \in DOMAIN longer : longer[k] = x \/ (k \in DOMAIN list /\ longer[k] = list[k])
<1> DEFINE longer == Append(list, x)
<1>1. /\ longer \in Seq(S) /\ Len(longer) = Len(list) + 1 /\ Len(list) \in Nat
      /\ DOMAIN list = 1..Len(list) /\ DOMAIN longer = 1..Len(longer)
      /\ \A k \in 1..Len(list) : longer[k] = list[k]
      /\ longer[Len(list) + 1] = x
  BY AppendProperties, LenProperties
<1>2. longer # <<>>
  BY <1>1, EmptySeq
<1> HIDE DEF longer
<1> QED BY <1>1, <1>2

LEMMA MadeName ==
  ASSUME TypeInv, NEW f \in Fanouts, Make(f)
  PROVE  \E i \in fanout[f].listing, s \in Script :
           /\ i \in Item /\ ItemOf(i.lane) \in Item /\ ItemOf(i.lane).lane = i.lane
           /\ fanout[f].pc = "make" /\ fanout[f].todo \in Seq(Item)
           /\ fanout' = [fanout EXCEPT ![f] = s] /\ Holds(s)
           /\ s.target = fanout[f].target /\ s.result = fanout[f].result
           /\ s.todo = Append(fanout[f].todo, ItemOf(i.lane))
           /\ s.listing = IF fanout[f].target = "whole" THEN {} ELSE fanout[f].listing \ {i}
           /\ s.pc = IF s.listing = {} THEN "create" ELSE "make"
           /\ history' \in History /\ history'.left = history.left
           /\ history'.told = history.told /\ history'.undisturbed = history.undisturbed
           /\ history'.late = IF i.lane \in valid THEN history.late ELSE history.late \cup {f}
<1> DEFINE old == fanout[f]
<1>1. old \in Script /\ Holds(old) /\ history \in History /\ old.pc = "make"
  BY DEF TypeInv, TypeOK, Make
<1>2. PICK i \in old.listing :
        LET rest == IF old.target = "whole" THEN {} ELSE old.listing \ {i}
        IN /\ fanout' = [fanout EXCEPT ![f].todo = Append(@, ItemOf(i.lane)), ![f].listing = rest,
                           ![f].pc = IF rest = {} THEN "create" ELSE "make"]
           /\ NameMade(f, i.lane, history.late)
  BY DEF Make
<1>3. i \in Item /\ i.lane \in Lanes /\ old.todo \in Seq(Item) /\ old.listing \subseteq Item
  BY <1>1 DEF Script, Item
<1>4. ItemOf(i.lane) \in Item /\ ItemOf(i.lane).lane = i.lane
  BY <1>3, ItemType
<1> DEFINE rest == IF old.target = "whole" THEN {} ELSE old.listing \ {i}
           todo == Append(old.todo, ItemOf(i.lane))
           s == [old EXCEPT !.todo = todo, !.listing = rest,
                            !.pc = IF rest = {} THEN "create" ELSE "make"]
<1>5. rest \subseteq Item /\ IsFiniteSet(rest)
  BY <1>1, <1>3, FS_EmptySet, FS_Subset DEF Holds
<1>6. todo \in Seq(Item) /\ todo # <<>>
  BY <1>3, <1>4, Appended
<1>7. fanout' = [fanout EXCEPT ![f] = s]
  BY <1>2 DEF TypeInv, TypeOK
<1>8. /\ history' \in History /\ history'.left = history.left
      /\ history'.told = history.told /\ history'.undisturbed = history.undisturbed
      /\ history'.late = IF i.lane \in valid THEN history.late ELSE history.late \cup {f}
  BY <1>1, <1>2 DEF NameMade, History
<1> HIDE DEF todo
<1>9. /\ s \in Script /\ s.target = old.target /\ s.result = old.result
      /\ s.todo = todo /\ s.listing = rest
      /\ s.pc = IF rest = {} THEN "create" ELSE "make"
  BY <1>1, <1>5, <1>6 DEF Script
<1> HIDE DEF rest, s
<1>10. Holds(s)
  BY <1>5, <1>6, <1>9 DEF Holds
<1> QED BY <1>1, <1>3, <1>4, <1>7, <1>8, <1>9, <1>10 DEF todo, rest

LEMMA FanoutType ==
  ASSUME TypeInv, NEW f \in Fanouts, ScriptStep(f) \/ \E m \in Modes : Start(f, m)
  PROVE  TypeInv'
<1> USE DEF TypeInv
<1> DEFINE old == fanout[f]
<1>1. old \in Script /\ Holds(old)
  BY DEF TypeOK
<1>2. ASSUME NEW m \in Modes, Start(f, m) PROVE TypeInv'
  <2> DEFINE s == [pc |-> "ports", target |-> m, listing |-> Listing, todo |-> <<>>,
                   result |-> "none"]
  <2>1. s \in Script /\ Holds(s)
    BY ListingFacts, EmptySeq DEF Script, Holds
  <2>2. fanout' = [fanout EXCEPT ![f] = s]
    BY <1>2 DEF Start
  <2> HIDE DEF s
  <2>3. fanout' \in [Fanouts -> Script] /\ \A g \in Fanouts : Holds(fanout'[g])
    BY <2>1, <2>2, ScriptType
  <2>4. history' \in History
    BY <1>2 DEF Start, TypeOK, History
  <2> QED BY <1>2, <2>3, <2>4, SpendType DEF Start, TypeOK
<1>3. CASE ReadPorts(f)
  <2> DEFINE S == {i \in old.listing : i.lane \in valid}
  <2>1. fanout' \in [Fanouts -> Script] /\ \A g \in Fanouts : Holds(fanout'[g])
    <3>1. CASE fanout' = Finish(f, "none")
      BY <3>1, FinishScript
    <3>2. ASSUME NEW o \in Orders(S),
                 fanout' = [fanout EXCEPT ![f].todo = o,
                              ![f].pc = IF o = <<>> THEN "breakout" ELSE "delete"]
          PROVE  fanout' \in [Fanouts -> Script] /\ \A g \in Fanouts : Holds(fanout'[g])
      <4> DEFINE s == [old EXCEPT !.todo = o, !.pc = IF o = <<>> THEN "breakout" ELSE "delete"]
      <4>1. IsFiniteSet(S) /\ S \subseteq Item
        BY <1>1, FS_Subset DEF Holds, Script
      <4>2. o \in Seq(S)
        BY <4>1, OrderFacts
      <4>3. o \in Seq(Item)
        BY <4>1, <4>2, SeqMonotonic
      <4>4. s \in Script /\ Holds(s)
        BY <1>1, <4>3 DEF Script, Holds
      <4>5. fanout' = [fanout EXCEPT ![f] = s]
        BY <3>2 DEF TypeOK
      <4> HIDE DEF s
      <4> QED BY <4>4, <4>5, ScriptType
    <3>3. \/ fanout' = Finish(f, "none")
          \/ \E o \in Orders(S) :
               fanout' = [fanout EXCEPT ![f].todo = o,
                            ![f].pc = IF o = <<>> THEN "breakout" ELSE "delete"]
      BY <1>3, Zenon DEF ReadPorts
    <3> HIDE DEF S
    <3> QED BY <3>1, <3>2, <3>3
  <2> QED BY <1>3, <2>1 DEF ReadPorts, TypeOK
<1>4. CASE DeleteOld(f)
  <2>1. old.pc = "delete" /\ old.todo # <<>> /\ old.todo \in Seq(Item)
    BY <1>1, <1>4 DEF DeleteOld, Holds, Script
  <2>2. Tail(old.todo) \in Seq(Item) /\ <<>> \in Seq(Item)
    BY <2>1, HeadTailProperties, EmptySeq
  <2> DEFINE rest == Tail(old.todo)
             s == [old EXCEPT !.todo = rest, !.pc = IF rest = <<>> THEN "breakout" ELSE "delete"]
             e == [old EXCEPT !.todo = <<>>, !.pc = "breakout"]
  <2>3. s \in Script /\ Holds(s) /\ e \in Script /\ Holds(e)
    BY <1>1, <2>2 DEF Script, Holds
  <2>4. fanout' = [fanout EXCEPT ![f] = s] \/ fanout' = [fanout EXCEPT ![f] = e]
    BY <1>4 DEF DeleteOld, TypeOK
  <2> HIDE DEF s, e
  <2>5. fanout' \in [Fanouts -> Script] /\ \A g \in Fanouts : Holds(fanout'[g])
    BY <2>3, <2>4, ScriptType
  <2>6. Deletes(Named(Head(old.todo))) \/ DeleteFails(Named(Head(old.todo)))
    BY <1>4 DEF DeleteOld
  <2>7. history' \in History
    BY <1>4 DEF DeleteOld, Disturb, TypeOK, History
  <2> QED BY <1>4, <2>5, <2>6, <2>7, Deletion DEF DeleteOld, TypeOK
<1>5. CASE Breakout(f)
  <2> DEFINE s == [old EXCEPT !.pc = "wait"]
  <2>1. s \in Script /\ Holds(s)
    BY <1>1, <1>5 DEF Script, Holds, Breakout
  <2>2. fanout' = [fanout EXCEPT ![f] = s]
    BY <1>5 DEF Breakout, TypeOK
  <2> HIDE DEF s
  <2>3. fanout' \in [Fanouts -> Script] /\ \A g \in Fanouts : Holds(fanout'[g])
    BY <2>1, <2>2, ScriptType
  <2>4. mode' \in Modes /\ valid' \subseteq LanesOf(mode')
    BY <1>1, <1>5 DEF Breakout, Script
  <2>5. history' \in History
    <3>1. {ifs[l].index : l \in {k \in Lanes : ifs[k].exists}} \subseteq Nat
      BY DEF TypeOK, Interface
    <3>2. {f} \subseteq Fanouts
      OBVIOUS
    <3> QED BY <1>5, <3>1, <3>2 DEF Breakout, TypeOK, History
  <2> QED BY <1>5, <2>3, <2>4, <2>5 DEF Breakout, TypeOK
<1>6. CASE BreakoutFails(f)
  <2>1. fanout' \in [Fanouts -> Script] /\ \A g \in Fanouts : Holds(fanout'[g])
    BY <1>6, FinishScript DEF BreakoutFails
  <2>2. spent' \in [{"runs", "others", "creates", "faults"} -> Nat]
    <3>1. UNCHANGED spent \/ SpendFault("breakout")
      BY <1>6, Zenon DEF BreakoutFails
    <3> QED BY <3>1 DEF SpendFault, TypeOK
  <2> QED BY <1>6, <2>1, <2>2 DEF BreakoutFails, TypeOK
<1>7. CASE Wait(f)
  <2> DEFINE here == [lane : valid, sub : {0}]
             s == [old EXCEPT !.pc = "make", !.listing = here]
  <2>1. valid \subseteq Lanes /\ IsFiniteSet(valid)
    BY ModeLanes, LaneFacts, FS_Subset DEF TypeOK
  <2>2. valid # {}
    <3>1. Cardinality(LanesOf(old.target)) \in Nat /\ Cardinality(LanesOf(old.target)) # 0
      BY <1>1, ModeLanes, FS_CardinalityType, FS_EmptySet DEF Script
    <3>2. Cardinality(valid) >= Cardinality(LanesOf(old.target)) /\ Cardinality({}) = 0
      BY <1>7, FS_EmptySet DEF Wait, WaitForPorts
    <3> QED BY <3>1, <3>2
  <2>3. here \subseteq Item /\ here # {}
    <3>1. \A l \in valid : [lane |-> l, sub |-> 0] \in Item /\ [lane |-> l, sub |-> 0] \in here
      BY <2>1 DEF Item
    <3>2. \A h \in here : h \in Item
      BY <2>1 DEF Item
    <3> HIDE DEF here
    <3> QED BY <2>2, <3>1, <3>2
  <2>4. IsFiniteSet(here)
    <3> DEFINE at == [l \in valid |-> [lane |-> l, sub |-> 0]]
    <3>1. at \in Surjection(valid, here)
      BY DEF Surjection
    <3> HIDE DEF at, here
    <3> QED BY <2>1, <3>1, FS_Surjection
  <2>5. fanout' = [fanout EXCEPT ![f] = s]
    BY <1>7 DEF Wait, WaitForPorts, TypeOK
  <2> HIDE DEF here
  <2>6. s \in Script /\ Holds(s)
    BY <1>1, <1>7, <2>3, <2>4 DEF Script, Holds, Wait, WaitForPorts
  <2> HIDE DEF s
  <2>7. fanout' \in [Fanouts -> Script] /\ \A g \in Fanouts : Holds(fanout'[g])
    BY <2>5, <2>6, ScriptType
  <2>8. history' \in History
    BY <1>7 DEF Wait, WaitForPorts, TypeOK, History
  <2> QED BY <1>7, <2>7, <2>8 DEF Wait, WaitForPorts, TypeOK
<1>8. CASE Make(f)
  <2>1. PICK s \in Script : /\ fanout' = [fanout EXCEPT ![f] = s] /\ Holds(s)
                            /\ history' \in History
    BY <1>8, MadeName
  <2>2. fanout' \in [Fanouts -> Script] /\ \A g \in Fanouts : Holds(fanout'[g])
    BY <2>1, ScriptType
  <2> QED BY <1>8, <2>1, <2>2 DEF Make, TypeOK
<1>9. CASE CreateNew(f)
  <2>1. old.pc = "create" /\ old.todo # <<>> /\ old.todo \in Seq(Item)
    BY <1>1, <1>9 DEF CreateNew, Holds, Script
  <2>2. Head(old.todo) \in Item /\ Tail(old.todo) \in Seq(Item)
    BY <2>1, HeadTailProperties
  <2> DEFINE i == Head(old.todo)
             rest == Tail(old.todo)
             s == [old EXCEPT !.todo = rest]
  <2>3. Creates(f, i) \/ CreateFails(f, i)
    BY <1>9 DEF CreateNew
  <2>4. \/ fanout' = Finish(f, "created") \/ fanout' = Finish(f, "failed")
        \/ rest # <<>> /\ fanout' = [fanout EXCEPT ![f] = s]
    BY <1>9 DEF CreateNew, TypeOK
  <2>5. rest # <<>> => s \in Script /\ Holds(s)
    BY <1>1, <2>1, <2>2 DEF Script, Holds
  <2> HIDE DEF s
  <2>6. fanout' \in [Fanouts -> Script] /\ \A g \in Fanouts : Holds(fanout'[g])
    BY <2>4, <2>5, ScriptType, FinishScript
  <2>7. /\ ifs' \in [Lanes -> Interface] /\ history' \in History
        /\ spent' \in [{"runs", "others", "creates", "faults"} -> Nat]
    BY <2>2, <2>3, Creation
  <2> QED BY <1>9, <2>6, <2>7 DEF CreateNew, TypeOK
<1> QED BY <1>2, <1>3, <1>4, <1>5, <1>6, <1>7, <1>8, <1>9 DEF ScriptStep

LEMMA BootType ==
  ASSUME TypeInv, BootPorts \/ BootListing \/ BootMake \/ BootCreate
  PROVE  TypeInv'
<1> USE DEF TypeInv
<1>1. boot \in Boot
  BY DEF TypeOK
<1>2. CASE BootPorts
  <2>1. IsFiniteSet(valid) /\ valid \subseteq Lanes
    BY ModeLanes, LaneFacts, FS_Subset DEF TypeOK
  <2>2. \A found \in Orders(valid) : found \in Seq(Lanes)
    BY <2>1, OrderFacts, SeqMonotonic
  <2>3. \E found \in Orders(valid) : boot' = [boot EXCEPT !.pc = "listing", !.lanes = found]
    BY <1>2, Zenon DEF BootPorts
  <2>4. boot' \in Boot
    BY <1>1, <2>2, <2>3 DEF Boot
  <2> QED BY <1>2, <2>4, SpendType DEF BootPorts, TypeOK
<1>3. CASE BootListing
  <2>1. {i.sub : i \in Listing} \subseteq Nat
    BY ListingFacts DEF Item
  <2>2. boot' \in Boot
    BY <1>1, <1>3, <2>1 DEF BootListing, Boot
  <2> QED BY <1>3, <2>2 DEF BootListing, TypeOK
<1>4. CASE BootMake
  <2>1. boot.lanes # <<>> => Head(boot.lanes) \in Lanes /\ Tail(boot.lanes) \in Seq(Lanes)
    BY <1>1, HeadTailProperties DEF Boot
  <2>2. boot.lanes # <<>> => ItemOf(Head(boot.lanes)) \in Item
    BY <2>1, ItemType
  <2>3. history' \in History
    BY <1>4 DEF BootMake, NameMade, TypeOK, History
  <2>4. BootDone \in Boot
    BY LaneFacts, EmptySeq DEF BootDone, Boot, Item
  <2>5. boot.lanes # <<>> => /\ [boot EXCEPT !.lanes = Tail(@)] \in Boot
                             /\ [boot EXCEPT !.lanes = Tail(@), !.pc = "create",
                                             !.item = ItemOf(Head(boot.lanes))] \in Boot
    BY <1>1, <2>1, <2>2 DEF Boot
  <2>6. boot' \in Boot
    BY <1>4, <2>4, <2>5 DEF BootMake
  <2> QED BY <1>4, <2>3, <2>6 DEF BootMake, TypeOK
<1>5. CASE BootCreate
  <2>1. boot.item \in Item /\ boot' \in Boot
    BY <1>1, <1>5, LaneFacts DEF BootCreate, BootDone, Boot, Item
  <2>2. Creates("boot", boot.item) \/ CreateFails("boot", boot.item)
    BY <1>5 DEF BootCreate
  <2>3. /\ ifs' \in [Lanes -> Interface] /\ history' \in History
        /\ spent' \in [{"runs", "others", "creates", "faults"} -> Nat]
    BY <2>1, <2>2, Creation
  <2> QED BY <1>5, <2>1, <2>3 DEF BootCreate, TypeOK
<1> QED BY <1>2, <1>3, <1>4, <1>5

LEMMA OthersType ==
  ASSUME TypeInv,
         \/ RemoveDown \/ RemoveDelete \/ MonitorTake \/ MonitorMode \/ MonitorTransceiver
         \/ \E l \in Lanes : PortAppears(l) \/ RemoveStart(l) \/ \E v \in BOOLEAN : SetAdmin(l, v)
  PROVE  TypeInv'
<1> USE DEF TypeInv
<1>1. remover \in Remover /\ monitor \in Monitor
  BY DEF TypeOK
<1>2. CASE RemoveDown
  <2>1. remover' \in Remover
    <3>1. Removed \in Remover
      BY LaneFacts DEF Removed, Remover, Item
    <3>2. [remover EXCEPT !.pc = "delete"] \in Remover
      BY <1>1 DEF Remover
    <3> QED BY <1>2, <3>1, <3>2 DEF RemoveDown
  <2>2. CASE UNCHANGED <<ifs, events, history>>
    BY <1>2, <2>1, <2>2 DEF RemoveDown, TypeOK
  <2>3. CASE \E l \in FoundFor(remover) : Admin(l, FALSE)
    <3>1. ifs' \in [Lanes -> Interface] /\ events' \in Seq(Nat) /\ history' \in History
      BY <1>1, <2>3, FoundLanes, AdminType
    <3> QED BY <1>2, <2>1, <3>1 DEF RemoveDown, TypeOK
  <2> QED BY <1>2, <2>2, <2>3 DEF RemoveDown
<1>3. CASE RemoveDelete
  <2>1. remover' \in Remover
    BY <1>1, <1>3, LaneFacts DEF RemoveDelete, Removed, Remover, Item
  <2>2. history' \in History
    BY <1>3 DEF RemoveDelete, TypeOK, History
  <2>3. Deletes(FoundFor(remover)) \/ DeleteFails(FoundFor(remover))
    BY <1>3 DEF RemoveDelete
  <2> QED BY <1>3, <2>1, <2>2, <2>3, Deletion DEF RemoveDelete, TypeOK
<1>4. CASE MonitorTake
  <2>1. events' \in Seq(Nat)
    BY <1>4, HeadTailProperties DEF MonitorTake, TypeOK
  <2>2. \A l \in Lanes : ifs[l].enabled \in BOOLEAN
    BY DEF TypeOK, Interface
  <2>3. \/ UNCHANGED monitor
        \/ \E l \in Lanes : monitor' = [monitor EXCEPT !.pc = "mode", !.lane = l,
                                                       !.enable = ifs[l].enabled]
    BY <1>4 DEF MonitorTake
  <2>4. monitor' \in Monitor
    BY <1>1, <2>2, <2>3 DEF Monitor
  <2> QED BY <1>4, <2>1, <2>4 DEF MonitorTake, TypeOK
<1>5. CASE MonitorMode
  <2>1. monitor' \in Monitor
    BY <1>1, <1>5, LaneFacts DEF MonitorMode, Waiting, Monitor
  <2> QED BY <1>5, <2>1 DEF MonitorMode, TypeOK
<1>6. CASE MonitorTransceiver
  <2>1. monitor' \in Monitor
    BY <1>1, <1>6, LaneFacts DEF MonitorTransceiver, Waiting, Monitor
  <2>2. laser' \in [Lanes -> BOOLEAN]
    BY <1>1, <1>6 DEF MonitorTransceiver, Monitor, TypeOK
  <2> QED BY <1>6, <2>1, <2>2 DEF MonitorTransceiver, TypeOK
<1>7. ASSUME NEW l \in Lanes, PortAppears(l) PROVE TypeInv'
  BY <1>7 DEF PortAppears, TypeOK
<1>8. ASSUME NEW l \in Lanes, RemoveStart(l) PROVE TypeInv'
  <2>1. remover' \in Remover
    BY <1>8 DEF RemoveStart, Remover, Item, TypeOK, Interface
  <2> QED BY <1>8, <2>1, SpendType DEF RemoveStart, TypeOK
<1>9. ASSUME NEW l \in Lanes, NEW v \in BOOLEAN, SetAdmin(l, v) PROVE TypeInv'
  <2>1. ifs' \in [Lanes -> Interface] /\ events' \in Seq(Nat) /\ history' \in History
    BY <1>9, AdminType DEF SetAdmin
  <2> QED BY <1>9, <2>1, SpendType DEF SetAdmin, TypeOK
<1> QED BY <1>2, <1>3, <1>4, <1>5, <1>6, <1>7, <1>8, <1>9

LEMMA TypeNext == TypeInv /\ [Next]_vars => TypeInv'
<1>1. TypeInv /\ UNCHANGED vars => TypeInv'
  BY DEF TypeInv, TypeOK, vars
<1> QED BY <1>1, FanoutType, BootType, OthersType DEF Next

(* Every variable keeps its type; a script creates and deletes only while  *)
(* it has something left to create or delete.                              *)
THEOREM TypeCorrect == Spec => []TypeOK
<1>1. TypeInv => TypeOK
  BY DEF TypeInv
<1> QED BY <1>1, InitType, TypeNext, PTL DEF Spec
-----------------------------------------------------------------------------
(* Interfaces and ports. *)

(* The names a process holds are of the mode unless it is late. *)
NamesFit ==
  /\ \A f \in Fanouts : fanout[f].pc \in {"make", "create"} /\ f \notin history.late =>
       \A k \in DOMAIN fanout[f].todo : fanout[f].todo[k].sub = SubOf(mode, fanout[f].todo[k].lane)
  /\ boot.pc = "create" /\ "boot" \notin history.late =>
       boot.item.sub = SubOf(mode, boot.item.lane)

Fitting == InterfacesFitPorts /\ NamesFit

(* While mode and interfaces stay, but for what is deleted, all fit still. *)
LEMMA StillFit ==
  ASSUME InterfacesFitPorts, mode' = mode, history.left \subseteq history'.left,
         \A l \in Lanes : ifs'[l].exists =>
           ifs[l].exists /\ ifs'[l].sub = ifs[l].sub /\ ifs'[l].index = ifs[l].index
  PROVE  InterfacesFitPorts'
BY DEF InterfacesFitPorts

(* What a process that is not late creates fits. *)
LEMMA CreationFits ==
  ASSUME TypeOK, InterfacesFitPorts, mode' = mode, NEW p, NEW i \in Item,
         Creates(p, i) \/ CreateFails(p, i),
         p \notin history.late => i.sub = SubOf(mode, i.lane)
  PROVE  InterfacesFitPorts'
<1>1. /\ history.left \subseteq history'.left
      /\ \A l \in Lanes :
           \/ ifs'[l] = ifs[l]
           \/ /\ l = i.lane /\ l \in valid /\ ifs'[l].sub = i.sub
              /\ p \in history.late => ifs'[l].index \in history'.left
  BY Creation
<1>2. valid \subseteq LanesOf(mode)
  BY DEF TypeOK
<1> QED BY <1>1, <1>2 DEF InterfacesFitPorts

(* Names are kept by all that changes neither them, nor the mode, nor who  *)
(* is late.                                                                *)
LEMMA NamesStay ==
  ASSUME NamesFit, mode' = mode, history'.late = history.late, boot' = boot, fanout' = fanout
  PROVE  NamesFit'
BY DEF NamesFit

LEMMA FanoutFits ==
  ASSUME TypeInv, Fitting, NEW f \in Fanouts, ScriptStep(f) \/ \E m \in Modes : Start(f, m)
  PROVE  Fitting'
<1> USE DEF TypeInv, Fitting
<1> DEFINE old == fanout[f]
           Items(s) == \A k \in DOMAIN s.todo : s.todo[k].sub = SubOf(mode, s.todo[k].lane)
<1>1. old \in Script /\ Holds(old) /\ f # "boot"
  BY NasFanoutAssumption DEF TypeOK
(* What becomes of the names when a script's record changes. *)
<1>2. ASSUME mode' = mode, boot' = boot, NEW s, fanout' = [fanout EXCEPT ![f] = s],
             history'.late \ {f} = history.late \ {f},
             s.pc \in {"make", "create"} /\ f \notin history'.late => Items(s)
      PROVE  NamesFit'
  <2>1. ASSUME NEW g \in Fanouts, fanout'[g].pc \in {"make", "create"}, g \notin history'.late
        PROVE  \A k \in DOMAIN fanout'[g].todo :
                 fanout'[g].todo[k].sub = SubOf(mode', fanout'[g].todo[k].lane)
    <3>1. CASE g = f
      BY <1>2, <2>1, <3>1 DEF TypeOK
    <3>2. CASE g # f
      BY <1>2, <2>1, <3>2 DEF TypeOK, NamesFit
    <3> QED BY <3>1, <3>2
  <2>2. "boot" \notin history'.late => "boot" \notin history.late
    BY <1>1, <1>2
  <2> QED BY <1>2, <2>1, <2>2 DEF NamesFit
<1>3. ASSUME mode' = mode, boot' = boot, NEW s, fanout' = [fanout EXCEPT ![f] = s],
             history'.late = history.late, s.pc \notin {"make", "create"}
      PROVE  NamesFit'
  BY <1>2, <1>3
<1>4. ASSUME NEW result, fanout' = Finish(f, result)
      PROVE  \E s : fanout' = [fanout EXCEPT ![f] = s] /\ s.pc = "idle"
  <2> DEFINE s == [old EXCEPT !.pc = "idle", !.todo = <<>>, !.listing = {}, !.result = result]
  <2>1. fanout' = [fanout EXCEPT ![f] = s] /\ s.pc = "idle"
    BY <1>1, <1>4 DEF Finish, TypeOK, Script
  <2> QED BY <2>1
<1> HIDE DEF Items
<1>5. ASSUME NEW m \in Modes, Start(f, m) PROVE Fitting'
  <2>1. PICK s : fanout' = [fanout EXCEPT ![f] = s] /\ s.pc = "ports"
    <3> DEFINE s == [pc |-> "ports", target |-> m, listing |-> Listing, todo |-> <<>>,
                     result |-> "none"]
    <3>1. fanout' = [fanout EXCEPT ![f] = s] /\ s.pc = "ports"
      BY <1>5 DEF Start
    <3> HIDE DEF s
    <3> QED BY <3>1
  <2>2. history'.late = history.late /\ history'.left = history.left
    BY <1>5 DEF Start, TypeOK, History
  <2> QED BY <1>3, <1>5, <2>1, <2>2, StillFit DEF Start
<1>6. CASE ReadPorts(f)
  <2>1. CASE fanout' = Finish(f, "none")
    BY <1>3, <1>4, <1>6, <2>1, StillFit DEF ReadPorts
  <2>2. ASSUME NEW o, fanout' = [fanout EXCEPT ![f].todo = o,
                                   ![f].pc = IF o = <<>> THEN "breakout" ELSE "delete"]
        PROVE  Fitting'
    <3> DEFINE s == [old EXCEPT !.todo = o, !.pc = IF o = <<>> THEN "breakout" ELSE "delete"]
    <3>1. fanout' = [fanout EXCEPT ![f] = s] /\ s.pc \notin {"make", "create"}
      BY <1>1, <2>2 DEF TypeOK, Script
    <3> HIDE DEF s
    <3> QED BY <1>3, <1>6, <3>1, StillFit DEF ReadPorts
  <2>3. \/ fanout' = Finish(f, "none")
        \/ \E o : fanout' = [fanout EXCEPT ![f].todo = o,
                               ![f].pc = IF o = <<>> THEN "breakout" ELSE "delete"]
    BY <1>6, Zenon DEF ReadPorts
  <2> QED BY <2>1, <2>2, <2>3
<1>7. CASE DeleteOld(f)
  <2> DEFINE s == [old EXCEPT !.todo = Tail(old.todo),
                     !.pc = IF Tail(old.todo) = <<>> THEN "breakout" ELSE "delete"]
             e == [old EXCEPT !.todo = <<>>, !.pc = "breakout"]
  <2>1. fanout' = [fanout EXCEPT ![f] = s] \/ fanout' = [fanout EXCEPT ![f] = e]
    BY <1>7 DEF DeleteOld, TypeOK
  <2>2. s.pc \notin {"make", "create"} /\ e.pc \notin {"make", "create"}
    BY <1>1 DEF Script
  <2> HIDE DEF s, e
  <2>3. history'.late = history.late /\ history'.left = history.left /\ mode' = mode /\ boot' = boot
    BY <1>7 DEF DeleteOld, Disturb, TypeOK, History
  <2>4. NamesFit'
    BY <1>3, <2>1, <2>2, <2>3
  <2>5. Deletes(Named(Head(old.todo))) \/ DeleteFails(Named(Head(old.todo)))
    BY <1>7 DEF DeleteOld
  <2> QED BY <2>3, <2>4, <2>5, Deletion, StillFit
<1>8. CASE Breakout(f)
  <2>1. /\ history'.left = history.left \cup {ifs[l].index : l \in {k \in Lanes : ifs[k].exists}}
        /\ history'.late = {g \in Fanouts : fanout[g].pc \in {"make", "create"}
                                            /\ fanout[g].todo # <<>>}
                           \cup {p \in {"boot"} : boot.pc = "create"}
    BY <1>8 DEF Breakout, TypeOK, History
  <2>2. InterfacesFitPorts'
    BY <1>8, <2>1 DEF Breakout, InterfacesFitPorts
  <2>3. ASSUME NEW g \in Fanouts, fanout'[g].pc \in {"make", "create"}, g \notin history'.late
        PROVE  DOMAIN fanout'[g].todo = {}
    <3>1. g # f /\ fanout'[g] = fanout[g]
      BY <1>1, <1>8, <2>3 DEF Breakout, TypeOK, Script
    <3>2. fanout[g].todo = <<>>
      BY <2>1, <2>3, <3>1
    <3> QED BY <3>1, <3>2
  <2>4. boot'.pc = "create" => "boot" \in history'.late
    BY <1>8, <2>1 DEF Breakout
  <2> QED BY <2>2, <2>3, <2>4 DEF NamesFit
<1>9. CASE BreakoutFails(f)
  BY <1>3, <1>4, <1>9, StillFit DEF BreakoutFails
<1>10. CASE Wait(f)
  <2> DEFINE s == [old EXCEPT !.pc = "make", !.listing = [lane : valid, sub : {0}]]
  <2>1. /\ fanout' = [fanout EXCEPT ![f] = s]
        /\ UNCHANGED <<mode, ifs, boot>>
        /\ history'.left = history.left /\ history'.late = history.late \ {f}
    BY <1>1, <1>10 DEF Wait, WaitForPorts, TypeOK, History
  <2>2. s.todo = <<>>
    BY <1>1, <1>10 DEF Wait, WaitForPorts, Script, Holds
  <2> HIDE DEF s
  <2>3. Items(s)
    BY <2>2 DEF Items
  <2> QED BY <1>2, <2>1, <2>3, StillFit
<1>11. CASE Make(f)
  <2>1. PICK i \in old.listing, s \in Script :
          /\ ItemOf(i.lane) \in Item /\ old.pc = "make" /\ old.todo \in Seq(Item)
          /\ fanout' = [fanout EXCEPT ![f] = s]
          /\ s.todo = Append(old.todo, ItemOf(i.lane))
          /\ history'.left = history.left
          /\ history'.late = IF i.lane \in valid THEN history.late ELSE history.late \cup {f}
    BY <1>11, MadeName
  <2>2. mode' = mode /\ boot' = boot /\ ifs' = ifs
    BY <1>11 DEF Make
  <2>3. ASSUME f \notin history'.late PROVE Items(s)
    <3>1. i.lane \in valid /\ f \notin history.late
      BY <2>1, <2>3
    <3>2. Items(old)
      BY <2>1, <3>1 DEF NamesFit, Items
    <3>3. ItemOf(i.lane).sub = SubOf(mode, ItemOf(i.lane).lane)
      BY <3>1 DEF ItemOf
    <3>4. \A k \in DOMAIN s.todo : \/ s.todo[k] = ItemOf(i.lane)
                                   \/ k \in DOMAIN old.todo /\ s.todo[k] = old.todo[k]
      BY <2>1, Appended
    <3> QED BY <3>2, <3>3, <3>4 DEF Items
  <2>4. history'.late \ {f} = history.late \ {f}
    BY <2>1
  <2>5. NamesFit'
    BY <1>2, <2>1, <2>2, <2>3, <2>4
  <2> QED BY <2>1, <2>2, <2>5, StillFit
<1>12. CASE CreateNew(f)
  <2> DEFINE i == Head(old.todo)
             rest == Tail(old.todo)
             s == [old EXCEPT !.todo = rest]
  <2>1. old.pc = "create" /\ old.todo # <<>> /\ old.todo \in Seq(Item)
    BY <1>1, <1>12 DEF CreateNew, Holds, Script
  <2>2. /\ i \in Item /\ i = old.todo[1] /\ 1 \in DOMAIN old.todo
        /\ rest \in Seq(Item) /\ Len(rest) = Len(old.todo) - 1
        /\ \A k \in 1..Len(rest) : rest[k] = old.todo[k+1]
    BY <2>1, HeadTailProperties, LenProperties, EmptySeq
  <2>3. Creates(f, i) \/ CreateFails(f, i)
    BY <1>12 DEF CreateNew
  <2>4. history'.late = history.late /\ mode' = mode /\ boot' = boot
    BY <1>12, <2>2, <2>3, Creation DEF CreateNew
  <2>5. f \notin history.late => Items(old)
    BY <2>1 DEF NamesFit, Items
  <2>6. f \notin history.late => i.sub = SubOf(mode, i.lane)
    BY <2>2, <2>5 DEF Items
  <2>7. InterfacesFitPorts'
    BY <2>2, <2>3, <2>4, <2>6, CreationFits
  <2>8. Items(old) => Items(s)
    <3>1. s.todo = rest
      BY <1>1 DEF Script
    <3>2. DOMAIN rest = 1..Len(rest) /\ DOMAIN old.todo = 1..Len(old.todo)
          /\ Len(rest) \in Nat /\ Len(old.todo) \in Nat
      BY <2>1, <2>2, LenProperties
    <3> HIDE DEF rest, s
    <3>3. \A k \in DOMAIN rest : k + 1 \in DOMAIN old.todo /\ rest[k] = old.todo[k+1]
      BY <2>2, <3>2
    <3> QED BY <3>1, <3>3 DEF Items
  <2>9. \/ fanout' = Finish(f, "created") \/ fanout' = Finish(f, "failed")
        \/ fanout' = [fanout EXCEPT ![f] = s]
    BY <1>12 DEF CreateNew, TypeOK
  <2> HIDE DEF s
  <2>10. NamesFit'
    BY <1>2, <1>3, <1>4, <2>4, <2>5, <2>8, <2>9
  <2> QED BY <2>7, <2>10
<1> QED BY <1>5, <1>6, <1>7, <1>8, <1>9, <1>10, <1>11, <1>12 DEF ScriptStep

LEMMA BootFits ==
  ASSUME TypeInv, Fitting, BootPorts \/ BootListing \/ BootMake \/ BootCreate
  PROVE  Fitting'
<1> USE DEF TypeInv, Fitting
<1>1. boot \in Boot /\ "boot" \notin Fanouts
  BY NasFanoutAssumption DEF TypeOK
(* What becomes of the names when the record changes. *)
<1>2. ASSUME mode' = mode, fanout' = fanout, history'.late \ {"boot"} = history.late \ {"boot"},
             boot'.pc = "create" /\ "boot" \notin history'.late =>
               boot'.item.sub = SubOf(mode, boot'.item.lane)
      PROVE  NamesFit'
  <2>1. \A g \in Fanouts : g \in history'.late <=> g \in history.late
    BY <1>1, <1>2
  <2> QED BY <1>2, <2>1 DEF NamesFit
<1>3. CASE BootPorts
  <2>1. boot'.pc = "listing"
    BY <1>1, <1>3 DEF BootPorts, Boot
  <2> QED BY <1>2, <1>3, <2>1, StillFit DEF BootPorts
<1>4. CASE BootListing
  <2>1. boot'.pc = "make"
    BY <1>1, <1>4 DEF BootListing, Boot
  <2> QED BY <1>2, <1>4, <2>1, StillFit DEF BootListing
<1>5. CASE BootMake
  <2>1. /\ history'.left = history.left
        /\ history'.late \ {"boot"} = history.late \ {"boot"}
        /\ boot.lanes # <<>> /\ "boot" \notin history'.late => Head(boot.lanes) \in valid
    BY <1>5 DEF BootMake, NameMade, TypeOK, History
  <2>2. boot'.pc = "create" =>
          boot.lanes # <<>> /\ boot'.item = ItemOf(Head(boot.lanes))
    BY <1>1, <1>5 DEF BootMake, BootDone, Boot
  <2>3. boot'.pc = "create" /\ "boot" \notin history'.late =>
          boot'.item.sub = SubOf(mode, boot'.item.lane)
    BY <2>1, <2>2 DEF ItemOf
  <2>4. mode' = mode /\ fanout' = fanout /\ ifs' = ifs
    BY <1>5 DEF BootMake
  <2> QED BY <1>2, <2>1, <2>3, <2>4, StillFit
<1>6. CASE BootCreate
  <2>1. boot.pc = "create" /\ boot.item \in Item /\ boot'.pc = "make"
    BY <1>1, <1>6 DEF BootCreate, Boot
  <2>2. Creates("boot", boot.item) \/ CreateFails("boot", boot.item)
    BY <1>6 DEF BootCreate
  <2>3. history'.late = history.late /\ mode' = mode /\ fanout' = fanout
    BY <1>6, <2>1, <2>2, Creation DEF BootCreate
  <2>4. InterfacesFitPorts'
    BY <2>1, <2>2, <2>3, CreationFits DEF NamesFit
  <2> QED BY <1>2, <2>1, <2>3, <2>4
<1> QED BY <1>3, <1>4, <1>5, <1>6

LEMMA OthersFit ==
  ASSUME TypeInv, Fitting,
         \/ RemoveDown \/ RemoveDelete \/ MonitorTake \/ MonitorMode \/ MonitorTransceiver
         \/ \E l \in Lanes : PortAppears(l) \/ RemoveStart(l) \/ \E v \in BOOLEAN : SetAdmin(l, v)
  PROVE  Fitting'
<1> USE DEF TypeInv, Fitting
<1>1. remover \in Remover
  BY DEF TypeOK
<1>2. mode' = mode /\ boot' = boot /\ fanout' = fanout
  BY DEF RemoveDown, RemoveDelete, MonitorTake, MonitorMode, MonitorTransceiver, PortAppears,
         RemoveStart, SetAdmin
<1>3. CASE UNCHANGED <<ifs, history>>
  BY <1>2, <1>3, StillFit, NamesStay
<1>4. ASSUME NEW l \in Lanes, NEW v \in BOOLEAN, Admin(l, v) PROVE Fitting'
  <2>1. /\ history'.late = history.late /\ history'.left = history.left
        /\ \A k \in Lanes : ifs'[k].exists = ifs[k].exists /\ ifs'[k].sub = ifs[k].sub
                            /\ ifs'[k].index = ifs[k].index
    BY <1>4, AdminType
  <2> QED BY <1>2, <2>1, StillFit, NamesStay
<1>5. CASE RemoveDelete
  <2>1. history'.late = history.late /\ history'.left = history.left
    BY <1>5 DEF RemoveDelete, TypeOK, History
  <2>2. Deletes(FoundFor(remover)) \/ DeleteFails(FoundFor(remover))
    BY <1>5 DEF RemoveDelete
  <2> QED BY <1>2, <2>1, <2>2, Deletion, StillFit, NamesStay
<1>6. \/ UNCHANGED <<ifs, history>> \/ RemoveDelete
      \/ \E l \in Lanes, v \in BOOLEAN : Admin(l, v)
  BY <1>1, FoundLanes DEF RemoveDown, MonitorTake, MonitorMode, MonitorTransceiver, PortAppears,
                          RemoveStart, SetAdmin
<1> QED BY <1>3, <1>4, <1>5, <1>6

(* An interface is on a lane of the mode and has the name the mode gives it, *)
(* whichever scripts run at once and whichever of their requests fail,       *)
(* unless a breakout found it there or its script made a name before the     *)
(* breakout or while its port was gone.                                      *)
THEOREM InterfacesFit == Spec => []InterfacesFitPorts
<1>1. Init => Fitting
  BY DEF Init, Fitting, InterfacesFitPorts, NamesFit, NoInterface, BootDone
<1>2. TypeInv /\ Fitting /\ UNCHANGED vars => Fitting'
  BY DEF Fitting, InterfacesFitPorts, NamesFit, vars
<1>3. TypeInv /\ Fitting /\ [Next]_vars => Fitting'
  BY <1>2, FanoutFits, BootFits, OthersFit DEF Next
<1>4. Fitting => InterfacesFitPorts
  BY DEF Fitting
<1> QED BY <1>1, <1>3, <1>4, InitType, TypeNext, PTL DEF Spec
-----------------------------------------------------------------------------
(* The transceiver's lanes. *)

(* An ifindex is given once, and an admin state is announced only of an    *)
(* interface there was.  What no breakout found and no late script made    *)
(* has its port.                                                           *)
IndexInv ==
  /\ \A l \in Lanes : ifs[l].exists => ifs[l].index <= spent.creates
  /\ \A l, k \in Lanes : ifs[l].exists /\ ifs[k].exists /\ ifs[l].index = ifs[k].index => l = k
  /\ \A n \in history.told : n <= spent.creates
  /\ \A l \in Lanes : /\ ifs[l].listed => ifs[l].exists
                      /\ ifs[l].exists /\ ifs[l].index \notin history.left => l \in valid

Told(l) == Fits(l) /\ ifs[l].index \in history.told \ history.left

LanesUnder(l) == IF mode = "whole" THEN Lanes ELSE {l}

(* The interface thread will hear of it, or is about to set its lanes, or  *)
(* they are set and what the thread is about to do is not about them.      *)
Announced(l) == \E i \in DOMAIN events : events[i] = ifs[l].index

Setting(l) ==
  /\ monitor.lane = l /\ monitor.enable = ifs[l].enabled
  /\ \/ monitor.pc = "mode"
     \/ monitor.pc = "transceiver" /\ (mode = "whole" => monitor.all)

Settled(l) ==
  /\ \A k \in LanesUnder(l) : laser[k] = ifs[l].enabled
  /\ monitor.pc # "wait" => monitor.lane # l
  /\ monitor.pc = "transceiver" => ~monitor.all /\ mode = "split"

LaserInv == \A l \in Lanes : Told(l) => Announced(l) \/ Setting(l) \/ Settled(l)
-----------------------------------------------------------------------------
(* sonic-config-fanout's promise. *)

(* The item of a lane, by the mode. *)
ModeItem(l) == [lane |-> l, sub |-> SubOf(mode, l)]

(* A script that nobody disturbed since its breakout: the mode is its own, *)
(* it makes names for all lanes of the mode, one by one, and a lane whose  *)
(* name it does not hold any more has its interface.                       *)
Undisturbed(f) ==
  /\ mode = fanout[f].target
  /\ fanout[f].pc \in {"wait", "make", "create", "idle"}
  /\ fanout[f].pc = "make" =>
       /\ valid = LanesOf(mode)
       /\ \A i \in fanout[f].listing : i.lane \in LanesOf(mode)
       /\ \A l \in LanesOf(mode) :
            \/ \E i \in fanout[f].listing : i.lane = l
            \/ \E k \in DOMAIN fanout[f].todo : fanout[f].todo[k] = ModeItem(l)
  /\ fanout[f].pc = "create" => \A l \in LanesOf(mode) :
       Fits(l) \/ \E k \in DOMAIN fanout[f].todo : fanout[f].todo[k] = ModeItem(l)
  /\ fanout[f].result = "created" => \A l \in LanesOf(mode) : Fits(l)

PromiseInv ==
  /\ \A f \in Fanouts : fanout[f].pc # "idle" => fanout[f].result = "none"
  /\ \A f \in history.undisturbed : Undisturbed(f)


(* The steps but for breakouts, admin changes and the interface thread:    *)
(* they leave interfaces as they were, or go, or make one on a free lane.  *)
Shrunk ==
  \A l \in Lanes : \/ ifs'[l] = ifs[l]
                   \/ ~ifs'[l].listed /\ ~ifs'[l].exists
                   \/ /\ ~ifs'[l].listed /\ ifs'[l].exists = ifs[l].exists
                      /\ ifs'[l].index = ifs[l].index

Besides == UNCHANGED <<mode, laser, events, monitor>> /\ history'.told = history.told

Aside ==
  /\ Besides /\ Shrunk /\ valid \subseteq valid'
  /\ history'.left = history.left /\ spent'.creates = spent.creates

Makes(i) ==
  /\ Free(i) /\ ifs' = [ifs EXCEPT ![i.lane] = New(i)]
  /\ history.left \subseteq history'.left /\ spent'.creates = spent.creates + 1

AdminStep(l, v) ==
  /\ ifs[l].listed /\ Admin(l, v) /\ UNCHANGED <<mode, valid, laser, monitor>>
  /\ spent'.creates = spent.creates

LEMMA DeletionShrinks ==
  ASSUME TypeOK, NEW found, Deletes(found) \/ DeleteFails(found)
  PROVE  Shrunk /\ spent'.creates = spent.creates
<1>1. CASE Deletes(found)
  BY <1>1 DEF Deletes, TypeOK, NoInterface, Shrunk
<1>2. CASE found = {} /\ UNCHANGED <<ifs, spent>>
  BY <1>2 DEF Shrunk
<1>3. CASE /\ SpendFault("delete")
           /\ ifs' = [l \in Lanes |-> [ifs[l] EXCEPT !.listed = @ /\ l \notin found]]
  <2>1. spent'.creates = spent.creates
    BY <1>3 DEF SpendFault, TypeOK
  <2>2. ASSUME NEW l \in Lanes
        PROVE  /\ ifs'[l].exists = ifs[l].exists /\ ifs'[l].index = ifs[l].index
               /\ ifs'[l] = ifs[l] \/ ~ifs'[l].listed
    <3>1. ifs'[l] = [ifs[l] EXCEPT !.listed = @ /\ l \notin found] /\ ifs[l] \in Interface
      BY <1>3 DEF TypeOK
    <3>2. CASE l \in found
      BY <3>1, <3>2 DEF Interface
    <3>3. CASE l \notin found
      <4>1. ifs'[l] = [ifs[l] EXCEPT !.listed = ifs[l].listed]
        BY <3>1, <3>3 DEF Interface
      <4> QED BY <3>1, <4>1 DEF Interface
    <3> QED BY <3>2, <3>3
  <2> QED BY <2>1, <2>2 DEF Shrunk
<1> QED BY <1>1, <1>2, <1>3 DEF DeleteFails

LEMMA CreationMakes ==
  ASSUME TypeOK, NEW p, NEW i \in Item, Creates(p, i) \/ CreateFails(p, i)
  PROVE  /\ history'.told = history.told
         /\ history'.undisturbed = history.undisturbed
         /\ Makes(i) \/ (Shrunk /\ history'.left = history.left /\ spent'.creates = spent.creates)
         /\ Creates(p, i) => Makes(i)
<1>1. CASE UNCHANGED <<ifs, history>> /\ (UNCHANGED spent \/ SpendFault("create"))
                                      /\ CreateFails(p, i) /\ ~Creates(p, i)
  BY <1>1 DEF SpendFault, TypeOK, Shrunk
<1>2. CASE /\ Free(i) /\ ifs' = [ifs EXCEPT ![i.lane] = New(i)] /\ By(p)
           /\ \/ spent' = [spent EXCEPT !.creates = @ + 1]
              \/ spent' = [spent EXCEPT !.faults = @ + 1, !.creates = @ + 1]
  <2>1. history'.told = history.told /\ history'.undisturbed = history.undisturbed
        /\ history.left \subseteq history'.left
    BY <1>2 DEF By, TypeOK, History
  <2>2. spent'.creates = spent.creates + 1
    BY <1>2 DEF TypeOK
  <2> QED BY <1>2, <2>1, <2>2 DEF Makes
<1>3. CASE Creates(p, i)
  BY <1>2, <1>3 DEF Creates
<1> QED BY <1>1, <1>2, <1>3 DEF CreateFails

(* What each step is. *)
LEMMA Kinds ==
  ASSUME TypeInv, [Next]_vars
  PROVE  \/ Aside
         \/ \E i \in Item : Makes(i) /\ Besides /\ UNCHANGED valid
         \/ \E f \in Fanouts : Breakout(f)
         \/ \E l \in Lanes, v \in BOOLEAN : AdminStep(l, v)
         \/ MonitorTake \/ MonitorMode \/ MonitorTransceiver
<1> USE DEF TypeInv
<1>0. /\ history \in History /\ spent \in [{"runs", "others", "creates", "faults"} -> Nat]
      /\ boot \in Boot /\ remover \in Remover /\ fanout \in [Fanouts -> Script]
  BY DEF TypeOK
<1>1. ASSUME UNCHANGED <<mode, ifs, laser, events, monitor>>, valid \subseteq valid',
             history'.told = history.told, history'.left = history.left,
             spent'.creates = spent.creates
      PROVE  Aside
  BY <1>1 DEF Aside, Besides, Shrunk
<1>2. ASSUME NEW p, NEW i \in Item, Creates(p, i) \/ CreateFails(p, i),
             UNCHANGED <<mode, valid, laser, events, monitor>>
      PROVE  Aside \/ (Makes(i) /\ Besides /\ UNCHANGED valid)
  <2>1. /\ history'.told = history.told
        /\ Makes(i) \/ (Shrunk /\ history'.left = history.left /\ spent'.creates = spent.creates)
    BY <1>2, CreationMakes
  <2> QED BY <1>2, <2>1 DEF Aside, Besides
<1>3. ASSUME NEW found, Deletes(found) \/ DeleteFails(found),
             UNCHANGED <<mode, valid, laser, events, monitor>>,
             history'.told = history.told, history'.left = history.left
      PROVE  Aside
  BY <1>3, DeletionShrinks DEF Aside, Besides
<1>4. CASE UNCHANGED vars
  BY <1>1, <1>4 DEF vars
<1>5. ASSUME NEW f \in Fanouts, NEW m \in Modes, Start(f, m) PROVE Aside
  <2>1. spent'.creates = spent.creates /\ history'.told = history.told
        /\ history'.left = history.left
    BY <1>0, <1>5 DEF Start, Spend, History
  <2> QED BY <1>1, <1>5, <2>1 DEF Start
<1>6. ASSUME NEW f \in Fanouts, ReadPorts(f) \/ Wait(f) \/ BreakoutFails(f) PROVE Aside
  <2>1. spent'.creates = spent.creates
    BY <1>0, <1>6 DEF ReadPorts, Wait, WaitForPorts, BreakoutFails, SpendFault
  <2>2. history'.told = history.told /\ history'.left = history.left
    BY <1>0, <1>6 DEF ReadPorts, Wait, WaitForPorts, BreakoutFails, History
  <2> QED BY <1>1, <1>6, <2>1, <2>2 DEF ReadPorts, Wait, WaitForPorts, BreakoutFails
<1>7. ASSUME NEW f \in Fanouts, Make(f) PROVE Aside
  <2>1. history'.told = history.told /\ history'.left = history.left
    BY <1>7, MadeName
  <2> QED BY <1>1, <1>7, <2>1 DEF Make
<1>8. ASSUME NEW f \in Fanouts, DeleteOld(f) PROVE Aside
  <2>1. history'.told = history.told /\ history'.left = history.left
    BY <1>0, <1>8 DEF DeleteOld, Disturb, History
  <2>2. \E found : Deletes(found) \/ DeleteFails(found)
    BY <1>8 DEF DeleteOld
  <2> QED BY <1>3, <1>8, <2>1, <2>2 DEF DeleteOld
<1>9. ASSUME NEW f \in Fanouts, CreateNew(f)
      PROVE  Aside \/ \E i \in Item : Makes(i) /\ Besides /\ UNCHANGED valid
  <2>1. fanout[f].todo \in Seq(Item) /\ fanout[f].todo # <<>>
    BY <1>0, <1>9 DEF CreateNew, Holds, Script
  <2>2. Head(fanout[f].todo) \in Item
    BY <2>1, HeadTailProperties
  <2>3. /\ Creates(f, Head(fanout[f].todo)) \/ CreateFails(f, Head(fanout[f].todo))
        /\ UNCHANGED <<mode, valid, laser, events, monitor>>
    BY <1>9 DEF CreateNew
  <2> QED BY <1>2, <2>2, <2>3
<1>10. CASE BootPorts \/ BootListing \/ BootMake
  <2>1. spent'.creates = spent.creates
    BY <1>0, <1>10 DEF BootPorts, BootListing, BootMake, Spend
  <2>2. history'.told = history.told /\ history'.left = history.left
    BY <1>0, <1>10 DEF BootPorts, BootListing, BootMake, NameMade, History
  <2> QED BY <1>1, <1>10, <2>1, <2>2 DEF BootPorts, BootListing, BootMake
<1>11. CASE BootCreate
  <2>1. boot.item \in Item
    BY <1>0 DEF Boot
  <2>2. /\ Creates("boot", boot.item) \/ CreateFails("boot", boot.item)
        /\ UNCHANGED <<mode, valid, laser, events, monitor>>
    BY <1>11 DEF BootCreate
  <2> QED BY <1>2, <2>1, <2>2
<1>12. CASE RemoveDown
  <2>1. CASE UNCHANGED <<ifs, events, history>>
    BY <1>1, <1>12, <2>1 DEF RemoveDown
  <2>2. ASSUME NEW l \in FoundFor(remover), Admin(l, FALSE) PROVE AdminStep(l, FALSE) /\ l \in Lanes
    <3>1. ifs[l].listed /\ l \in Lanes
      <4>1. \/ l \in {k \in Lanes : ifs[k].listed /\ ifs[k].index = remover.index}
            \/ l \in Named(remover.name)
            \/ l \in {k \in {remover.name.lane} : ifs[k].listed} /\ remover.name.lane \in Lanes
        BY <1>0 DEF FoundFor, Remover, Item
      <4> QED BY <4>1 DEF Named
    <3> QED BY <1>12, <2>2, <3>1 DEF RemoveDown, AdminStep
  <2> QED BY <1>12, <2>1, <2>2 DEF RemoveDown
<1>13. CASE RemoveDelete
  <2>1. history'.told = history.told /\ history'.left = history.left
    BY <1>0, <1>13 DEF RemoveDelete, History
  <2>2. Deletes(FoundFor(remover)) \/ DeleteFails(FoundFor(remover))
    BY <1>13 DEF RemoveDelete
  <2> QED BY <1>3, <1>13, <2>1, <2>2 DEF RemoveDelete
<1>14. ASSUME NEW l \in Lanes, PortAppears(l) \/ RemoveStart(l) PROVE Aside
  <2>1. spent'.creates = spent.creates
    BY <1>0, <1>14 DEF PortAppears, RemoveStart, Spend
  <2> QED BY <1>1, <1>14, <2>1 DEF PortAppears, RemoveStart
<1>15. ASSUME NEW l \in Lanes, NEW v \in BOOLEAN, SetAdmin(l, v) PROVE AdminStep(l, v)
  BY <1>0, <1>15 DEF SetAdmin, AdminStep, Spend
<1> QED BY <1>4, <1>5, <1>6, <1>7, <1>8, <1>9, <1>10, <1>11, <1>12, <1>13, <1>14, <1>15
        DEF Next, ScriptStep

LEMMA IndexNext == TypeInv /\ IndexInv /\ [Next]_vars => IndexInv'
<1> SUFFICES ASSUME TypeInv, IndexInv, [Next]_vars PROVE IndexInv'
  OBVIOUS
<1> USE DEF TypeInv
<1>0. /\ history \in History /\ ifs \in [Lanes -> Interface] /\ spent.creates \in Nat
  BY DEF TypeOK
<1>1. CASE Aside
  BY <1>1 DEF Aside, Besides, Shrunk, IndexInv
<1>2. ASSUME NEW i \in Item, Makes(i), Besides, UNCHANGED valid PROVE IndexInv'
  <2>1. /\ New(i).exists /\ New(i).index = spent.creates + 1
        /\ i.lane \in Lanes /\ i.lane \in valid
    BY <1>2 DEF New, Index, Item, Makes, Free
  <2>2. /\ ifs'[i.lane] = New(i) /\ \A k \in Lanes : k # i.lane => ifs'[k] = ifs[k]
        /\ spent'.creates = spent.creates + 1
    BY <1>0, <1>2, <2>1 DEF Makes
  <2>3. \A l \in Lanes : ifs[l].index \in Nat
    BY <1>0 DEF Interface
  <2>4. \A n \in history.told : n \in Nat
    BY <1>0 DEF History
  <2>5. history'.told = history.told /\ history.left \subseteq history'.left /\ valid' = valid
    BY <1>2 DEF Besides, Makes
  <2> QED BY <1>0, <2>1, <2>2, <2>3, <2>4, <2>5 DEF IndexInv
<1>3. ASSUME NEW f \in Fanouts, Breakout(f) PROVE IndexInv'
  <2>1. /\ ifs' = ifs /\ spent' = spent /\ history'.told = history.told
        /\ \A l \in Lanes : ifs[l].exists => ifs[l].index \in history'.left
    BY <1>0, <1>3 DEF Breakout, History
  <2> QED BY <2>1 DEF IndexInv
<1>4. ASSUME NEW l \in Lanes, NEW v \in BOOLEAN, AdminStep(l, v) PROVE IndexInv'
  <2>1. \A k \in Lanes : /\ ifs'[k].exists = ifs[k].exists /\ ifs'[k].index = ifs[k].index
                         /\ ifs'[k].listed = ifs[k].listed
    BY <1>0, <1>4 DEF AdminStep, Admin, Interface
  <2>2. history'.told = history.told \cup {ifs[l].index} /\ history'.left = history.left
    BY <1>0, <1>4 DEF AdminStep, Admin, History
  <2>3. ifs[l].listed /\ valid' = valid /\ spent'.creates = spent.creates
    BY <1>4 DEF AdminStep
  <2> QED BY <2>1, <2>2, <2>3 DEF IndexInv
<1>5. CASE MonitorTake \/ MonitorMode \/ MonitorTransceiver
  BY <1>5 DEF MonitorTake, MonitorMode, MonitorTransceiver, IndexInv
<1> QED BY <1>1, <1>2, <1>3, <1>4, <1>5, Kinds



(* A step that keeps what the interface thread is doing, and the lanes, and *)
(* leaves an interface that was announced before as it was.                *)
LEMMA LaserKept ==
  ASSUME NEW l, Announced(l) \/ Setting(l) \/ Settled(l),
         ifs'[l] = ifs[l], mode' = mode, monitor' = monitor, laser' = laser,
         \A i \in DOMAIN events : i \in DOMAIN events' /\ events'[i] = events[i]
  PROVE  (Announced(l) \/ Setting(l) \/ Settled(l))'
<1>1. Announced(l) => Announced(l)'
  BY DEF Announced
<1>2. Setting(l) => Setting(l)'
  BY DEF Setting
<1>3. Settled(l) => Settled(l)'
  <2>1. LanesUnder(l)' = LanesUnder(l)
    BY DEF LanesUnder
  <2> QED BY <2>1 DEF Settled
<1> QED BY <1>1, <1>2, <1>3

LEMMA LaserNext == TypeInv /\ IndexInv /\ LaserInv /\ [Next]_vars => LaserInv'
<1> SUFFICES ASSUME TypeInv, IndexInv, LaserInv, [Next]_vars, NEW l \in Lanes, Told(l)'
             PROVE  (Announced(l) \/ Setting(l) \/ Settled(l))'
  BY DEF LaserInv
<1> USE DEF TypeInv
<1>0. /\ history \in History /\ ifs \in [Lanes -> Interface] /\ spent.creates \in Nat
      /\ monitor \in Monitor /\ events \in Seq(Nat)
      /\ ifs[l].index \in Nat /\ \A n \in history.told : n \in Nat
  BY DEF TypeOK, Interface, History
<1>1. Told(l) => Announced(l) \/ Setting(l) \/ Settled(l)
  BY DEF LaserInv
<1>2. ifs'[l].listed /\ ifs'[l].index \in history'.told \ history'.left
  BY DEF Told, Fits
<1>3. ASSUME Told(l) PROVE ifs[l].listed /\ ifs[l].exists /\ l \in valid
  BY <1>3 DEF Told, Fits, IndexInv
<1>4. CASE Aside
  <2>1. ifs'[l] = ifs[l]
    BY <1>2, <1>4 DEF Aside, Shrunk
  <2>2. Told(l)
    BY <1>4, <2>1 DEF Aside, Besides, Told, Fits
  <2> QED BY <1>1, <1>4, <2>1, <2>2, LaserKept DEF Aside, Besides
<1>5. ASSUME NEW i \in Item, Makes(i), Besides PROVE (Announced(l) \/ Setting(l) \/ Settled(l))'
  <2>1. l # i.lane
    <3>1. New(i).index = spent.creates + 1
      BY DEF New, Index
    <3>2. spent.creates + 1 \notin history.told
      BY <1>0 DEF IndexInv
    <3>3. l = i.lane => ifs'[l] = New(i)
      BY <1>0, <1>5 DEF Makes
    <3> QED BY <1>2, <1>5, <3>1, <3>2, <3>3 DEF Besides
  <2>2. ifs'[l] = ifs[l]
    BY <1>0, <1>5, <2>1 DEF Makes
  <2>3. Told(l)
    BY <1>5, <2>2 DEF Makes, Besides, Told, Fits
  <2> QED BY <1>1, <1>5, <2>2, <2>3, LaserKept DEF Besides
<1>6. ASSUME NEW f \in Fanouts, Breakout(f) PROVE FALSE
  <2>1. ifs' = ifs /\ \A k \in Lanes : ifs[k].exists => ifs[k].index \in history'.left
    BY <1>0, <1>6 DEF Breakout, History
  <2> QED BY <1>2, <2>1 DEF IndexInv
<1>7. ASSUME NEW k \in Lanes, NEW v \in BOOLEAN, AdminStep(k, v)
      PROVE  (Announced(l) \/ Setting(l) \/ Settled(l))'
  <2>1. /\ events' = Append(events, ifs[k].index)
        /\ history'.told = history.told \cup {ifs[k].index} /\ history'.left = history.left
        /\ mode' = mode /\ laser' = laser /\ monitor' = monitor /\ ifs[k].listed
    BY <1>0, <1>7 DEF AdminStep, Admin, History
  <2>2. \A j \in Lanes : ifs'[j].index = ifs[j].index /\ (j # k => ifs'[j] = ifs[j])
    BY <1>0, <1>7 DEF AdminStep, Admin, Interface
  <2>3. /\ DOMAIN events = 1..Len(events) /\ DOMAIN Append(events, ifs[k].index) = 1..(Len(events) + 1)
        /\ Len(events) \in Nat
        /\ \A i \in 1..Len(events) : Append(events, ifs[k].index)[i] = events[i]
        /\ Append(events, ifs[k].index)[Len(events) + 1] = ifs[k].index
    <3>1. ifs[k].index \in Nat
      BY <1>0 DEF Interface
    <3> QED BY <1>0, <3>1, AppendProperties, LenProperties
  <2>4. CASE l = k
    <3>1. Len(events) + 1 \in DOMAIN events' /\ events'[Len(events) + 1] = ifs'[l].index
      BY <2>1, <2>2, <2>3, <2>4
    <3> QED BY <3>1 DEF Announced
  <2>5. CASE l # k
    <3>1. ifs'[l] = ifs[l]
      BY <2>2, <2>5
    <3>2. ifs[l].index # ifs[k].index
      BY <1>2, <2>1, <2>5, <3>1 DEF IndexInv
    <3>3. Told(l)
      BY <2>1, <3>1, <3>2 DEF Told, Fits
    <3>4. \A i \in DOMAIN events : i \in DOMAIN events' /\ events'[i] = events[i]
      BY <2>1, <2>3
    <3> QED BY <1>1, <2>1, <3>1, <3>3, <3>4, LaserKept
  <2> QED BY <2>4, <2>5
<1>8. CASE MonitorTake
  <2>1. PICK es \in Seq(Nat) : es = events /\ es # <<>>
    BY <1>0, <1>8 DEF MonitorTake
  <2>2. /\ DOMAIN es = 1..Len(es) /\ DOMAIN Tail(es) = 1..Len(Tail(es))
        /\ Len(Tail(es)) = Len(es) - 1 /\ Len(es) \in Nat /\ Head(es) = es[1]
        /\ \A i \in 1..Len(Tail(es)) : Tail(es)[i] = es[i + 1]
    BY <2>1, HeadTailProperties, LenProperties
  <2>3. /\ UNCHANGED <<mode, valid, ifs, laser, history>> /\ monitor.pc = "wait"
        /\ events' = Tail(es)
        /\ LET found == {k \in Lanes : ifs[k].listed /\ ifs[k].index = Head(es)}
           IN \/ found = {} /\ monitor' = monitor
              \/ \E k \in found : /\ monitor'.pc = "mode" /\ monitor'.lane = k
                                  /\ monitor'.enable = ifs[k].enabled
    BY <1>0, <1>8, <2>1 DEF MonitorTake, Monitor
  <2>4. Told(l)
    BY <2>3 DEF Told, Fits
  <2>5. \A k \in Lanes : ifs[k].listed /\ ifs[k].index = ifs[l].index => k = l
    BY <1>3, <2>4 DEF IndexInv
  <2>6. CASE Announced(l)
    <3>1. PICK i \in 1..Len(es) : es[i] = ifs[l].index
      BY <2>1, <2>2, <2>6 DEF Announced
    <3>2. CASE i = 1
      <4>1. /\ monitor'.pc = "mode" /\ monitor'.lane = l /\ monitor'.enable = ifs[l].enabled
        BY <1>3, <2>2, <2>3, <2>4, <2>5, <3>1, <3>2
      <4> QED BY <2>3, <4>1 DEF Setting
    <3>3. CASE i # 1
      <4>1. i - 1 \in 1..Len(Tail(es)) /\ (i - 1) + 1 = i
        BY <2>2, <3>1, <3>3
      <4>2. Tail(es)[i - 1] = es[i]
        BY <2>2, <4>1
      <4> QED BY <2>2, <2>3, <3>1, <4>1, <4>2 DEF Announced
    <3> QED BY <3>2, <3>3
  <2>7. CASE Settled(l)
    <3>1. LanesUnder(l)' = LanesUnder(l)
      BY <2>3 DEF LanesUnder
    <3>2. CASE monitor' = monitor
      BY <2>3, <2>7, <3>1, <3>2 DEF Settled
    <3>3. ASSUME NEW k \in Lanes, monitor'.pc = "mode", monitor'.lane = k,
                 monitor'.enable = ifs[k].enabled
          PROVE  (Setting(l) \/ Settled(l))'
      <4>1. CASE k = l
        BY <2>3, <3>3, <4>1 DEF Setting
      <4>2. CASE k # l
        BY <2>3, <2>7, <3>1, <3>3, <4>2 DEF Settled
      <4> QED BY <4>1, <4>2
    <3> QED BY <2>3, <3>2, <3>3
  <2>8. ~Setting(l)
    BY <2>3 DEF Setting
  <2> QED BY <1>1, <2>4, <2>6, <2>7, <2>8
<1>9. CASE MonitorMode
  <2>1. /\ UNCHANGED <<mode, valid, ifs, laser, events, history>> /\ monitor.pc = "mode"
        /\ IF monitor.lane \notin valid THEN monitor'.pc = "wait"
           ELSE /\ monitor'.pc = "transceiver" /\ (monitor'.all <=> mode = "whole")
                /\ monitor'.lane = monitor.lane /\ monitor'.enable = monitor.enable
    BY <1>0, <1>9 DEF MonitorMode, Waiting, Monitor
  <2>2. Told(l) /\ l \in valid
    <3>1. Told(l)
      BY <2>1 DEF Told, Fits
    <3> QED BY <1>3, <3>1
  <2>3. Announced(l) => Announced(l)'
    BY <2>1 DEF Announced
  <2>4. Setting(l) => Setting(l)'
    BY <2>1, <2>2 DEF Setting
  <2>5. ASSUME Settled(l) PROVE Settled(l)'
    <3>1. LanesUnder(l)' = LanesUnder(l)
      BY <2>1 DEF LanesUnder
    <3>2. monitor.lane # l
      BY <2>1, <2>5 DEF Settled
    <3>3. monitor.lane \in valid => mode = "split"
      BY <2>2, <3>2 DEF TypeOK, LanesOf, Modes
    <3> QED BY <2>1, <2>5, <3>1, <3>2, <3>3 DEF Settled
  <2> QED BY <1>1, <2>2, <2>3, <2>4, <2>5
<1>10. CASE MonitorTransceiver
  <2>1. /\ UNCHANGED <<mode, valid, ifs, events, history>> /\ monitor.pc = "transceiver"
        /\ monitor'.pc = "wait"
        /\ \A k \in Lanes : laser'[k] = IF monitor.all \/ k = monitor.lane
                                        THEN monitor.enable ELSE laser[k]
    BY <1>0, <1>10 DEF MonitorTransceiver, Waiting, Monitor
  <2>2. Told(l)
    BY <2>1 DEF Told, Fits
  <2>3. Announced(l) => Announced(l)'
    BY <2>1 DEF Announced
  <2>4. LanesUnder(l)' = LanesUnder(l) /\ LanesUnder(l) \subseteq Lanes
    BY <2>1 DEF LanesUnder
  <2>5. ASSUME Setting(l) PROVE Settled(l)'
    <3>1. monitor.enable = ifs[l].enabled /\ monitor.lane = l /\ (mode = "whole" => monitor.all)
      BY <2>1, <2>5 DEF Setting
    <3>2. \A k \in LanesUnder(l) : monitor.all \/ k = l
      BY <3>1 DEF LanesUnder
    <3> QED BY <2>1, <2>4, <3>1, <3>2 DEF Settled
  <2>6. ASSUME Settled(l) PROVE Settled(l)'
    <3>1. ~monitor.all /\ monitor.lane # l /\ mode = "split"
      BY <2>1, <2>6 DEF Settled
    <3>2. LanesUnder(l) = {l}
      BY <3>1 DEF LanesUnder
    <3> QED BY <2>1, <2>4, <2>6, <3>1, <3>2 DEF Settled
  <2> QED BY <1>1, <2>2, <2>3, <2>5, <2>6
<1> QED BY <1>4, <1>5, <1>6, <1>7, <1>8, <1>9, <1>10, Kinds

(* Once the admin changes are taken, the transceiver's lanes of an         *)
(* interface whose admin state was announced are as its admin state, all   *)
(* lanes in 1x1 mode (set_media_transceiver): until they are, the change   *)
(* is announced or the thread is about to set them.                        *)
THEOREM LaserCorrect == Spec => []LaserFollowsAdmin
<1>1. Init => IndexInv /\ LaserInv
  <2> SUFFICES ASSUME Init PROVE IndexInv /\ LaserInv
    OBVIOUS
  <2>1. \A l \in Lanes : ~ifs[l].exists /\ ~ifs[l].listed
    BY DEF Init, NoInterface
  <2>2. history.told = {}
    BY DEF Init
  <2> QED BY <2>1, <2>2 DEF IndexInv, LaserInv, Told
<1>2. TypeInv /\ LaserInv => LaserFollowsAdmin
  <2> SUFFICES ASSUME TypeInv, LaserInv, monitor.pc = "wait", events = <<>>, NEW l \in Lanes, Fits(l),
                      ifs[l].index \in history.told \ history.left,
                      NEW k \in (IF mode = "whole" THEN Lanes ELSE {l})
               PROVE  laser[k] = ifs[l].enabled
    BY DEF LaserFollowsAdmin
  <2>1. Told(l) /\ ~Setting(l)
    BY DEF Told, Setting
  <2>2. ~Announced(l)
    BY DEF Announced
  <2>3. Settled(l)
    BY <2>1, <2>2 DEF LaserInv
  <2> QED BY <2>3 DEF Settled, LanesUnder
<1> QED BY <1>1, <1>2, InitType, TypeNext, IndexNext, LaserNext, PTL DEF Spec


-----------------------------------------------------------------------------
(* What a script that says "created" has made. *)

(* As many ports as lanes of the mode are all of them. *)
LEMMA AllPorts ==
  ASSUME TypeOK, Cardinality(valid) >= Cardinality(LanesOf(mode))
  PROVE  valid = LanesOf(mode)
<1>1. valid \subseteq LanesOf(mode) /\ IsFiniteSet(LanesOf(mode))
  BY ModeLanes DEF TypeOK
<1>2. /\ Cardinality(valid) \in Nat /\ Cardinality(LanesOf(mode)) \in Nat
      /\ Cardinality(valid) <= Cardinality(LanesOf(mode))
      /\ Cardinality(valid) = Cardinality(LanesOf(mode)) => valid = LanesOf(mode)
  BY <1>1, FS_Subset, FS_CardinalityType
<1> QED BY <1>2

(* A script that waits, makes and creates while others do not delete: its   *)
(* interfaces stay.                                                        *)
LEMMA UndisturbedKept ==
  ASSUME TypeOK, NEW f, Undisturbed(f), fanout'[f] = fanout[f], mode' = mode,
         valid \subseteq valid', valid' \subseteq LanesOf(mode'),
         \A l \in Lanes : Fits(l) => Fits(l)'
  PROVE  Undisturbed(f)'
<1>1. LanesOf(mode) \subseteq Lanes
  BY ModeLanes DEF TypeOK
<1>2. \A l : ModeItem(l)' = ModeItem(l)
  BY DEF ModeItem
<1> QED BY <1>1, <1>2 DEF Undisturbed

(* No interface goes or changes its name. *)
LEMMA FitsKept ==
  ASSUME TypeOK, IndexInv, mode' = mode,
         \/ ifs' = ifs
         \/ \E i \in Item : Makes(i)
         \/ \E l \in Lanes, v \in BOOLEAN : Admin(l, v)
  PROVE  \A l \in Lanes : Fits(l) => Fits(l)'
<1>1. CASE ifs' = ifs
  BY <1>1 DEF Fits
<1>2. ASSUME NEW i \in Item, Makes(i) PROVE \A l \in Lanes : Fits(l) => Fits(l)'
  <2>1. ~ifs[i.lane].listed /\ \A l \in Lanes : l # i.lane => ifs'[l] = ifs[l]
    BY <1>2 DEF Makes, Free, IndexInv, TypeOK, Item
  <2> QED BY <2>1 DEF Fits
<1>3. ASSUME NEW l \in Lanes, NEW v \in BOOLEAN, Admin(l, v)
      PROVE  \A k \in Lanes : Fits(k) => Fits(k)'
  <2>1. \A k \in Lanes : ifs'[k].listed = ifs[k].listed /\ ifs'[k].sub = ifs[k].sub
    BY <1>3 DEF Admin, TypeOK, Interface
  <2> QED BY <2>1 DEF Fits
<1> QED BY <1>1, <1>2, <1>3

(* A step of a script, on its own record. *)
LEMMA ScriptPromise ==
  ASSUME TypeInv, TypeInv', IndexInv, PromiseInv, NEW f \in Fanouts, NEW s \in Script,
         fanout' = [fanout EXCEPT ![f] = s], mode' = mode, valid' = valid,
         \A l \in Lanes : Fits(l) => Fits(l)',
         history'.undisturbed \subseteq history.undisturbed,
         s.pc # "idle" => s.result = "none",
         f \in history'.undisturbed => Undisturbed(f)'
  PROVE  PromiseInv'
<1>1. \A g \in Fanouts : fanout'[g] = IF g = f THEN s ELSE fanout[g]
  BY DEF TypeInv, TypeOK
<1>2. history.undisturbed \subseteq Fanouts
  BY DEF TypeInv, TypeOK, History
<1>3. ASSUME NEW g \in history'.undisturbed PROVE Undisturbed(g)'
  <2>1. CASE g = f
    BY <1>3, <2>1
  <2>2. CASE g # f
    <3>1. g \in Fanouts /\ Undisturbed(g) /\ fanout'[g] = fanout[g]
      BY <1>1, <1>2, <1>3, <2>2 DEF PromiseInv
    <3> QED BY <3>1, UndisturbedKept DEF TypeInv, TypeOK
  <2> QED BY <2>1, <2>2
<1> QED BY <1>1, <1>3 DEF PromiseInv

(* A step that is no script's. *)
LEMMA OtherPromise ==
  ASSUME TypeInv, TypeInv', IndexInv, PromiseInv, fanout' = fanout, mode' = mode,
         valid \subseteq valid',
         \A l \in Lanes : Fits(l) => Fits(l)',
         history'.undisturbed \subseteq history.undisturbed
  PROVE  PromiseInv'
<1>1. ASSUME NEW g \in history'.undisturbed PROVE Undisturbed(g)'
  BY <1>1, UndisturbedKept DEF PromiseInv, TypeInv, TypeOK
<1> QED BY <1>1 DEF PromiseInv

LEMMA FinishPromise ==
  ASSUME TypeInv, TypeInv', IndexInv, PromiseInv, NEW f \in Fanouts, NEW result,
         result \in {"none", "created", "failed"},
         fanout' = Finish(f, result), mode' = mode, valid' = valid,
         \A l \in Lanes : Fits(l) => Fits(l)',
         history'.undisturbed \subseteq history.undisturbed,
         f \in history'.undisturbed /\ result = "created" => \A l \in LanesOf(mode) : Fits(l)'
  PROVE  PromiseInv'
<1> DEFINE s == [fanout[f] EXCEPT !.pc = "idle", !.todo = <<>>, !.listing = {}, !.result = result]
<1>1. fanout[f] \in Script
  BY DEF TypeInv, TypeOK
<1>2. /\ s \in Script /\ s.pc = "idle" /\ s.result = result /\ s.target = fanout[f].target
      /\ fanout' = [fanout EXCEPT ![f] = s]
  <2>1. <<>> \in Seq(Item)
    OBVIOUS
  <2> QED BY <1>1, <2>1 DEF Finish, TypeInv, TypeOK, Script
<1> HIDE DEF s
<1>3. fanout'[f] = s
  BY <1>2 DEF TypeInv, TypeOK
<1>4. ASSUME f \in history'.undisturbed PROVE Undisturbed(f)'
  <2>1. mode = fanout[f].target
    BY <1>4 DEF PromiseInv, Undisturbed
  <2> QED BY <1>2, <1>3, <1>4, <2>1 DEF Undisturbed
<1> QED BY <1>2, <1>4, ScriptPromise

LEMMA CreatePromise ==
  ASSUME TypeInv, TypeInv', IndexInv, PromiseInv, NEW f \in Fanouts, CreateNew(f)
  PROVE  PromiseInv'
<1> DEFINE old == fanout[f]
<1>0. /\ old \in Script /\ Holds(old) /\ history \in History
  BY DEF TypeInv, TypeOK
<1>1. PICK todo \in Seq(Item) : todo = old.todo /\ todo # <<>> /\ old.pc = "create"
  BY <1>0 DEF CreateNew, Holds, Script
<1>2. PICK i \in Item : i = Head(todo)
  BY <1>1, HeadTailProperties
<1>3. /\ DOMAIN todo = 1..Len(todo) /\ Len(todo) \in Nat
      /\ Tail(todo) \in Seq(Item) /\ DOMAIN Tail(todo) = 1..Len(Tail(todo))
      /\ Len(Tail(todo)) = Len(todo) - 1 /\ Head(todo) = todo[1]
      /\ \A k \in 1..Len(Tail(todo)) : Tail(todo)[k] = todo[k + 1]
  BY <1>1, HeadTailProperties, LenProperties
<1>4. /\ mode' = mode /\ valid' = valid
      /\ \/ /\ Creates(f, i)
            /\ fanout' = IF Tail(todo) = <<>> THEN Finish(f, "created")
                         ELSE [fanout EXCEPT ![f].todo = Tail(todo)]
         \/ CreateFails(f, i) /\ fanout' = Finish(f, "failed")
  BY <1>1, <1>2 DEF CreateNew
<1>5. /\ history'.undisturbed = history.undisturbed
      /\ Makes(i) \/ ifs' = ifs
      /\ Creates(f, i) => Makes(i)
  <2>1. history'.undisturbed = history.undisturbed /\ (Creates(f, i) => Makes(i))
    BY <1>4, CreationMakes DEF TypeInv
  <2>2. ifs' = ifs \/ Makes(i)
    BY <1>4, CreationMakes DEF CreateFails, Makes, By, TypeInv, TypeOK, History
  <2> QED BY <2>1, <2>2
<1>6. \A l \in Lanes : Fits(l) => Fits(l)'
  BY <1>4, <1>5, FitsKept DEF TypeInv
<1>7. LanesOf(mode) \subseteq Lanes
  BY ModeLanes DEF TypeInv, TypeOK
(* The lane whose item is first gets its interface now. *)
<1>8. ASSUME f \in history.undisturbed, Creates(f, i), NEW l \in LanesOf(mode)
      PROVE  Fits(l)' \/ \E k \in DOMAIN Tail(todo) : Tail(todo)[k] = ModeItem(l)
  <2>1. Fits(l) \/ \E k \in DOMAIN todo : todo[k] = ModeItem(l)
    BY <1>1, <1>8 DEF PromiseInv, Undisturbed
  <2>2. CASE Fits(l)
    BY <1>6, <1>7, <2>2
  <2>3. ASSUME NEW k \in DOMAIN todo, todo[k] = ModeItem(l), k = 1 PROVE Fits(l)'
    <3>1. i.lane = l /\ i.sub = SubOf(mode, l)
      BY <1>2, <1>3, <2>3 DEF ModeItem
    <3>2. ifs'[l] = New(i)
      BY <1>5, <1>7, <1>8, <3>1 DEF Makes, TypeInv, TypeOK
    <3> QED BY <1>4, <3>1, <3>2 DEF New, Fits
  <2>4. ASSUME NEW k \in DOMAIN todo, todo[k] = ModeItem(l), k # 1
        PROVE  \E j \in DOMAIN Tail(todo) : Tail(todo)[j] = ModeItem(l)
    <3>1. k - 1 \in 1..Len(Tail(todo)) /\ (k - 1) + 1 = k
      BY <1>3, <2>4
    <3>2. Tail(todo)[k - 1] = ModeItem(l)
      BY <1>3, <2>4, <3>1
    <3> QED BY <1>3, <3>1, <3>2
  <2> QED BY <2>1, <2>2, <2>3, <2>4
<1>9. CASE Creates(f, i) /\ Tail(todo) = <<>> /\ fanout' = Finish(f, "created")
  <2>1. ASSUME f \in history'.undisturbed PROVE \A l \in LanesOf(mode) : Fits(l)'
    <3>1. DOMAIN Tail(todo) = {}
      BY <1>9
    <3> QED BY <1>5, <1>8, <1>9, <2>1, <3>1
  <2> QED BY <1>4, <1>5, <1>6, <1>9, <2>1, FinishPromise
<1>10. CASE Creates(f, i) /\ fanout' = [fanout EXCEPT ![f].todo = Tail(todo)]
  <2> DEFINE s == [old EXCEPT !.todo = Tail(todo)]
  <2>1. /\ s \in Script /\ s.pc = "create" /\ s.target = old.target /\ s.result = old.result
        /\ s.todo = Tail(todo) /\ fanout' = [fanout EXCEPT ![f] = s]
    BY <1>0, <1>1, <1>3, <1>10 DEF Script, TypeInv, TypeOK
  <2> HIDE DEF s
  <2>2. fanout'[f] = s /\ s.result = "none"
    BY <1>1, <2>1 DEF TypeInv, TypeOK, PromiseInv
  <2>3. ASSUME f \in history'.undisturbed PROVE Undisturbed(f)'
    <3>1. mode = old.target
      BY <1>5, <2>3 DEF PromiseInv, Undisturbed
    <3>2. \A l : ModeItem(l)' = ModeItem(l)
      BY <1>4 DEF ModeItem
    <3>3. \A l \in LanesOf(mode') : Fits(l)' \/ \E k \in DOMAIN s.todo : s.todo[k] = ModeItem(l)'
      BY <1>4, <1>5, <1>8, <1>10, <2>1, <2>3, <3>2
    <3> QED BY <1>4, <2>1, <2>2, <3>1, <3>3 DEF Undisturbed
  <2> QED BY <1>4, <1>5, <1>6, <2>1, <2>2, <2>3, ScriptPromise
<1>11. CASE fanout' = Finish(f, "failed")
  BY <1>4, <1>5, <1>6, <1>11, FinishPromise
<1> QED BY <1>4, <1>9, <1>10, <1>11


LEMMA MakePromise ==
  ASSUME TypeInv, TypeInv', IndexInv, PromiseInv, NEW f \in Fanouts, Make(f)
  PROVE  PromiseInv'
<1> DEFINE old == fanout[f]
<1>1. PICK i \in old.listing, s \in Script :
        /\ i \in Item /\ ItemOf(i.lane) \in Item /\ old.pc = "make" /\ old.todo \in Seq(Item)
        /\ fanout' = [fanout EXCEPT ![f] = s]
        /\ s.target = old.target /\ s.result = old.result
        /\ s.todo = Append(old.todo, ItemOf(i.lane))
        /\ s.listing = IF old.target = "whole" THEN {} ELSE old.listing \ {i}
        /\ s.pc = IF s.listing = {} THEN "create" ELSE "make"
        /\ history'.undisturbed = history.undisturbed
  BY MadeName
<1>2. mode' = mode /\ valid' = valid /\ ifs' = ifs
  BY DEF Make
<1>3. fanout'[f] = s /\ s.result = "none"
  BY <1>1 DEF TypeInv, TypeOK, PromiseInv
<1>4. ASSUME f \in history'.undisturbed PROVE Undisturbed(f)'
  <2>1. /\ mode = old.target /\ valid = LanesOf(mode)
        /\ \A j \in old.listing : j.lane \in LanesOf(mode)
        /\ \A l \in LanesOf(mode) :
             \/ \E j \in old.listing : j.lane = l
             \/ \E k \in DOMAIN old.todo : old.todo[k] = ModeItem(l)
    BY <1>1, <1>4 DEF PromiseInv, Undisturbed
  <2>2. ItemOf(i.lane) = ModeItem(i.lane)
    BY <2>1 DEF ItemOf, ModeItem
  <2>3. /\ \E k \in DOMAIN s.todo : s.todo[k] = ItemOf(i.lane)
        /\ \A k \in DOMAIN old.todo : k \in DOMAIN s.todo /\ s.todo[k] = old.todo[k]
    BY <1>1, Appended
  <2>4. ASSUME NEW l \in LanesOf(mode)
        PROVE  \/ \E j \in s.listing : j.lane = l
               \/ \E k \in DOMAIN s.todo : s.todo[k] = ModeItem(l)
    <3>1. CASE i.lane = l
      BY <2>2, <2>3, <3>1
    <3>2. CASE \E k \in DOMAIN old.todo : old.todo[k] = ModeItem(l)
      BY <2>3, <3>2
    <3>3. ASSUME NEW j \in old.listing, j.lane = l, i.lane # l PROVE j \in s.listing
      <4>1. old.target # "whole"
        BY <2>1, <2>4, <3>3 DEF LanesOf
      <4> QED BY <1>1, <3>3, <4>1
    <3> QED BY <2>1, <3>1, <3>2, <3>3
  <2>5. \A l : ModeItem(l)' = ModeItem(l)
    BY <1>2 DEF ModeItem
  <2>6. s.listing \subseteq old.listing
    BY <1>1
  <2>7. s.pc \in {"make", "create"} /\ (s.pc = "create" => s.listing = {})
    BY <1>1
  <2> QED BY <1>1, <1>2, <1>3, <2>1, <2>4, <2>5, <2>6, <2>7 DEF Undisturbed
<1>5. \A l \in Lanes : Fits(l) => Fits(l)'
  BY <1>2 DEF Fits
<1> QED BY <1>1, <1>2, <1>3, <1>4, <1>5, ScriptPromise

LEMMA FanoutPromise ==
  ASSUME TypeInv, TypeInv', IndexInv, PromiseInv, NEW f \in Fanouts,
         ScriptStep(f) \/ \E m \in Modes : Start(f, m)
  PROVE  PromiseInv'
<1> DEFINE old == fanout[f]
<1>0. /\ old \in Script /\ Holds(old) /\ history \in History /\ history.undisturbed \subseteq Fanouts
  BY DEF TypeInv, TypeOK, History
<1>1. ifs' = ifs => (mode' = mode => \A l \in Lanes : Fits(l) => Fits(l)')
  BY DEF Fits
<1>2. ASSUME NEW m \in Modes, Start(f, m) PROVE PromiseInv'
  <2> DEFINE s == [pc |-> "ports", target |-> m, listing |-> Listing, todo |-> <<>>,
                   result |-> "none"]
  <2>1. s \in Script /\ s.result = "none"
    BY ListingFacts, EmptySeq DEF Script, TypeInv
  <2>2. fanout' = [fanout EXCEPT ![f] = s] /\ UNCHANGED <<mode, valid, ifs>>
    BY <1>2 DEF Start
  <2> HIDE DEF s
  <2>3. history'.undisturbed = history.undisturbed \ {f}
    BY <1>0, <1>2 DEF Start, History
  <2> QED BY <1>1, <2>1, <2>2, <2>3, ScriptPromise
<1>3. CASE ReadPorts(f)
  <2>1. UNCHANGED <<mode, valid, ifs, history>> /\ old.pc = "ports"
    BY <1>3 DEF ReadPorts
  <2>2. f \notin history'.undisturbed
    BY <2>1 DEF PromiseInv, Undisturbed
  <2>3. CASE fanout' = Finish(f, "none")
    BY <1>1, <2>1, <2>2, <2>3, FinishPromise
  <2>4. ASSUME NEW o, fanout' = [fanout EXCEPT ![f].todo = o,
                                   ![f].pc = IF o = <<>> THEN "breakout" ELSE "delete"]
        PROVE  PromiseInv'
    <3>1. fanout'[f].result = "none"
      BY <1>0, <2>1, <2>4 DEF PromiseInv, TypeInv, TypeOK, Script
    <3>2. fanout' = [fanout EXCEPT ![f] = fanout'[f]] /\ fanout'[f] \in Script
      BY <2>4 DEF TypeInv, TypeOK
    <3>3. PICK s \in Script : s = fanout'[f]
      BY <3>2
    <3> QED BY <1>1, <2>1, <2>2, <3>1, <3>2, <3>3, ScriptPromise
  <2>5. \/ fanout' = Finish(f, "none")
        \/ \E o : fanout' = [fanout EXCEPT ![f].todo = o,
                               ![f].pc = IF o = <<>> THEN "breakout" ELSE "delete"]
    BY <1>3, Zenon DEF ReadPorts
  <2> QED BY <2>3, <2>4, <2>5
<1>4. CASE DeleteOld(f)
  <2>1. old.pc = "delete"
    BY <1>4 DEF DeleteOld
  <2>2. f \notin history.undisturbed
    BY <2>1 DEF PromiseInv, Undisturbed
  <2>3. history'.undisturbed = {}
    BY <1>0, <1>4, <2>2 DEF DeleteOld, Disturb, History
  <2>4. \A g \in Fanouts : /\ fanout'[g].result = fanout[g].result
                           /\ fanout'[g].pc # "idle" => fanout[g].pc # "idle"
    <3> DEFINE s == [old EXCEPT !.todo = Tail(old.todo),
                       !.pc = IF Tail(old.todo) = <<>> THEN "breakout" ELSE "delete"]
               e == [old EXCEPT !.todo = <<>>, !.pc = "breakout"]
    <3>1. fanout' = [fanout EXCEPT ![f] = s] \/ fanout' = [fanout EXCEPT ![f] = e]
      BY <1>4 DEF DeleteOld, TypeInv, TypeOK
    <3>2. s.result = old.result /\ e.result = old.result
      BY <1>0 DEF Script
    <3> HIDE DEF s, e
    <3> QED BY <2>1, <3>1, <3>2 DEF TypeInv, TypeOK
  <2> QED BY <2>3, <2>4 DEF PromiseInv
<1>5. CASE Breakout(f)
  <2> DEFINE s == [old EXCEPT !.pc = "wait"]
  <2>1. /\ s.pc = "wait" /\ s.target = old.target /\ s.result = old.result
        /\ old.pc = "breakout" /\ fanout' = [fanout EXCEPT ![f] = s]
    BY <1>0, <1>5 DEF Breakout, Script, TypeInv, TypeOK
  <2> HIDE DEF s
  <2>2. \A g \in Fanouts : fanout'[g] = IF g = f THEN s ELSE fanout[g]
    BY <2>1 DEF TypeInv, TypeOK
  <2>3. history'.undisturbed = {f} /\ mode' = old.target /\ old.result = "none"
    BY <1>0, <1>5, <2>1 DEF Breakout, History, PromiseInv
  <2>4. Undisturbed(f)'
    BY <2>1, <2>2, <2>3 DEF Undisturbed
  <2>5. \A g \in Fanouts : fanout'[g].pc # "idle" => fanout'[g].result = "none"
    BY <2>1, <2>2, <2>3 DEF PromiseInv
  <2> QED BY <2>3, <2>4, <2>5 DEF PromiseInv
<1>6. CASE BreakoutFails(f)
  BY <1>1, <1>6, FinishPromise DEF BreakoutFails
<1>7. CASE Wait(f)
  <2> DEFINE here == [lane : valid, sub : {0}]
             s == [old EXCEPT !.pc = "make", !.listing = here]
  <2>1. /\ s.pc = "make" /\ s.target = old.target /\ s.result = old.result /\ s.listing = here
        /\ old.pc = "wait" /\ fanout' = [fanout EXCEPT ![f] = s]
        /\ UNCHANGED <<mode, valid, ifs>>
        /\ Cardinality(valid) >= Cardinality(LanesOf(old.target))
    BY <1>0, <1>7 DEF Wait, WaitForPorts, Script, TypeInv, TypeOK
  <2>2. /\ \A i \in here : i.lane \in valid
        /\ \A l \in valid : [lane |-> l, sub |-> 0] \in here
    OBVIOUS
  <2> HIDE DEF here, s
  <2>3. history'.undisturbed = history.undisturbed
    BY <1>0, <1>7 DEF Wait, WaitForPorts, History
  <2>4. fanout'[f] = s /\ s.result = "none" /\ s \in Script
    BY <2>1 DEF TypeInv, TypeOK, PromiseInv
  <2>5. ASSUME f \in history'.undisturbed PROVE Undisturbed(f)'
    <3>1. mode = old.target
      BY <2>1, <2>3, <2>5 DEF PromiseInv, Undisturbed
    <3>2. valid = LanesOf(mode)
      BY <2>1, <3>1, AllPorts DEF TypeInv
    <3>3. \A l \in valid : \E i \in here : i.lane = l
      <4>1. \A l \in valid : [lane |-> l, sub |-> 0].lane = l
        OBVIOUS
      <4> QED BY <2>2, <4>1
    <3> QED BY <2>1, <2>2, <2>4, <3>1, <3>2, <3>3 DEF Undisturbed
  <2> QED BY <1>1, <2>1, <2>3, <2>4, <2>5, ScriptPromise
<1>8. CASE Make(f)
  BY <1>8, MakePromise
<1>9. CASE CreateNew(f)
  BY <1>9, CreatePromise
<1> QED BY <1>2, <1>3, <1>4, <1>5, <1>6, <1>7, <1>8, <1>9 DEF ScriptStep

LEMMA PromiseNext == TypeInv /\ IndexInv /\ PromiseInv /\ [Next]_vars => PromiseInv'
<1> SUFFICES ASSUME TypeInv, IndexInv, PromiseInv, [Next]_vars PROVE PromiseInv'
  OBVIOUS
<1>0. TypeInv' /\ boot \in Boot /\ history \in History /\ remover \in Remover
  BY TypeNext DEF TypeInv, TypeOK
<1>1. ASSUME fanout' = fanout, mode' = mode, valid \subseteq valid', ifs' = ifs,
             history'.undisturbed = history.undisturbed
      PROVE  PromiseInv'
  <2>1. \A l \in Lanes : Fits(l) => Fits(l)'
    BY <1>1 DEF Fits
  <2> QED BY <1>0, <1>1, <2>1, OtherPromise
<1>2. ASSUME NEW l \in Lanes, NEW v \in BOOLEAN, Admin(l, v), fanout' = fanout, mode' = mode,
             valid' = valid
      PROVE  PromiseInv'
  <2>1. history'.undisturbed = history.undisturbed
    BY <1>0, <1>2 DEF Admin, History
  <2>2. \A k \in Lanes : Fits(k) => Fits(k)'
    BY <1>2, FitsKept DEF TypeInv
  <2> QED BY <1>0, <1>2, <2>1, <2>2, OtherPromise
<1>3. CASE BootPorts \/ BootListing \/ BootMake
  <2>1. history'.undisturbed = history.undisturbed
    BY <1>0, <1>3 DEF BootPorts, BootListing, BootMake, NameMade, History
  <2> QED BY <1>1, <1>3, <2>1 DEF BootPorts, BootListing, BootMake
<1>4. CASE BootCreate
  <2>1. boot.item \in Item
    BY <1>0 DEF Boot
  <2>2. /\ Creates("boot", boot.item) \/ CreateFails("boot", boot.item)
        /\ UNCHANGED <<mode, valid, fanout>>
    BY <1>4 DEF BootCreate
  <2>3. history'.undisturbed = history.undisturbed
    BY <2>1, <2>2, CreationMakes DEF TypeInv
  <2>4. ifs' = ifs \/ Makes(boot.item)
    BY <2>1, <2>2, CreationMakes DEF CreateFails, Makes, By, TypeInv, TypeOK, History
  <2>5. \A k \in Lanes : Fits(k) => Fits(k)'
    BY <2>1, <2>2, <2>4, FitsKept DEF TypeInv
  <2> QED BY <1>0, <2>2, <2>3, <2>5, OtherPromise
<1>5. CASE RemoveDown
  BY <1>0, <1>1, <1>2, <1>5, FoundLanes DEF RemoveDown
<1>6. CASE RemoveDelete
  <2>1. history'.undisturbed = {} /\ fanout' = fanout
    BY <1>0, <1>6 DEF RemoveDelete, History
  <2> QED BY <2>1 DEF PromiseInv
<1>7. CASE MonitorTake \/ MonitorMode \/ MonitorTransceiver
  BY <1>1, <1>7 DEF MonitorTake, MonitorMode, MonitorTransceiver
<1>8. ASSUME NEW l \in Lanes, PortAppears(l) \/ RemoveStart(l) PROVE PromiseInv'
  BY <1>1, <1>8 DEF PortAppears, RemoveStart
<1>9. ASSUME NEW l \in Lanes, NEW v \in BOOLEAN, SetAdmin(l, v) PROVE PromiseInv'
  BY <1>2, <1>9 DEF SetAdmin
<1>10. CASE UNCHANGED vars
  BY <1>1, <1>10 DEF vars
<1> QED BY <1>0, <1>3, <1>4, <1>5, <1>6, <1>7, <1>8, <1>9, <1>10, FanoutPromise DEF Next

(* A script that says it created the interfaces has: every port of the     *)
(* mode has its interface until another program deletes one or breaks the  *)
(* port out or in (sonic-config-fanout).                                   *)
THEOREM CreatedKept == Spec => []CreatedMeansInterfaces
<1>1. Init => IndexInv /\ PromiseInv
  <2> SUFFICES ASSUME Init PROVE IndexInv /\ PromiseInv
    OBVIOUS
  <2>1. \A l \in Lanes : ~ifs[l].exists /\ ~ifs[l].listed
    BY DEF Init, NoInterface
  <2>2. history.told = {} /\ history.undisturbed = {}
        /\ \A f \in Fanouts : fanout[f].pc = "idle"
    BY DEF Init
  <2> QED BY <2>1, <2>2 DEF IndexInv, PromiseInv
<1>2. PromiseInv => CreatedMeansInterfaces
  BY DEF PromiseInv, Undisturbed, CreatedMeansInterfaces
<1> QED BY <1>1, <1>2, InitType, TypeNext, IndexNext, PromiseNext, PTL DEF Spec


=============================================================================
