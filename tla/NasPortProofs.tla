--------------------------- MODULE NasPortProofs ---------------------------
(***************************************************************************)
(* Proofs about NasPort, for any ports, descriptor numbers, bounds and     *)
(* failing calls, through any number of restarts.                          *)
(*                                                                         *)
(* TableInv(s) is the inductive invariant of the table s. Each function   *)
(* of nas_int_port.cpp keeps it (the *Inv lemmas) and leaves the frames of *)
(* a descriptor alone that it does not close (Keeps).  Both together carry *)
(* what the two packet threads rely on between their steps (Waiting,       *)
(* Sending) over every step of the other threads.                          *)
(***************************************************************************)
EXTENDS NasPort, SequenceTheorems, FiniteSetTheorems, TLAPS

Agree(s) ==
  /\ s.up \subseteq s.used /\ s.used \subseteq s.ifs
  /\ \A p \in Ports : (p \in s.up) = (s.fd[p] # None)
  /\ \A p \in Ports, n \in Fds : (s.fd[p] = n) = (s.file[n] = p)
  /\ s.fdSet = Open(s)

TapInv(s) == s \in PortState /\ Agree(s)
TableInv(s) == TapInv(s) /\ s.used = s.registered

(* What is open in s and not closed in t has the packets it had. *)
Keeps(s, t) ==
  \A n \in Fds : s.file[n] # None /\ t.file[n] = s.file[n] =>
    t.frames[s.file[n]] = s.frames[s.file[n]]

HasFrame(n) ==
  n \in wait.gone \/ (nas.file[n] # None /\ nas.frames[nas.file[n]] > 0)

Waiting ==
  /\ wait \in WaitState
  /\ wait.fd # None => /\ wait.pc = "read" /\ wait.fd \in Fds /\ wait.port \in Ports
                       /\ nas.file[wait.fd] = wait.port
                       /\ HasFrame(wait.fd)
                       /\ wait.fd \notin wait.fds
  /\ wait.pc \in {"ready", "read"} => \A n \in wait.fds : HasFrame(n)

Sending ==
  /\ send \in SendState
  /\ send # NotSending => /\ send.port \in Ports /\ send.fd \in Fds
                          /\ nas.file[send.fd] = send.port \/ send.gone # {}

Jobs == job \in JobState /\ (job = NoJob \/ (job.pc # "idle" /\ job.port \in nas.used))

Coming ==
  /\ granted \ lost.untracked \subseteq nas.alias
  /\ start.phase = "reload" => /\ granted \ lost.away \subseteq nas.used \cup start.todo
                               /\ nas.used \cap start.todo = {}
  /\ start.phase # "reload" => granted \ lost.away \subseteq nas.used

Links ==
  /\ npuUp \subseteq Ports /\ events \in Seq(LinkEvent)
  /\ cb = <<>> \/ \E e \in LinkEvent : cb = <<e>>
  /\ start \in [phase : {"reload", "handlers", "up"}, todo : SUBSET Ports]
  /\ excused \subseteq Ports /\ granted \subseteq Ports /\ lost \in Lost

Spent == spent \in [{"requests", "links", "restarts", "frames", "faults"} -> Nat]

IInv == TableInv(nas) /\ Waiting /\ Sending /\ Jobs /\ Coming /\ Links /\ Spent

(* News of the links: what the callback thread applies, then what the NPU   *)
(* has not called back for.  up is the state of p in the last news of it.   *)
News == cb \o events
Last(q, p, up) ==
  \A i \in 1..Len(q) : q[i].port = p /\ (\A j \in (i + 1)..Len(q) : q[j].port # p) => q[i].up = up
About(q, p) == \E i \in 1..Len(q) : q[i].port = p

(* The tap is as the link of the port in the NPU, or the creation of the    *)
(* port will make it so.                                                    *)
Reading(p) == job.port = p /\ job.pc = "getLink"
Setting(p) == job.port = p /\ job.pc = "setLink"
Seen(p) ==
  CASE Reading(p) -> TRUE
    [] Setting(p) -> job.up = (p \in npuUp)
    [] OTHER      -> (p \in nas.up) = (p \in npuUp)

Followed(p) == p \in nas.used \ excused /\ ~About(News, p) => Seen(p)
Following == \A p \in Ports : Last(News, p, p \in npuUp) /\ Followed(p)

-----------------------------------------------------------------------------
(* The functions on the table. *)

(* update_tap_fd_info computes the open descriptors. *)
LEMMA FdSetIsOpen ==
  ASSUME NEW s \in PortState,
         \A p \in Ports, n \in Fds : (s.fd[p] = n) = (s.file[n] = p),
         \A p \in Ports : s.fd[p] # None => p \in s.used
  PROVE  UpdateFdSet(s) = [s EXCEPT !.fdSet = Open(s)] /\ UpdateFdSet(s) \in PortState
<1> DEFINE S == {s.fd[q] : q \in s.used} \ {None}
<1> USE NasPortAssumption DEF MaybeFd, MaybePort
<1>1. S \subseteq Open(s)
  <2> SUFFICES ASSUME NEW q \in s.used, s.fd[q] # None PROVE s.fd[q] \in Open(s)
    OBVIOUS
  <2>1. q \in Ports /\ s.fd[q] \in Fds
    BY DEF PortState
  <2>2. s.file[s.fd[q]] = q
    BY <2>1
  <2> QED BY <2>1, <2>2 DEF Open
<1>2. Open(s) \subseteq S
  <2> SUFFICES ASSUME NEW n \in Fds, s.file[n] # None PROVE n \in S
    BY DEF Open
  <2>1. s.file[n] \in Ports
    BY DEF PortState
  <2>2. s.fd[s.file[n]] = n
    BY <2>1
  <2> QED BY <2>1, <2>2
<1>3. S = Open(s)
  BY <1>1, <1>2
<1>4. UpdateFdSet(s) = [s EXCEPT !.fdSet = Open(s)]
  BY <1>3 DEF UpdateFdSet
<1>5. Open(s) \in SUBSET Fds
  BY DEF Open
<1>6. [s EXCEPT !.fdSet = Open(s)] \in PortState
  BY <1>5 DEF PortState
<1> QED BY <1>4, <1>6

(* The tap of a port is closed: the numbers and the kernel agree. *)
LEMMA CloseFdsInv ==
  ASSUME NEW s, TapInv(s), NEW p \in Ports
  PROVE  LET c == CloseFds(s, p)
         IN /\ c \in PortState /\ c.fd[p] = None
            /\ c.used = s.used /\ c.up = s.up /\ c.registered = s.registered
            /\ c.ifs = s.ifs /\ c.alias = s.alias
            /\ \A q \in Ports \ {p} : c.fd[q] = s.fd[q]
            /\ \A q \in Ports, n \in Fds : (c.fd[q] = n) = (c.file[n] = q)
            /\ Keeps(s, c)
            /\ p \notin s.up => c = s
<1> DEFINE n == s.fd[p]
           c == CloseFds(s, p)
<1> USE NasPortAssumption DEF TapInv, MaybeFd, MaybePort
<1>0. s \in PortState /\ Agree(s)
  OBVIOUS
<1>1. CASE s.fd[p] = None
  <2>1. c = s
    BY <1>1 DEF CloseFds
  <2>2. Keeps(s, s)
    BY DEF Keeps
  <2> QED BY <1>0, <1>1, <2>1, <2>2 DEF Agree
<1>2. CASE s.fd[p] # None
  <2>0. n \in Fds /\ s.file[n] = p
    BY <1>0, <1>2 DEF PortState, Agree
  <2>1. c = [s EXCEPT !.file[n] = None, !.fd[p] = None, !.frames[p] = 0]
    BY <1>2 DEF CloseFds
  <2> HIDE DEF c, n
  <2>2. /\ [s.file EXCEPT ![n] = None] \in [Fds -> MaybePort]
        /\ [s.fd EXCEPT ![p] = None] \in [Ports -> MaybeFd]
        /\ [s.frames EXCEPT ![p] = 0] \in [Ports -> Nat]
    BY <1>0, <2>0 DEF PortState
  <2>3. c \in PortState
    BY <1>0, <2>1, <2>2 DEF PortState
  <2>4. \A q \in Ports, m \in Fds : (c.fd[q] = m) = (c.file[m] = q)
    BY <1>0, <2>0, <2>1 DEF PortState, Agree, n
  <2>5. Keeps(s, c)
    BY <1>0, <2>0, <2>1 DEF Keeps, PortState, Agree
  <2>6. /\ c.fd[p] = None /\ c.used = s.used /\ c.up = s.up
        /\ c.registered = s.registered /\ c.ifs = s.ifs /\ c.alias = s.alias
        /\ \A q \in Ports \ {p} : c.fd[q] = s.fd[q]
    BY <1>0, <2>1 DEF PortState
  <2>7. p \in s.up
    BY <1>0, <1>2 DEF Agree
  <2> QED BY <2>3, <2>4, <2>5, <2>6, <2>7 DEF c
<1> QED BY <1>1, <1>2

(* tap_link_down, with _link: the invariant holds again, and nothing but    *)
(* the port's own tap has changed.                                          *)
LEMMA LinkDownInv ==
  ASSUME NEW s, TapInv(s), NEW p \in Ports
  PROVE  LET t == [TapLinkDown(s, p) EXCEPT !.up = @ \ {p}]
         IN /\ TapInv(t) /\ Keeps(s, t)
            /\ t.used = s.used /\ t.registered = s.registered
            /\ t.alias = s.alias /\ t.ifs = s.ifs /\ t.up = s.up \ {p}
<1> DEFINE c == CloseFds(s, p)
           t == [TapLinkDown(s, p) EXCEPT !.up = @ \ {p}]
<1>0. s \in PortState /\ Agree(s)
  BY DEF TapInv
<1>1. /\ c \in PortState /\ c.fd[p] = None
      /\ c.used = s.used /\ c.up = s.up /\ c.registered = s.registered
      /\ c.ifs = s.ifs /\ c.alias = s.alias
      /\ \A q \in Ports \ {p} : c.fd[q] = s.fd[q]
      /\ \A q \in Ports, n \in Fds : (c.fd[q] = n) = (c.file[n] = q)
      /\ Keeps(s, c)
  BY CloseFdsInv
<1>2. \A q \in Ports : c.fd[q] # None => q \in c.used
  BY <1>0, <1>1 DEF Agree
<1>3. UpdateFdSet(c) = [c EXCEPT !.fdSet = Open(c)] /\ UpdateFdSet(c) \in PortState
  BY <1>1, <1>2, FdSetIsOpen
<1>4. t = [c EXCEPT !.fdSet = Open(c), !.up = @ \ {p}] /\ t \in PortState
  BY <1>1, <1>3 DEF TapLinkDown, PortState
<1> HIDE DEF c, t
<1>5. /\ t.used = c.used /\ t.up = c.up \ {p} /\ t.registered = c.registered
      /\ t.ifs = c.ifs /\ t.alias = c.alias /\ t.fdSet = Open(c)
      /\ t.fd = c.fd /\ t.file = c.file /\ t.frames = c.frames
  BY <1>1, <1>4 DEF PortState
<1>6. Agree(t)
  BY <1>0, <1>1, <1>5 DEF Agree, Open
<1>7. Keeps(s, t)
  BY <1>1, <1>5 DEF Keeps
<1> QED BY <1>1, <1>4, <1>5, <1>6, <1>7 DEF TapInv, t

(* tap_link_up with _link, of a port that is down, with a free number. *)
LEMMA LinkUpInv ==
  ASSUME NEW s, TapInv(s), NEW p \in s.used, p \notin s.up,
         NEW n \in Fds, n \notin Open(s)
  PROVE  LET t == [TapLinkUp(s, p, n) EXCEPT !.up = @ \cup {p}]
         IN /\ TapInv(t) /\ Keeps(s, t)
            /\ t.used = s.used /\ t.registered = s.registered
            /\ t.alias = s.alias /\ t.ifs = s.ifs
<1> DEFINE c == [s EXCEPT !.fd[p] = n, !.file[n] = p, !.frames[p] = 0]
           t == [TapLinkUp(s, p, n) EXCEPT !.up = @ \cup {p}]
<1> USE NasPortAssumption DEF MaybeFd, MaybePort
<1>0. s \in PortState /\ Agree(s) /\ p \in Ports
  BY DEF TapInv, PortState
<1>1. CloseFds(s, p) = s
  BY <1>0, CloseFdsInv
<1>2. s.fd[p] = None /\ s.file[n] = None
  BY <1>0 DEF Agree, Open
<1>3. c \in PortState
  BY <1>0 DEF PortState
<1>4. \A q \in Ports, m \in Fds : (c.fd[q] = m) = (c.file[m] = q)
  BY <1>0, <1>2 DEF PortState, Agree
<1>5. \A q \in Ports : c.fd[q] # None => q \in c.used
  BY <1>0 DEF PortState, Agree
<1>6. UpdateFdSet(c) = [c EXCEPT !.fdSet = Open(c)] /\ UpdateFdSet(c) \in PortState
  BY <1>3, <1>4, <1>5, FdSetIsOpen
<1>7. t = [c EXCEPT !.fdSet = Open(c), !.up = @ \cup {p}]
  BY <1>1, <1>6 DEF TapLinkUp
<1> HIDE DEF t
<1>8. /\ c.used = s.used /\ c.up = s.up /\ c.registered = s.registered
      /\ c.ifs = s.ifs /\ c.alias = s.alias
      /\ c.fd = [s.fd EXCEPT ![p] = n] /\ c.file = [s.file EXCEPT ![n] = p]
      /\ c.frames = [s.frames EXCEPT ![p] = 0]
  BY <1>0 DEF PortState
<1> HIDE DEF c
<1>9. /\ t.used = s.used /\ t.up = s.up \cup {p} /\ t.registered = s.registered
      /\ t.ifs = s.ifs /\ t.alias = s.alias /\ t.fdSet = Open(c)
      /\ t.fd = c.fd /\ t.file = c.file /\ t.frames = c.frames
  BY <1>3, <1>7, <1>8 DEF PortState
<1>10. t \in PortState
  <2>1. Open(c) \in SUBSET Fds /\ s.up \cup {p} \in SUBSET Ports
    BY <1>0 DEF Open, PortState
  <2> QED BY <1>3, <1>7, <1>8, <2>1 DEF PortState
<1>11. Agree(t)
  <2>1. \A q \in Ports : (q \in t.up) = (t.fd[q] # None)
    BY <1>0, <1>8, <1>9 DEF Agree, PortState
  <2> QED BY <1>0, <1>4, <1>9, <2>1 DEF Agree, Open
<1>12. Keeps(s, t)
  <2> SUFFICES ASSUME NEW m \in Fds, s.file[m] # None, t.file[m] = s.file[m]
               PROVE  t.frames[s.file[m]] = s.frames[s.file[m]]
    BY DEF Keeps
  <2>1. s.file[m] \in Ports /\ s.fd[s.file[m]] = m
    BY <1>0 DEF PortState, Agree
  <2> QED BY <1>0, <1>2, <1>8, <1>9, <2>1 DEF PortState
<1> QED BY <1>9, <1>10, <1>11, <1>12 DEF TapInv, t

(* set_link_state with any number the kernel may give, or failing. *)
LEMMA SetLinkStateInv ==
  ASSUME NEW s, TapInv(s), NEW p \in s.used, NEW up \in BOOLEAN, NEW F,
         NEW n \in NewFds(s, p, up, F)
  PROVE  LET t == SetLinkState(s, p, up, n, F)
         IN /\ TapInv(t) /\ Keeps(s, t)
            /\ t.used = s.used /\ t.registered = s.registered /\ t.alias = s.alias
<1>0. p \in Ports /\ CloseFds(s, p) \in PortState
  BY CloseFdsInv DEF TapInv, PortState
<1>1. CASE (p \in s.up) = up
  BY <1>1 DEF SetLinkState, Keeps
<1>2. CASE up /\ p \notin s.up /\ "open" \in F
  <2>1. SetLinkState(s, p, up, n, F) = s
    BY <1>0, <1>2, CloseFdsInv DEF SetLinkState
  <2> QED BY <2>1 DEF Keeps
<1>3. CASE up /\ p \notin s.up /\ "open" \notin F
  <2>1. n \in Fds /\ n \notin Open(s)
    BY <1>0, <1>3, CloseFdsInv DEF NewFds
  <2>2. SetLinkState(s, p, up, n, F) = [TapLinkUp(s, p, n) EXCEPT !.up = @ \cup {p}]
    BY <1>3 DEF SetLinkState
  <2> DEFINE t == [TapLinkUp(s, p, n) EXCEPT !.up = @ \cup {p}]
  <2>3. /\ TapInv(t) /\ Keeps(s, t)
        /\ t.used = s.used /\ t.registered = s.registered /\ t.alias = s.alias
    BY <1>3, <2>1, LinkUpInv
  <2> QED BY <2>2, <2>3
<1>4. CASE ~up /\ p \in s.up
  <2>1. SetLinkState(s, p, up, n, F) = [TapLinkDown(s, p) EXCEPT !.up = @ \ {p}]
    BY <1>4 DEF SetLinkState
  <2> QED BY <1>0, <2>1, LinkDownInv
<1> QED BY <1>1, <1>2, <1>3, <1>4

(* tap_link_down of a tap that is closed changes nothing. *)
LEMMA LinkDownAgain ==
  ASSUME NEW s, TapInv(s), NEW p \in Ports, p \notin s.up
  PROVE  TapLinkDown(s, p) = s
<1>1. CloseFds(s, p) = s
  BY CloseFdsInv
<1>2. s \in PortState /\ Agree(s)
  BY DEF TapInv
<1>3. \A q \in Ports : s.fd[q] # None => q \in s.used
  BY <1>2 DEF Agree
<1>4. UpdateFdSet(s) = [s EXCEPT !.fdSet = Open(s)]
  BY <1>2, <1>3, FdSetIsOpen DEF Agree
<1>5. Open(s) = s.fdSet
  BY <1>2 DEF Agree
<1>6. [s EXCEPT !.fdSet = s.fdSet] = s
  BY <1>2 DEF PortState
<1> QED BY <1>1, <1>4, <1>5, <1>6 DEF TapLinkDown

(* CNasPortDetails::del leaves no descriptor of the port behind, whether    *)
(* the kernel deletes the interface or not.                                 *)
LEMMA PortDelInv ==
  ASSUME NEW s, TapInv(s), NEW p \in Ports, NEW F
  PROVE  LET t == PortDel(s, p, F)
         IN /\ TapInv(t) /\ Keeps(s, t)
            /\ t.used = s.used \ {p} /\ t.registered = s.registered
            /\ s.alias \ {p} \subseteq t.alias
<1> DEFINE d == SetLinkState(s, p, FALSE, None, {})
           t == PortDel(s, p, F)
<1>1. /\ TapInv(d) /\ Keeps(s, d)
      /\ d.used = s.used /\ d.registered = s.registered /\ d.alias = s.alias
      /\ p \notin d.up
  <2>1. CASE p \notin s.up
    <3>1. d = s
      BY <2>1 DEF SetLinkState
    <3> QED BY <2>1, <3>1 DEF Keeps
  <2>2. CASE p \in s.up
    <3>1. d = [TapLinkDown(s, p) EXCEPT !.up = @ \ {p}]
      BY <2>2 DEF SetLinkState
    <3> HIDE DEF d
    <3>2. d.up = s.up \ {p}
      BY <3>1, LinkDownInv
    <3> QED BY <3>1, <3>2, LinkDownInv
  <2> QED BY <2>1, <2>2
<1>2. TapLinkDown(d, p) = d
  BY <1>1, LinkDownAgain
<1>3. t = IF "tapDelete" \in F THEN [d EXCEPT !.used = @ \ {p}]
          ELSE [d EXCEPT !.used = @ \ {p}, !.ifs = @ \ {p}, !.alias = @ \ {p}]
  BY <1>2 DEF PortDel
<1> HIDE DEF d, t
<1>4. d \in PortState /\ Agree(d)
  BY <1>1 DEF TapInv
<1>5. /\ t \in PortState /\ t.used = d.used \ {p} /\ t.registered = d.registered
      /\ t.up = d.up /\ t.fd = d.fd /\ t.fdSet = d.fdSet /\ t.file = d.file
      /\ t.frames = d.frames /\ d.alias \ {p} \subseteq t.alias
      /\ d.ifs \ {p} \subseteq t.ifs
  <2>1. CASE "tapDelete" \in F
    BY <1>3, <1>4, <2>1 DEF PortState
  <2>2. CASE "tapDelete" \notin F
    BY <1>3, <1>4, <2>2 DEF PortState
  <2> QED BY <2>1, <2>2
<1>6. Agree(t)
  BY <1>1, <1>4, <1>5 DEF Agree, Open
<1>7. Keeps(s, t)
  BY <1>1, <1>5 DEF Keeps
<1> QED BY <1>1, <1>5, <1>6, <1>7 DEF TapInv, t

(* nas_int_port_create: a failed registration takes the port back.          *)
LEMMA PortCreateInv ==
  ASSUME NEW s, TableInv(s), NEW p \in Ports, p \notin s.used, NEW F
  PROVE  LET t == PortCreate(s, p, F)
         IN /\ TableInv(t) /\ Keeps(s, t)
            /\ s.used \subseteq t.used /\ t.used \subseteq s.used \cup {p}
            /\ s.alias \ {p} \subseteq t.alias
            /\ "register" \notin F => p \in t.used /\ t.alias = s.alias
<1> DEFINE c == [s EXCEPT !.used = @ \cup {p}, !.ifs = @ \cup {p}]
<1>0. s \in PortState /\ Agree(s) /\ s.used = s.registered
  BY DEF TableInv, TapInv
<1>1. /\ c \in PortState /\ c.used = s.used \cup {p} /\ c.ifs = s.ifs \cup {p}
      /\ c.up = s.up /\ c.fd = s.fd /\ c.fdSet = s.fdSet /\ c.file = s.file
      /\ c.frames = s.frames /\ c.alias = s.alias /\ c.registered = s.registered
  BY <1>0 DEF PortState
<1> HIDE DEF c
<1>2. TapInv(c) /\ Keeps(s, c)
  BY <1>0, <1>1 DEF TapInv, Agree, Keeps, Open
<1>3. CASE "register" \in F
  <2> DEFINE t == PortDel(c, p, F)
  <2>1. PortCreate(s, p, F) = t
    BY <1>3 DEF PortCreate, c
  <2>2. /\ TapInv(t) /\ Keeps(c, t)
        /\ t.used = c.used \ {p} /\ t.registered = c.registered
        /\ c.alias \ {p} \subseteq t.alias
    BY <1>2, PortDelInv
  <2> HIDE DEF t
  <2>3. t.used = s.used
    BY <1>1, <2>2
  <2>4. Keeps(s, t)
    BY <1>1, <2>2 DEF Keeps
  <2> QED BY <1>0, <1>1, <1>3, <2>1, <2>2, <2>3, <2>4 DEF TableInv
<1>4. CASE "register" \notin F
  <2> DEFINE t == [c EXCEPT !.registered = @ \cup {p}]
  <2>1. PortCreate(s, p, F) = t
    BY <1>4 DEF PortCreate, c
  <2>2. /\ t \in PortState /\ t.used = c.used /\ t.ifs = c.ifs
        /\ t.up = c.up /\ t.fd = c.fd /\ t.fdSet = c.fdSet /\ t.file = c.file
        /\ t.frames = c.frames /\ t.alias = c.alias
        /\ t.registered = c.registered \cup {p}
    BY <1>1 DEF PortState
  <2> HIDE DEF t
  <2>3. TapInv(t) /\ Keeps(s, t)
    BY <1>1, <1>2, <2>2 DEF TapInv, Agree, Keeps, Open
  <2> QED BY <1>0, <1>1, <2>1, <2>2, <2>3 DEF TableInv
<1> QED BY <1>3, <1>4

(* nas_int_port_delete *)
LEMMA PortDeleteInv ==
  ASSUME NEW s, TableInv(s), NEW p \in Ports, NEW F
  PROVE  LET t == PortDelete(s, p, F)
         IN /\ TableInv(t) /\ Keeps(s, t)
            /\ t.used = s.used \ {p} /\ s.alias \ {p} \subseteq t.alias
<1> DEFINE c == [s EXCEPT !.registered = @ \ {p}]
           t == PortDelete(s, p, F)
<1>0. s \in PortState /\ Agree(s) /\ s.used = s.registered
  BY DEF TableInv, TapInv
<1>1. /\ c \in PortState /\ c.used = s.used /\ c.ifs = s.ifs
      /\ c.up = s.up /\ c.fd = s.fd /\ c.fdSet = s.fdSet /\ c.file = s.file
      /\ c.frames = s.frames /\ c.alias = s.alias
      /\ c.registered = s.registered \ {p}
  BY <1>0 DEF PortState
<1>2. t = PortDel(c, p, F)
  BY DEF PortDelete
<1> HIDE DEF c, t
<1>3. TapInv(c)
  BY <1>0, <1>1 DEF TapInv, Agree, Open
<1>4. /\ TapInv(t) /\ Keeps(c, t)
      /\ t.used = c.used \ {p} /\ t.registered = c.registered
      /\ c.alias \ {p} \subseteq t.alias
  BY <1>2, <1>3, PortDelInv
<1>5. Keeps(s, t)
  BY <1>1, <1>4 DEF Keeps
<1> QED BY <1>0, <1>1, <1>4, <1>5 DEF TableInv, t

-----------------------------------------------------------------------------
(* Steps that change the table under ports_lock. *)

(* What the packet threads hold stays good, or is noted as closed. *)
LEMMA ThreadsInv ==
  ASSUME NEW s, TableInv(nas), s \in PortState, Keeps(nas, s),
         Waiting, Sending, WriteFree, Becomes(s)
  PROVE  Waiting' /\ Sending'
<1>0. nas \in PortState /\ nas' = s
  BY DEF TableInv, TapInv, Becomes
<1>1. wait' = [wait EXCEPT !.gone = @ \cup (wait.fds \cap Closed(s))]
  BY DEF Becomes
<1>2. send' = [send EXCEPT !.gone = @ \cup ({send.fd} \cap Closed(s))]
  BY DEF Becomes
<1>3. Closed(s) \subseteq Fds
  BY DEF Closed
<1>4. /\ wait'.pc = wait.pc /\ wait'.fds = wait.fds /\ wait'.fd = wait.fd
      /\ wait'.port = wait.port /\ wait'.gone = wait.gone \cup (wait.fds \cap Closed(s))
      /\ wait' \in WaitState
  BY <1>1, <1>3 DEF Waiting, WaitState
<1>5. /\ send'.port = send.port /\ send'.fd = send.fd
      /\ send'.gone = send.gone \cup ({send.fd} \cap Closed(s))
      /\ send' \in SendState
  BY <1>2, <1>3 DEF Sending, SendState
<1>6. wait.fd = None
  BY DEF Waiting, WriteFree
<1>7. ASSUME wait.pc \in {"ready", "read"}, NEW n \in wait.fds PROVE HasFrame(n)'
  <2>0. n \in Fds
    BY DEF Waiting, WaitState
  <2>1. HasFrame(n)
    BY <1>7 DEF Waiting
  <2>2. CASE n \in wait.gone
    BY <1>4, <2>2 DEF HasFrame
  <2>3. CASE nas.file[n] # None /\ nas.frames[nas.file[n]] > 0
    <3>1. CASE s.file[n] = nas.file[n]
      BY <1>0, <2>0, <2>3, <3>1 DEF Keeps, HasFrame
    <3>2. CASE s.file[n] # nas.file[n]
      BY <1>4, <2>0, <2>3, <3>2 DEF Closed, HasFrame
    <3> QED BY <3>1, <3>2
  <2> QED BY <2>1, <2>2, <2>3 DEF HasFrame
<1>8. Waiting'
  BY <1>4, <1>6, <1>7 DEF Waiting
<1>9. Sending'
  <2>1. CASE send = NotSending
    <3>1. send.fd \notin Fds
      BY <2>1, NasPortAssumption DEF NotSending
    <3>2. send' = send
      BY <1>2, <1>3, <3>1, <2>1 DEF NotSending
    <3> QED BY <1>5, <2>1, <3>2 DEF Sending
  <2>2. CASE send # NotSending
    <3>1. /\ send.port \in Ports /\ send.fd \in Fds
          /\ nas.file[send.fd] = send.port \/ send.gone # {}
      BY <2>2 DEF Sending
    <3>2. send.port # None
      BY <3>1, NasPortAssumption
    <3>3. CASE nas.file[send.fd] # send.port
      BY <1>5, <3>1, <3>3 DEF Sending
    <3>4. CASE nas.file[send.fd] = send.port /\ s.file[send.fd] = send.port
      BY <1>0, <1>5, <3>1, <3>4 DEF Sending
    <3>5. CASE nas.file[send.fd] = send.port /\ s.file[send.fd] # send.port
      <4>1. send.fd \in Closed(s)
        BY <3>1, <3>2, <3>5 DEF Closed
      <4> QED BY <1>5, <3>1, <4>1 DEF Sending
    <3> QED BY <3>3, <3>4, <3>5
  <2> QED BY <2>1, <2>2
<1> QED BY <1>8, <1>9

(* A step that leaves the table and the packet threads alone. *)
LEMMA ThreadsStay ==
  ASSUME TableInv(nas), Waiting, Sending, UNCHANGED <<nas, wait, send>>
  PROVE  TableInv(nas') /\ Waiting' /\ Sending'
BY DEF Waiting, Sending, HasFrame

(* The failing calls are counted with natural numbers. *)
LEMMA WithinNat ==
  ASSUME NEW K \in SUBSET Calls, NEW F \in Within(K)
  PROVE  Cardinality(F) \in Nat
<1> DEFINE A == {"open"} \cup {"linkGet"}
           B == (A \cup {"register"}) \cup {"alias"}
           C == (B \cup {"tapDelete"}) \cup {"update"}
<1>1. IsFiniteSet(A)
  BY FS_Singleton, FS_AddElement
<1>2. IsFiniteSet(B)
  <2> HIDE DEF A
  <2>1. IsFiniteSet(A \cup {"register"})
    BY <1>1, FS_AddElement
  <2> QED BY <2>1, FS_AddElement
<1>3. IsFiniteSet(Calls)
  <2>1. IsFiniteSet(C)
    <3> HIDE DEF B
    <3>1. IsFiniteSet(B \cup {"tapDelete"})
      BY <1>2, FS_AddElement
    <3> QED BY <3>1, FS_AddElement
  <2>2. Calls = C \cup {"osGet"}
    BY DEF Calls
  <2> HIDE DEF C
  <2> QED BY <2>1, <2>2, FS_AddElement
<1>4. F \subseteq Calls
  BY DEF Within
<1> QED BY <1>3, <1>4, FS_Subset, FS_CardinalityType

(* What the creation of a port by a request or the reload keeps. *)
LEMMA BeginCreateInv ==
  ASSUME TableInv(nas), Waiting, Sending, Jobs,
         NEW p \in Ports, p \notin nas.used, NEW F, BeginCreate(p, F)
  PROVE  /\ TableInv(nas') /\ Waiting' /\ Sending' /\ Jobs'
         /\ nas.used \subseteq nas'.used /\ nas'.used \subseteq nas.used \cup {p}
         /\ nas.alias \ {p} \subseteq nas'.alias
         /\ "register" \notin F => p \in nas'.used /\ nas'.alias = nas.alias
<1> DEFINE t == PortCreate(nas, p, F)
<1>1. /\ TableInv(t) /\ Keeps(nas, t)
      /\ nas.used \subseteq t.used /\ t.used \subseteq nas.used \cup {p}
      /\ nas.alias \ {p} \subseteq t.alias
      /\ "register" \notin F => p \in t.used /\ t.alias = nas.alias
  BY PortCreateInv
<1>2. /\ WriteFree /\ Becomes(t) /\ nas' = t
      /\ job' = IF "register" \in F THEN NoJob
                ELSE [pc |-> "getLink", port |-> p, up |-> FALSE]
  BY DEF BeginCreate, Becomes
<1> HIDE DEF t
<1>3. Waiting' /\ Sending'
  BY <1>1, <1>2, ThreadsInv DEF TableInv, TapInv
<1>4. Jobs'
  <2>1. CASE "register" \in F
    BY <1>2, <2>1 DEF Jobs, JobState, NoJob, MaybePort
  <2>2. CASE "register" \notin F
    BY <1>1, <1>2, <2>2 DEF Jobs, JobState, MaybePort
  <2> QED BY <2>1, <2>2
<1> QED BY <1>1, <1>2, <1>3, <1>4

(* What is spent of the bounds stays a natural number. *)
LEMMA SpendType ==
  ASSUME Spent, NEW w \in {"requests", "links", "restarts", "frames"}, NEW k \in Nat
  PROVE  [spent EXCEPT ![w] = @ + 1, !.faults = @ + k]
           \in [{"requests", "links", "restarts", "frames", "faults"} -> Nat]
<1> DEFINE D == {"requests", "links", "restarts", "frames", "faults"}
           a == [spent EXCEPT ![w] = @ + 1]
<1>1. w \in D /\ "faults" \in D
  OBVIOUS
<1>2. spent \in [D -> Nat]
  BY DEF Spent
<1> HIDE DEF D
<1>3. a \in [D -> Nat]
  BY <1>1, <1>2
<1>4. [spent EXCEPT ![w] = @ + 1, !.faults = @ + k] = [a EXCEPT !["faults"] = @ + k]
  OBVIOUS
<1> HIDE DEF a
<1>5. [a EXCEPT !["faults"] = @ + k] \in [D -> Nat]
  BY <1>1, <1>3
<1> QED BY <1>4, <1>5 DEF D

(* A step that counts the calls that fail counts in natural numbers. *)
LEMMA SpentInv ==
  ASSUME Spent, NEW K \in SUBSET Calls, NEW F \in Within(K),
         \/ SpendFaults(F)
         \/ \E w \in {"requests", "links", "restarts", "frames"} : Spend(w, F)
  PROVE  Spent'
<1>1. Cardinality(F) \in Nat
  BY WithinNat
<1>2. CASE SpendFaults(F)
  BY <1>1, <1>2 DEF Spent, SpendFaults
<1>3. CASE \E w \in {"requests", "links", "restarts", "frames"} : Spend(w, F)
  <2>1. PICK w \in {"requests", "links", "restarts", "frames"} : Spend(w, F)
    BY <1>3
  <2> DEFINE k == Cardinality(F)
  <2>2. spent' = [spent EXCEPT ![w] = @ + 1, !.faults = @ + k]
    BY <2>1 DEF Spend
  <2> HIDE DEF k
  <2>3. spent' \in [{"requests", "links", "restarts", "frames", "faults"} -> Nat]
    BY <1>1, <2>2, SpendType DEF k
  <2> QED BY <2>3 DEF Spent
<1> QED BY <1>2, <1>3

(* Nothing failed. *)
LEMMA SpentNoFault ==
  ASSUME Spent, NEW w \in {"links", "frames"}, Spend(w, {})
  PROVE  Spent'
<1>1. Cardinality({}) \in Nat
  BY FS_EmptySet
<1> QED BY <1>1, SpendType DEF Spent, Spend

-----------------------------------------------------------------------------
(* The actions. *)

(* A request starts to create a port: nas_int_port_create. *)
LEMMA RequestCreateInv ==
  ASSUME IInv, NEW p \in Ports, RequestCreate(p)
  PROVE  IInv'
<1> USE DEF IInv
<1>1. PICK F \in Within({"register", "tapDelete"}) :
        BeginCreate(p, F) /\ Spend("requests", F)
  BY DEF RequestCreate
<1>2. /\ start.phase # "reload" /\ p \notin nas.used /\ granted' = granted \ {p}
      /\ lost' = [untracked |-> lost.untracked \ {p}, away |-> lost.away \ {p}]
      /\ UNCHANGED <<npuUp, events, cb, start>>
  BY DEF RequestCreate
<1>3. /\ TableInv(nas') /\ Waiting' /\ Sending' /\ Jobs'
      /\ nas.used \subseteq nas'.used /\ nas.alias \ {p} \subseteq nas'.alias
  BY <1>1, <1>2, BeginCreateInv
<1>4. Coming'
  BY <1>2, <1>3 DEF Coming
<1>5. Links'
  BY <1>1, <1>2 DEF Links, BeginCreate, Lost
<1>6. Spent'
  BY <1>1, SpentInv DEF Calls
<1> QED BY <1>3, <1>4, <1>5, <1>6

(* The reload creates a port again: what is still to come shrinks only by  *)
(* ports that are there or that failed.                                     *)
LEMMA ReloadInv ==
  ASSUME IInv, NEW p \in Ports, Reload(p)
  PROVE  IInv'
<1> USE DEF IInv
<1>1. PICK F \in Within({"register", "tapDelete"}) :
        /\ BeginCreate(p, F) /\ SpendFaults(F)
        /\ lost' = IF "register" \in F
                   THEN [untracked |-> lost.untracked \cup {p}, away |-> lost.away \cup {p}]
                   ELSE lost
  BY DEF Reload
<1>2. /\ start.phase = "reload" /\ p \in start.todo /\ p \notin nas.used
      /\ start' = [start EXCEPT !.todo = @ \ {p}]
      /\ UNCHANGED <<npuUp, events, cb, granted>>
  BY DEF Reload, Coming
<1>3. /\ TableInv(nas') /\ Waiting' /\ Sending' /\ Jobs'
      /\ nas.used \subseteq nas'.used /\ nas'.used \subseteq nas.used \cup {p}
      /\ nas.alias \ {p} \subseteq nas'.alias
      /\ "register" \notin F => p \in nas'.used /\ nas'.alias = nas.alias
  BY <1>1, <1>2, BeginCreateInv
<1>4. start'.phase = "reload" /\ start'.todo = start.todo \ {p}
  BY <1>2 DEF Links
<1>5. Coming'
  <2>1. CASE "register" \in F
    BY <1>1, <1>2, <1>3, <1>4, <2>1 DEF Coming
  <2>2. CASE "register" \notin F
    BY <1>1, <1>2, <1>3, <1>4, <2>2 DEF Coming
  <2> QED BY <2>1, <2>2
<1>6. Links'
  BY <1>1, <1>2 DEF Links, BeginCreate, Lost
<1>7. Spent'
  BY <1>1, SpentInv DEF Calls
<1> QED BY <1>3, <1>5, <1>6, <1>7

(* The creation reads the link state; its port stays in use meanwhile. *)
LEMMA JobGetLinkInv ==
  ASSUME IInv, JobGetLink
  PROVE  IInv'
<1> USE DEF IInv
<1>1. PICK F \in Within({"linkGet"}) :
        /\ job' = IF "linkGet" \in F THEN [job EXCEPT !.pc = "finish"]
                  ELSE [job EXCEPT !.pc = "setLink", !.up = job.port \in npuUp]
        /\ excused' = IF "linkGet" \in F THEN excused \cup {job.port} ELSE excused
        /\ SpendFaults(F)
  BY DEF JobGetLink
<1>2. job.pc = "getLink" /\ UNCHANGED <<nas, npuUp, events, cb, start, wait, send, granted, lost>>
  BY DEF JobGetLink
<1>3. job.port \in nas.used /\ job.port \in Ports
  BY <1>2 DEF Jobs, NoJob, TableInv, TapInv, PortState
<1>4. Jobs'
  <2>1. (job.port \in npuUp) \in BOOLEAN
    OBVIOUS
  <2>2. CASE "linkGet" \in F
    BY <1>1, <1>2, <1>3, <2>2 DEF Jobs, JobState
  <2>3. CASE "linkGet" \notin F
    <3> DEFINE b == job.port \in npuUp
    <3>1. job' = [job EXCEPT !.pc = "setLink", !.up = b] /\ b \in BOOLEAN
      BY <1>1, <2>3
    <3> HIDE DEF b
    <3> QED BY <1>2, <1>3, <3>1 DEF Jobs, JobState
  <2> QED BY <2>2, <2>3
<1>5. Links'
  BY <1>1, <1>2, <1>3 DEF Links
<1>6. Spent'
  BY <1>1, SpentInv DEF Calls
<1> QED BY <1>2, <1>4, <1>5, <1>6, ThreadsStay DEF Coming

(* set_link_state by the creation or by the callback *)
LEMMA SetLinkThreads ==
  ASSUME TableInv(nas), Waiting, Sending, WriteFree,
         NEW p \in nas.used, NEW up \in BOOLEAN, NEW F, NEW n \in NewFds(nas, p, up, F),
         Becomes(SetLinkState(nas, p, up, n, F))
  PROVE  /\ TableInv(nas') /\ Waiting' /\ Sending'
         /\ nas'.used = nas.used /\ nas'.alias = nas.alias
<1> DEFINE t == SetLinkState(nas, p, up, n, F)
<1>1. /\ TapInv(t) /\ Keeps(nas, t)
      /\ t.used = nas.used /\ t.registered = nas.registered /\ t.alias = nas.alias
  BY SetLinkStateInv DEF TableInv
<1>2. nas' = t /\ Becomes(t)
  BY DEF Becomes
<1> HIDE DEF t
<1>3. TableInv(t) /\ t \in PortState
  BY <1>1 DEF TableInv, TapInv
<1>4. Waiting' /\ Sending'
  BY <1>1, <1>2, <1>3, ThreadsInv
<1> QED BY <1>1, <1>2, <1>3, <1>4

(* The creation opens or closes the tap as it read the link. *)
LEMMA JobSetLinkInv ==
  ASSUME IInv, JobSetLink
  PROVE  IInv'
<1> USE DEF IInv
<1>0. PICK F \in Within({"open"}) : \E n \in NewFds(nas, job.port, job.up, F) :
        /\ Becomes(SetLinkState(nas, job.port, job.up, n, F))
        /\ excused' = IF (job.port \in nas'.up) # job.up
                      THEN excused \cup {job.port} ELSE excused
        /\ SpendFaults(F)
  BY DEF JobSetLink
<1>1. PICK n \in NewFds(nas, job.port, job.up, F) :
        /\ Becomes(SetLinkState(nas, job.port, job.up, n, F))
        /\ excused' = IF (job.port \in nas'.up) # job.up
                      THEN excused \cup {job.port} ELSE excused
        /\ SpendFaults(F)
  BY <1>0
<1>2. /\ job.pc = "setLink" /\ WriteFree
      /\ job' = [job EXCEPT !.pc = "finish", !.up = FALSE]
      /\ UNCHANGED <<npuUp, events, cb, start, granted, lost>>
  BY DEF JobSetLink
<1>3. job.port \in nas.used /\ job.port \in Ports /\ job.up \in BOOLEAN
  BY <1>2 DEF Jobs, JobState, NoJob, TableInv, TapInv, PortState
<1>4. /\ TableInv(nas') /\ Waiting' /\ Sending'
      /\ nas'.used = nas.used /\ nas'.alias = nas.alias
  BY <1>1, <1>2, <1>3, SetLinkThreads
<1>5. Jobs'
  BY <1>2, <1>3, <1>4 DEF Jobs, JobState
<1>6. Links'
  BY <1>1, <1>2, <1>3 DEF Links
<1>7. Spent'
  BY <1>1, SpentInv DEF Calls
<1> QED BY <1>2, <1>4, <1>5, <1>6, <1>7 DEF Coming

(* A port that a client is told of has the alias for the reload, or is      *)
(* noted as one without.                                                    *)
LEMMA JobFinishInv ==
  ASSUME IInv, JobFinish
  PROVE  IInv'
<1> USE DEF IInv
<1>1. PICK F \in Within({"alias", "update"}) :
        /\ nas' = Tracked(nas, job.port, F)
        /\ granted' = IF start.phase = "reload" \/ "update" \in F THEN granted
                      ELSE granted \cup {job.port}
        /\ lost' = IF "alias" \notin F
                   THEN [lost EXCEPT !.untracked = @ \ {job.port}]
                   ELSE [lost EXCEPT !.untracked = @ \cup ({job.port} \ nas.alias)]
        /\ SpendFaults(F)
  BY DEF JobFinish
<1>2. /\ job.pc = "finish" /\ job' = NoJob
      /\ UNCHANGED <<npuUp, events, cb, start, wait, send, excused>>
  BY DEF JobFinish
<1>3. nas \in PortState /\ job.port \in nas.used /\ job.port \in Ports
  BY <1>2 DEF Jobs, NoJob, TableInv, TapInv, PortState
<1>4. /\ nas' \in PortState /\ nas'.used = nas.used /\ nas'.ifs = nas.ifs
      /\ nas'.up = nas.up /\ nas'.fd = nas.fd /\ nas'.fdSet = nas.fdSet
      /\ nas'.file = nas.file /\ nas'.frames = nas.frames
      /\ nas'.registered = nas.registered
      /\ nas.alias \subseteq nas'.alias /\ ("alias" \notin F => job.port \in nas'.alias)
  BY <1>1, <1>3 DEF Tracked, PortState
<1>5. TableInv(nas')
  BY <1>4 DEF TableInv, TapInv, Agree, Open
<1>6. Waiting' /\ Sending'
  BY <1>2, <1>4 DEF Waiting, Sending, HasFrame
<1>7. Jobs'
  BY <1>2 DEF Jobs, JobState, NoJob, MaybePort
<1>8. /\ lost' \in Lost /\ lost'.away = lost.away
      /\ lost.untracked \subseteq lost'.untracked \cup {job.port}
      /\ job.port \in nas'.alias \/ job.port \in lost'.untracked
  <2>1. PICK U : U = IF "alias" \notin F THEN lost.untracked \ {job.port}
                     ELSE lost.untracked \cup ({job.port} \ nas.alias)
    OBVIOUS
  <2>2. lost' = [lost EXCEPT !.untracked = U]
    BY <1>1, <2>1
  <2>3. lost \in Lost /\ U \in SUBSET Ports
    BY <1>3, <2>1 DEF Links, Lost
  <2>4. lost' \in Lost /\ lost'.away = lost.away /\ lost'.untracked = U
    BY <2>2, <2>3 DEF Lost
  <2> QED BY <1>4, <2>1, <2>4
<1>9. Coming'
  BY <1>1, <1>2, <1>3, <1>4, <1>8 DEF Coming
<1>10. Links'
  BY <1>1, <1>2, <1>3, <1>8 DEF Links
<1>11. Spent'
  BY <1>1, SpentInv DEF Calls
<1> QED BY <1>5, <1>6, <1>7, <1>9, <1>10, <1>11

(* A deleted port is no longer promised, whether its tap goes or not. *)
LEMMA RequestDeleteInv ==
  ASSUME IInv, NEW p \in Ports, RequestDelete(p)
  PROVE  IInv'
<1> USE DEF IInv
<1>1. PICK F \in Within({"tapDelete"}) :
        Becomes(PortDelete(nas, p, F)) /\ Spend("requests", F)
  BY DEF RequestDelete
<1>2. /\ start.phase # "reload" /\ job = NoJob /\ WriteFree
      /\ excused' = excused \ {p} /\ granted' = granted \ {p}
      /\ UNCHANGED <<npuUp, events, cb, job, start, lost>>
  BY DEF RequestDelete
<1> DEFINE t == PortDelete(nas, p, F)
<1>3. /\ TableInv(t) /\ Keeps(nas, t)
      /\ t.used = nas.used \ {p} /\ nas.alias \ {p} \subseteq t.alias
  BY PortDeleteInv
<1>4. nas' = t /\ Becomes(t)
  BY <1>1 DEF Becomes
<1> HIDE DEF t
<1>5. Waiting' /\ Sending'
  BY <1>2, <1>3, <1>4, ThreadsInv DEF TableInv, TapInv
<1>6. Jobs' /\ Coming' /\ Links'
  BY <1>2, <1>3, <1>4 DEF Jobs, Coming, Links
<1>7. Spent'
  BY <1>1, SpentInv DEF Calls
<1> QED BY <1>3, <1>4, <1>5, <1>6, <1>7

(* The link of a port changes in the NPU, which queues the callback. *)
LEMMA LinkChangeInv ==
  ASSUME IInv, NEW p \in Ports, LinkChange(p)
  PROVE  IInv'
<1> USE DEF IInv
<1>1. /\ npuUp' = IF p \in npuUp THEN npuUp \ {p} ELSE npuUp \cup {p}
      /\ events' = Append(events, [port |-> p, up |-> p \notin npuUp])
      /\ Spend("links", {})
      /\ UNCHANGED <<nas, cb, job, start, wait, send, excused, granted, lost>>
  BY DEF LinkChange
<1>2. [port |-> p, up |-> p \notin npuUp] \in LinkEvent
  <2> DEFINE b == p \notin npuUp
  <2>1. b \in BOOLEAN
    OBVIOUS
  <2> HIDE DEF b
  <2>2. [port |-> p, up |-> b] \in LinkEvent
    BY <2>1 DEF LinkEvent
  <2> QED BY <2>2 DEF b
<1>3. events' \in Seq(LinkEvent)
  BY <1>1, <1>2 DEF Links
<1>4. Links'
  BY <1>1, <1>3 DEF Links
<1>5. Spent'
  BY <1>1, SpentNoFault
<1> QED BY <1>1, <1>4, <1>5, ThreadsStay DEF Jobs, Coming

(* The callback is looked up in the registry, or lost. *)
LEMMA CallbackLookupInv ==
  ASSUME IInv, CallbackLookup
  PROVE  IInv'
<1> USE DEF IInv
<1>1. /\ events # <<>> /\ events' = Tail(events)
      /\ cb' = <<>> \/ cb' = <<Head(events)>>
      /\ excused' = excused \/ excused' = excused \cup {Head(events).port}
      /\ UNCHANGED <<nas, npuUp, job, start, wait, send, granted, lost, spent>>
  BY DEF CallbackLookup
<1>2. Head(events) \in LinkEvent /\ Tail(events) \in Seq(LinkEvent)
  BY <1>1 DEF Links
<1>3. Head(events).port \in Ports
  BY <1>2 DEF LinkEvent
<1>4. Links'
  BY <1>1, <1>2, <1>3 DEF Links
<1> QED BY <1>1, <1>4, ThreadsStay DEF Jobs, Coming, Spent

(* The callback opens or closes the tap of a port in use, if it still is. *)
LEMMA CallbackApplyInv ==
  ASSUME IInv, CallbackApply
  PROVE  IInv'
<1> USE DEF IInv
<1> DEFINE e == cb[1]
           overtaken == job.pc = "setLink" /\ job.port = e.port
<1>1. /\ cb # <<>> /\ WriteFree /\ cb' = <<>>
      /\ UNCHANGED <<npuUp, events, job, start, granted, lost>>
  BY DEF CallbackApply
<1>2. e \in LinkEvent /\ e.port \in Ports /\ e.up \in BOOLEAN
  BY <1>1 DEF Links, LinkEvent
<1>3. CASE ~CallbackApplies(nas, e)
  <2>1. UNCHANGED <<nas, wait, send, excused, spent>>
    BY <1>3 DEF CallbackApply
  <2>2. Links'
    BY <1>1, <2>1 DEF Links
  <2> QED BY <1>1, <2>1, <2>2, ThreadsStay DEF Jobs, Coming, Spent
<1>4. CASE CallbackApplies(nas, e)
  <2>0. PICK F \in Within({"open"}) : \E n \in NewFds(nas, e.port, e.up, F) :
          /\ Becomes(SetLinkState(nas, e.port, e.up, n, F))
          /\ excused' = excused \cup {e.port} \/ excused' = excused \ {e.port}
          /\ SpendFaults(F)
    BY <1>4 DEF CallbackApply
  <2>1. PICK n \in NewFds(nas, e.port, e.up, F) :
          /\ Becomes(SetLinkState(nas, e.port, e.up, n, F))
          /\ excused' = excused \cup {e.port} \/ excused' = excused \ {e.port}
          /\ SpendFaults(F)
    BY <2>0
  <2>2. e.port \in nas.used
    BY <1>4 DEF CallbackApplies
  <2>3. /\ TableInv(nas') /\ Waiting' /\ Sending'
        /\ nas'.used = nas.used /\ nas'.alias = nas.alias
    BY <1>1, <1>2, <2>1, <2>2, SetLinkThreads
  <2>4. Links'
    BY <1>1, <1>2, <2>1 DEF Links
  <2>5. Spent'
    BY <2>1, SpentInv DEF Calls
  <2> QED BY <1>1, <2>3, <2>4, <2>5 DEF Jobs, Coming
<1> QED BY <1>3, <1>4

(* After a crash the ports with an alias are still to come. *)
LEMMA RestartInv ==
  ASSUME IInv, Restart
  PROVE  IInv'
<1> USE DEF IInv
<1>1. PICK F \in Within({"osGet"}) :
        /\ start' = [phase |-> "reload", todo |-> IF "osGet" \in F THEN {} ELSE nas.alias]
        /\ lost' = [lost EXCEPT !.away = IF "osGet" \in F THEN granted ELSE lost.untracked]
        /\ Spend("restarts", F)
  BY DEF Restart
<1>2. /\ nas' = [nas EXCEPT !.used = {}, !.up = {}, !.fd = [p \in Ports |-> None],
                   !.fdSet = {}, !.registered = {}, !.file = [n \in Fds |-> None],
                   !.frames = [p \in Ports |-> 0]]
      /\ events' = <<>> /\ cb' = <<>> /\ job' = NoJob /\ excused' = {}
      /\ wait' = NotWaiting /\ send' = NotSending
      /\ UNCHANGED <<npuUp, granted>>
  BY DEF Restart
<1>3. nas \in PortState
  BY DEF TableInv, TapInv
<1>4. /\ nas'.used = {} /\ nas'.up = {} /\ nas'.fd = [p \in Ports |-> None]
      /\ nas'.fdSet = {} /\ nas'.registered = {} /\ nas'.file = [n \in Fds |-> None]
      /\ nas'.frames = [p \in Ports |-> 0]
      /\ nas'.ifs = nas.ifs /\ nas'.alias = nas.alias
      /\ nas' \in PortState
  BY <1>2, <1>3 DEF PortState, MaybePort, MaybeFd
<1>5. TableInv(nas')
  BY <1>4, NasPortAssumption DEF TableInv, TapInv, Agree, Open
<1>6. Waiting' /\ Sending' /\ Jobs'
  BY <1>2 DEF Waiting, Sending, Jobs, NotWaiting, NotSending, NoJob,
              WaitState, SendState, JobState, MaybePort, MaybeFd
<1>7. /\ lost' \in Lost /\ lost'.untracked = lost.untracked
      /\ lost'.away = IF "osGet" \in F THEN granted ELSE lost.untracked
  <2>1. PICK A : A = IF "osGet" \in F THEN granted ELSE lost.untracked
    OBVIOUS
  <2>2. lost' = [lost EXCEPT !.away = A] /\ lost \in Lost /\ A \in SUBSET Ports
    BY <1>1, <2>1 DEF Links, Lost
  <2>3. lost' \in Lost /\ lost'.untracked = lost.untracked /\ lost'.away = A
    BY <2>2 DEF Lost
  <2> QED BY <2>1, <2>3
<1>8. Coming'
  BY <1>1, <1>2, <1>4, <1>7 DEF Coming
<1>9. Links'
  <2>1. start' \in [phase : {"reload", "handlers", "up"}, todo : SUBSET Ports]
    BY <1>1, <1>3 DEF PortState
  <2> QED BY <1>2, <1>7, <2>1 DEF Links
<1>10. Spent'
  BY <1>1, SpentInv DEF Calls
<1> QED BY <1>5, <1>6, <1>8, <1>9, <1>10

(* The daemon goes on with its start: what was promised has come back. *)
LEMMA RegisterInv ==
  ASSUME IInv, RegisterHandlers \/ RegisterCallback
  PROVE  IInv'
<1> USE DEF IInv
<1>1. UNCHANGED <<nas, npuUp, events, cb, job, wait, send, excused, granted, lost, spent>>
  BY DEF RegisterHandlers, RegisterCallback
<1>2. start'.phase \in {"handlers", "up"} /\ start'.todo = start.todo
  <2>1. CASE RegisterHandlers
    BY <2>1 DEF RegisterHandlers, Links
  <2>2. CASE RegisterCallback
    BY <2>2 DEF RegisterCallback, Links
  <2> QED BY <2>1, <2>2
<1>3. start' \in [phase : {"reload", "handlers", "up"}, todo : SUBSET Ports]
  <2>1. CASE RegisterHandlers
    BY <2>1 DEF RegisterHandlers, Links
  <2>2. CASE RegisterCallback
    BY <2>2 DEF RegisterCallback, Links
  <2> QED BY <2>1, <2>2
<1>4. granted \ lost.away \subseteq nas.used
  <2>1. CASE RegisterHandlers
    BY <2>1 DEF RegisterHandlers, Coming
  <2>2. CASE RegisterCallback
    BY <2>2 DEF RegisterCallback, Coming
  <2> QED BY <2>1, <2>2
<1>5. Links'
  BY <1>1, <1>3 DEF Links
<1>6. Coming'
  BY <1>1, <1>2, <1>4 DEF Coming
<1> QED BY <1>1, <1>5, <1>6, ThreadsStay DEF Jobs, Spent

(* A packet more in a tap disturbs nobody. *)
LEMMA FrameOutInv ==
  ASSUME IInv, NEW p \in Ports, FrameOut(p)
  PROVE  IInv'
<1> USE DEF IInv
<1>1. /\ nas' = [nas EXCEPT !.frames[p] = @ + 1] /\ Spend("frames", {})
      /\ UNCHANGED <<npuUp, events, cb, job, start, wait, send, excused, granted, lost>>
  BY DEF FrameOut
<1>2. nas \in PortState
  BY DEF TableInv, TapInv
<1>3. /\ nas' \in PortState /\ nas'.used = nas.used /\ nas'.ifs = nas.ifs
      /\ nas'.up = nas.up /\ nas'.fd = nas.fd /\ nas'.fdSet = nas.fdSet
      /\ nas'.file = nas.file /\ nas'.alias = nas.alias
      /\ nas'.registered = nas.registered
      /\ \A q \in Ports : nas.frames[q] > 0 => nas'.frames[q] > 0
  BY <1>1, <1>2 DEF PortState
<1>4. TableInv(nas')
  BY <1>3 DEF TableInv, TapInv, Agree, Open
<1>5. ASSUME NEW n \in Fds, HasFrame(n) PROVE HasFrame(n)'
  <2>1. nas.file[n] # None => nas.file[n] \in Ports
    BY <1>2 DEF PortState, MaybePort
  <2> QED BY <1>1, <1>3, <1>5, <2>1 DEF HasFrame
<1>6. Waiting'
  BY <1>1, <1>3, <1>5 DEF Waiting, WaitState
<1>7. Sending'
  BY <1>1, <1>3 DEF Sending
<1>8. Jobs' /\ Coming' /\ Links'
  BY <1>1, <1>3 DEF Jobs, Coming, Links
<1>9. Spent'
  BY <1>1, SpentNoFault
<1> QED BY <1>4, <1>6, <1>7, <1>8, <1>9

(* The steps of the packet thread up to the read: what select found ready   *)
(* is open with a packet, and so is what is picked from it.                 *)
LEMMA WaitInv ==
  ASSUME IInv, WaitCopy \/ WaitSelect \/ WaitPick
  PROVE  IInv'
<1> USE DEF IInv
<1>1. UNCHANGED <<tables, send, spent>>
  BY DEF WaitCopy, WaitSelect, WaitPick
<1>2. nas' = nas /\ nas \in PortState /\ Agree(nas) /\ wait \in WaitState
  BY <1>1 DEF tables, TableInv, TapInv, Waiting
<1>3. CASE wait' = NotWaiting
  <2>1. Waiting'
    BY <1>3 DEF Waiting, NotWaiting, WaitState, MaybeFd, MaybePort
  <2> QED BY <1>1, <2>1 DEF tables, Sending, Jobs, Coming, Links, Spent
<1>4. CASE WaitCopy
  <2>1. wait' = [NotWaiting EXCEPT !.pc = "select", !.fds = nas.fdSet]
    BY <1>4 DEF WaitCopy
  <2>2. Waiting'
    BY <1>2, <2>1 DEF Waiting, NotWaiting, WaitState, MaybeFd, MaybePort, PortState
  <2> QED BY <1>1, <2>2 DEF tables, Sending, Jobs, Coming, Links, Spent
<1>5. CASE WaitSelect /\ wait' # NotWaiting
  <2>1. /\ wait.pc = "select"
        /\ wait' = [wait EXCEPT !.pc = "ready", !.fds = Ready(@), !.gone = {}]
    BY <1>5 DEF WaitSelect
  <2>2. Ready(wait.fds) \subseteq Fds
    BY DEF Ready, Open
  <2>3. /\ wait' \in WaitState /\ wait'.fd = wait.fd /\ wait'.fds = Ready(wait.fds)
    BY <1>2, <2>1, <2>2 DEF WaitState
  <2>4. wait.fd = None
    BY <2>1 DEF Waiting
  <2>5. \A n \in wait'.fds : nas.file[n] # None /\ nas.frames[nas.file[n]] > 0
    BY <2>3 DEF Ready, Open
  <2>6. Waiting'
    BY <1>2, <2>3, <2>4, <2>5 DEF Waiting, HasFrame
  <2> QED BY <1>1, <2>6 DEF tables, Sending, Jobs, Coming, Links, Spent
<1>6. CASE WaitPick /\ wait' # NotWaiting
  <2>1. PICK p \in nas.used :
          /\ nas.fd[p] \in wait.fds
          /\ wait' = [wait EXCEPT !.pc = "read", !.fds = @ \ {nas.fd[p]},
                                  !.fd = nas.fd[p], !.port = p]
    BY <1>6 DEF WaitPick
  <2>2. wait.pc \in {"ready", "read"}
    BY <1>6 DEF WaitPick
  <2>3. p \in Ports /\ nas.fd[p] \in Fds /\ nas.file[nas.fd[p]] = p
    BY <1>2, <2>1 DEF PortState, WaitState, Agree
  <2>4. /\ wait' \in WaitState /\ wait'.pc = "read" /\ wait'.fd = nas.fd[p]
        /\ wait'.port = p /\ wait'.fds = wait.fds \ {nas.fd[p]} /\ wait'.gone = wait.gone
    BY <1>2, <2>1, <2>3 DEF WaitState, MaybeFd, MaybePort
  <2>5. \A n \in wait.fds : HasFrame(n)'
    BY <1>2, <2>2, <2>4 DEF Waiting, HasFrame
  <2>6. Waiting'
    BY <1>2, <2>1, <2>3, <2>4, <2>5 DEF Waiting
  <2> QED BY <1>1, <2>6 DEF tables, Sending, Jobs, Coming, Links, Spent
<1> QED BY <1>3, <1>4, <1>5, <1>6

(* A packet is read: the other numbers that are ready are of other taps. *)
LEMMA WaitReadInv ==
  ASSUME IInv, WaitRead
  PROVE  IInv'
<1> USE DEF IInv
<1> DEFINE q == wait.port
<1>1. /\ wait.fd # None /\ nas.frames[nas.file[wait.fd]] > 0
      /\ nas' = [nas EXCEPT !.frames[nas.file[wait.fd]] = @ - 1]
      /\ wait' = [wait EXCEPT !.fd = None, !.port = None]
      /\ UNCHANGED <<npuUp, events, cb, job, start, send, excused, granted, lost, spent>>
  BY DEF WaitRead
<1>2. /\ wait \in WaitState /\ wait.pc = "read" /\ wait.fd \in Fds /\ q \in Ports
      /\ nas.file[wait.fd] = q /\ wait.fd \notin wait.fds
      /\ \A n \in wait.fds : HasFrame(n)
  BY <1>1 DEF Waiting
<1>3. nas \in PortState /\ Agree(nas)
  BY DEF TableInv, TapInv
<1>4. nas' = [nas EXCEPT !.frames[q] = @ - 1] /\ nas.frames[q] > 0
  BY <1>1, <1>2
<1> HIDE DEF q
<1>5. /\ nas' \in PortState /\ nas'.used = nas.used /\ nas'.ifs = nas.ifs
      /\ nas'.up = nas.up /\ nas'.fd = nas.fd /\ nas'.fdSet = nas.fdSet
      /\ nas'.file = nas.file /\ nas'.alias = nas.alias
      /\ nas'.registered = nas.registered
      /\ \A r \in Ports \ {q} : nas'.frames[r] = nas.frames[r]
  BY <1>2, <1>3, <1>4 DEF PortState
<1>6. TableInv(nas')
  BY <1>5 DEF TableInv, TapInv, Agree, Open
<1>7. /\ wait' \in WaitState /\ wait'.pc = wait.pc /\ wait'.fds = wait.fds
      /\ wait'.fd = None /\ wait'.gone = wait.gone
  BY <1>1, <1>2 DEF WaitState, MaybeFd, MaybePort
<1>8. ASSUME NEW n \in wait.fds PROVE HasFrame(n)'
  <2>1. n \in Fds /\ n # wait.fd /\ HasFrame(n)
    BY <1>2 DEF WaitState
  <2>2. nas.file[n] # q
    BY <1>2, <1>3, <2>1 DEF Agree
  <2>3. nas.file[n] # None => nas.file[n] \in Ports \ {q}
    BY <1>3, <2>1, <2>2 DEF PortState, MaybePort
  <2> QED BY <1>5, <1>7, <2>1, <2>3 DEF HasFrame
<1>9. Waiting'
  BY <1>7, <1>8 DEF Waiting
<1>10. Sending'
  BY <1>1, <1>5 DEF Sending
<1> QED BY <1>1, <1>5, <1>6, <1>9, <1>10 DEF Jobs, Coming, Links, Spent

(* The receive callback takes the number of a tap that is open, and lets    *)
(* it go with the write.                                                    *)
LEMMA SendInv ==
  ASSUME IInv, SendWrite \/ \E p \in Ports : SendLookup(p)
  PROVE  IInv'
<1> USE DEF IInv
<1>1. UNCHANGED <<tables, wait>>
  BY DEF SendWrite, SendLookup
<1>2. nas' = nas /\ nas \in PortState /\ Agree(nas)
  BY <1>1 DEF tables, TableInv, TapInv
<1>3. Sending' /\ Spent'
  <2>1. CASE SendWrite
    <3>1. send' = NotSending /\ spent' = spent
      BY <2>1 DEF SendWrite
    <3> QED BY <3>1 DEF Sending, Spent, NotSending, SendState, MaybeFd, MaybePort
  <2>2. CASE \E p \in Ports : SendLookup(p)
    <3>1. PICK p \in Ports : SendLookup(p)
      BY <2>2
    <3>2. /\ p \in nas.up /\ Spend("frames", {})
          /\ send' = [port |-> p, fd |-> nas.fd[p], gone |-> {}]
      BY <3>1 DEF SendLookup, NotSending
    <3>3. nas.fd[p] \in Fds /\ nas.file[nas.fd[p]] = p
      BY <1>2, <3>2 DEF PortState, Agree, MaybeFd
    <3>4. Sending'
      BY <1>2, <3>2, <3>3 DEF Sending, SendState, MaybeFd, MaybePort
    <3>5. Spent'
      BY <3>2, SpentNoFault
    <3> QED BY <3>4, <3>5
  <2> QED BY <2>1, <2>2
<1>4. Waiting'
  BY <1>1, <1>2 DEF Waiting, HasFrame
<1> QED BY <1>1, <1>3, <1>4 DEF tables, Jobs, Coming, Links

-----------------------------------------------------------------------------
(* The invariant, and what follows from it. *)

(* The first start of the daemon, with nothing in the kernel. *)
LEMMA InitInv == Init => IInv
<1> SUFFICES ASSUME Init PROVE IInv
  OBVIOUS
<1> USE NasPortAssumption DEF Init
<1>1. TableInv(nas)
  <2>1. nas \in PortState
    BY DEF PortState, MaybeFd, MaybePort
  <2>2. Agree(nas)
    BY DEF Agree, Open
  <2> QED BY <2>1, <2>2 DEF TableInv, TapInv
<1>2. Waiting /\ Sending /\ Jobs
  BY DEF Waiting, Sending, Jobs, NotWaiting, NotSending, NoJob,
         WaitState, SendState, JobState, MaybeFd, MaybePort
<1>3. Coming /\ Links /\ Spent
  BY DEF Coming, Links, Lost, Spent
<1> QED BY <1>1, <1>2, <1>3 DEF IInv

(* Every step keeps the invariant. *)
LEMMA NextInv == IInv /\ [Next]_vars => IInv'
<1> SUFFICES ASSUME IInv, [Next]_vars PROVE IInv'
  OBVIOUS
<1>1. ASSUME NEW p \in Ports,
             \/ RequestCreate(p) \/ RequestDelete(p) \/ Reload(p)
             \/ LinkChange(p) \/ FrameOut(p) \/ SendLookup(p)
      PROVE  IInv'
  BY <1>1, RequestCreateInv, RequestDeleteInv, ReloadInv, LinkChangeInv, FrameOutInv,
     SendInv
<1>2. CASE JobGetLink \/ JobSetLink \/ JobFinish
  BY <1>2, JobGetLinkInv, JobSetLinkInv, JobFinishInv
<1>3. CASE CallbackLookup \/ CallbackApply
  BY <1>3, CallbackLookupInv, CallbackApplyInv
<1>4. CASE Restart \/ RegisterHandlers \/ RegisterCallback
  BY <1>4, RestartInv, RegisterInv
<1>5. CASE WaitCopy \/ WaitSelect \/ WaitPick \/ WaitRead \/ SendWrite
  BY <1>5, WaitInv, WaitReadInv, SendInv
<1>6. CASE UNCHANGED vars
  BY <1>6, ThreadsStay DEF vars, IInv, Jobs, Coming, Links, Spent
<1> QED BY <1>1, <1>2, <1>3, <1>4, <1>5, <1>6 DEF Next

(* The invariant implies the properties. *)
LEMMA InvImplies ==
  IInv => /\ TypeOK /\ DescriptorsAgree /\ PortsComeBack
          /\ FramesFromOwnTap /\ FramesToOwnTap /\ ReadsDoNotWait
<1> SUFFICES ASSUME IInv
             PROVE  /\ TypeOK /\ DescriptorsAgree /\ PortsComeBack
                    /\ FramesFromOwnTap /\ FramesToOwnTap /\ ReadsDoNotWait
  OBVIOUS
<1> USE DEF IInv
<1>1. TypeOK
  BY DEF TypeOK, TableInv, TapInv, Waiting, Sending, Jobs, Links, Spent
<1>2. DescriptorsAgree
  BY DEF DescriptorsAgree, TableInv, TapInv, Agree
<1>3. PortsComeBack
  BY DEF PortsComeBack, Coming
<1>4. FramesFromOwnTap /\ ReadsDoNotWait
  BY DEF FramesFromOwnTap, ReadsDoNotWait, Waiting, HasFrame
<1>5. FramesToOwnTap
  BY DEF FramesToOwnTap, Sending
<1> QED BY <1>1, <1>2, <1>3, <1>4, <1>5

-----------------------------------------------------------------------------
(* Taps and links.  What a step does to the news, and to the taps of the    *)
(* ports it is not about.                                                   *)

LEMMA NewsAdded ==
  ASSUME NEW q \in Seq(LinkEvent), NEW e \in LinkEvent, NEW t, t = Append(q, e)
  PROVE  /\ About(t, e.port) /\ Last(t, e.port, e.up)
         /\ \A p : p # e.port => /\ About(t, p) <=> About(q, p)
                              /\ \A up : Last(q, p, up) => Last(t, p, up)
<1>1. /\ t \in Seq(LinkEvent) /\ Len(t) = Len(q) + 1 /\ t[Len(t)] = e /\ Len(q) \in Nat
      /\ \A i \in 1..Len(q) : t[i] = q[i]
  BY AppendProperties
<1>2. \A i \in 1..Len(t) : i \in 1..Len(q) \/ i = Len(t)
  BY <1>1
<1>3. About(t, e.port)
  BY <1>1 DEF About
<1>4. Last(t, e.port, e.up)
  <2> SUFFICES ASSUME NEW i \in 1..Len(t), \A j \in (i + 1)..Len(t) : t[j].port # e.port
               PROVE  t[i] = e
    BY DEF Last
  <2>1. CASE i \in 1..Len(q)
    <3>1. Len(t) \in (i + 1)..Len(t)
      BY <1>1, <2>1
    <3> QED BY <1>1, <3>1
  <2> QED BY <1>1, <1>2, <2>1
<1>5. ASSUME NEW p, p # e.port PROVE About(t, p) <=> About(q, p)
  BY <1>1, <1>2, <1>5 DEF About
<1>6. ASSUME NEW p, p # e.port, NEW up, Last(q, p, up) PROVE Last(t, p, up)
  <2> SUFFICES ASSUME NEW i \in 1..Len(t), t[i].port = p,
                      \A j \in (i + 1)..Len(t) : t[j].port # p
               PROVE  t[i].up = up
    BY DEF Last
  <2>1. i \in 1..Len(q)
    BY <1>1, <1>2, <1>6
  <2>2. \A j \in (i + 1)..Len(q) : j \in (i + 1)..Len(t) /\ t[j] = q[j]
    BY <1>1, <2>1
  <2> QED BY <1>1, <1>6, <2>1, <2>2 DEF Last
<1> QED BY <1>3, <1>4, <1>5, <1>6

LEMMA NewsTaken ==
  ASSUME NEW q \in Seq(LinkEvent), q # <<>>, NEW t, t = Tail(q), NEW e, e = Head(q)
  PROVE  /\ e \in LinkEvent /\ About(q, e.port)
         /\ \A p, up : Last(q, p, up) => Last(t, p, up)
         /\ \A p : About(t, p) => About(q, p)
         /\ \A p : About(q, p) /\ ~About(t, p) =>
               p = e.port /\ \A up : Last(q, p, up) => e.up = up
<1>1. /\ t \in Seq(LinkEvent) /\ Len(t) = Len(q) - 1 /\ Len(q) \in Nat \ {0}
      /\ e = q[1] /\ e \in LinkEvent /\ \A i \in 1..Len(t) : t[i] = q[i + 1]
  BY HeadTailProperties, LenProperties
<1>2. \A i \in 1..Len(q) : i = 1 \/ (i - 1 \in 1..Len(t) /\ t[i - 1] = q[i])
  BY <1>1
<1>3. \A i \in 1..Len(t) : i + 1 \in 1..Len(q)
  BY <1>1
<1>4. 1 \in 1..Len(q)
  BY <1>1
<1>5. ASSUME NEW p, NEW up, Last(q, p, up) PROVE Last(t, p, up)
  <2> SUFFICES ASSUME NEW i \in 1..Len(t), t[i].port = p,
                      \A j \in (i + 1)..Len(t) : t[j].port # p
               PROVE  t[i].up = up
    BY DEF Last
  <2>1. ASSUME NEW j \in (i + 2)..Len(q) PROVE q[j].port # p
    <3>1. j - 1 \in (i + 1)..Len(t) /\ j \in 1..Len(q) /\ j # 1
      BY <1>1
    <3> QED BY <1>2, <3>1
  <2> QED BY <1>1, <1>3, <1>5, <2>1 DEF Last
<1>6. ASSUME NEW p, About(t, p) PROVE About(q, p)
  BY <1>1, <1>3, <1>6 DEF About
<1>7. ASSUME NEW p, About(q, p), ~About(t, p)
      PROVE  p = e.port /\ \A up : Last(q, p, up) => e.up = up
  <2>1. ASSUME NEW j \in 2..Len(q) PROVE q[j].port # p
    <3>1. j \in 1..Len(q) /\ j # 1
      BY <1>1
    <3> QED BY <1>2, <1>7, <3>1 DEF About
  <2>2. PICK i \in 1..Len(q) : q[i].port = p
    BY <1>7 DEF About
  <2>3. i = 1
    BY <1>1, <2>1, <2>2
  <2>4. ASSUME NEW up, Last(q, p, up) PROVE e.up = up
    <3>1. \A j \in (1 + 1)..Len(q) : q[j].port # p
      BY <2>1
    <3> QED BY <1>1, <1>4, <2>2, <2>3, <2>4, <3>1 DEF Last
  <2> QED BY <1>1, <2>2, <2>3, <2>4
<1> QED BY <1>1, <1>4, <1>5, <1>6, <1>7 DEF About

LEMMA HeadAndTail ==
  ASSUME NEW q \in Seq(LinkEvent), q # <<>>, NEW t \in Seq(LinkEvent), t # <<>>,
         Head(t) = Head(q), Tail(t) = Tail(q)
  PROVE  t = q
<1>1. /\ Len(q) \in Nat \ {0} /\ Head(q) = q[1] /\ Len(Tail(q)) = Len(q) - 1
      /\ \A i \in 1..Len(Tail(q)) : Tail(q)[i] = q[i + 1]
  BY HeadTailProperties, LenProperties
<1>2. /\ Len(t) \in Nat \ {0} /\ Head(q) = t[1] /\ Len(Tail(q)) = Len(t) - 1
      /\ \A i \in 1..Len(Tail(q)) : Tail(q)[i] = t[i + 1]
  <2>1. /\ Len(t) \in Nat \ {0} /\ Head(t) = t[1] /\ Len(Tail(t)) = Len(t) - 1
        /\ \A i \in 1..Len(Tail(t)) : Tail(t)[i] = t[i + 1]
    BY HeadTailProperties, LenProperties
  <2> QED BY <2>1, Zenon
<1>3. Len(t) = Len(q)
  BY <1>1, <1>2
<1>4. ASSUME NEW i \in 1..Len(q) PROVE t[i] = q[i]
  <2>1. CASE i = 1
    BY <1>1, <1>2, <2>1
  <2>2. CASE i # 1
    <3>1. i - 1 \in 1..Len(Tail(q)) /\ (i - 1) + 1 = i
      BY <1>1, <2>2
    <3> QED BY <1>1, <1>2, <3>1
  <2> QED BY <2>1, <2>2
<1> QED BY <1>3, <1>4, SeqEqual

LEMMA NewsJoins ==
  ASSUME NEW q \in Seq(LinkEvent), NEW c, c = <<>> \/ \E e \in LinkEvent : c = <<e>>,
         NEW t, t = c \o q
  PROVE  /\ t \in Seq(LinkEvent) /\ c \in Seq(LinkEvent)
         /\ c = <<>> => t = q
         /\ c # <<>> => t # <<>> /\ Head(t) = c[1] /\ Tail(t) = q
<1>1. CASE c = <<>>
  BY <1>1, ConcatEmptySeq
<1>2. CASE c # <<>>
  <2>1. PICK e \in LinkEvent : c = <<e>>
    BY <1>2
  <2>2. c \in Seq(LinkEvent) /\ Len(c) = 1 /\ c[1] = e
    BY <2>1
  <2>3. t \in Seq(LinkEvent) /\ Len(t) = Len(c) + Len(q)
    BY <2>2, ConcatProperties, ZenonT(40)
  <2>4. \A i \in 1..Len(c) + Len(q) : t[i] = IF i <= Len(c) THEN c[i] ELSE q[i - Len(c)]
    BY <2>2, ConcatProperties
  <2>5. Len(q) \in Nat /\ Len(t) = Len(q) + 1 /\ t # <<>>
    BY <2>2, <2>3, LenProperties
  <2>6. t[1] = e /\ \A i \in 1..Len(q) : t[i + 1] = q[i]
    BY <2>2, <2>4, <2>5
  <2>7. /\ Head(t) = t[1] /\ Tail(t) \in Seq(LinkEvent) /\ Len(Tail(t)) = Len(t) - 1
        /\ \A i \in 1..Len(Tail(t)) : Tail(t)[i] = t[i + 1]
    BY <2>3, <2>5, HeadTailProperties
  <2>8. Tail(t) = q
    BY <2>5, <2>6, <2>7, SeqEqual
  <2> QED BY <2>2, <2>3, <2>5, <2>6, <2>7, <2>8
<1> QED BY <1>1, <1>2

LEMMA NewsType ==
  ASSUME Links
  PROVE  /\ News \in Seq(LinkEvent) /\ cb \in Seq(LinkEvent)
         /\ cb = <<>> => News = events
         /\ cb # <<>> => News # <<>> /\ Head(News) = cb[1] /\ Tail(News) = events
<1>1. events \in Seq(LinkEvent) /\ (cb = <<>> \/ \E e \in LinkEvent : cb = <<e>>)
  BY DEF Links
<1> QED BY <1>1, NewsJoins DEF News

LEMMA NewsTypeNext ==
  ASSUME Links'
  PROVE  /\ News' \in Seq(LinkEvent)
         /\ cb' = <<>> => News' = events'
         /\ cb' # <<>> => News' # <<>> /\ Head(News') = cb'[1] /\ Tail(News') = events'
<1>1. events' \in Seq(LinkEvent) /\ (cb' = <<>> \/ \E e \in LinkEvent : cb' = <<e>>)
  BY DEF Links
<1>2. News' = cb' \o events'
  BY DEF News
<1> QED BY <1>1, <1>2, NewsJoins

(* set_link_state: the tap follows unless it does not open. *)
LEMMA SetLinkUp ==
  ASSUME NEW s, TapInv(s), NEW p \in s.used, NEW up \in BOOLEAN, NEW F,
         NEW n \in NewFds(s, p, up, F), NEW t, t = SetLinkState(s, p, up, n, F)
  PROVE  /\ \A q \in Ports \ {p} : q \in t.up <=> q \in s.up
         /\ (p \in t.up) = up \/ ("open" \in F /\ up /\ p \notin s.up)
<1>0. p \in Ports /\ s \in PortState /\ CloseFds(s, p) \in PortState /\ CloseFds(s, p).up = s.up
  BY CloseFdsInv DEF TapInv, PortState
<1>1. CASE (p \in s.up) = up
  BY <1>1 DEF SetLinkState
<1>2. CASE up /\ p \notin s.up /\ "open" \in F
  BY <1>0, <1>2 DEF SetLinkState
<1>3. CASE up /\ p \notin s.up /\ "open" \notin F
  <2>1. t = [TapLinkUp(s, p, n) EXCEPT !.up = @ \cup {p}]
    BY <1>3 DEF SetLinkState
  <2>2. TapLinkUp(s, p, n).up = s.up /\ t.up = TapLinkUp(s, p, n).up \cup {p}
    BY <1>0, <2>1 DEF TapLinkUp, UpdateFdSet, PortState
  <2> QED BY <1>3, <2>2
<1>4. CASE ~up /\ p \in s.up
  <2>1. t = [TapLinkDown(s, p) EXCEPT !.up = @ \ {p}]
    BY <1>4 DEF SetLinkState
  <2>2. t.up = s.up \ {p}
    BY <1>0, <2>1, LinkDownInv
  <2> QED BY <1>4, <2>2
<1> QED BY <1>1, <1>2, <1>3, <1>4

LEMMA PortDelUp ==
  ASSUME NEW s, TapInv(s), NEW p \in Ports, NEW F
  PROVE  \A q \in Ports \ {p} : q \in PortDel(s, p, F).up <=> q \in s.up
<1> DEFINE d == SetLinkState(s, p, FALSE, None, {})
           t == PortDel(s, p, F)
<1>1. TapInv(d) /\ p \notin d.up /\ \A q \in Ports \ {p} : q \in d.up <=> q \in s.up
  <2>1. CASE p \notin s.up
    BY <2>1 DEF SetLinkState
  <2>2. CASE p \in s.up
    <3>1. d = [TapLinkDown(s, p) EXCEPT !.up = @ \ {p}]
      BY <2>2 DEF SetLinkState
    <3> HIDE DEF d
    <3> QED BY <3>1, LinkDownInv
  <2> QED BY <2>1, <2>2
<1>2. TapLinkDown(d, p) = d
  BY <1>1, LinkDownAgain
<1>3. t = IF "tapDelete" \in F THEN [d EXCEPT !.used = @ \ {p}]
          ELSE [d EXCEPT !.used = @ \ {p}, !.ifs = @ \ {p}, !.alias = @ \ {p}]
  BY <1>2 DEF PortDel
<1> HIDE DEF d, t
<1>4. t.up = d.up
  BY <1>1, <1>3 DEF TapInv, PortState
<1> QED BY <1>1, <1>4 DEF t

(* Nothing of what Following speaks of changes. *)
LEMMA FollowingStays ==
  ASSUME Following, UNCHANGED <<events, cb, npuUp, excused, job>>,
         nas'.used = nas.used, nas'.up = nas.up
  PROVE  Following'
BY DEF Following, Followed, Last, About, News, Seen, Reading, Setting

LEMMA BeginCreateFollows ==
  ASSUME IInv, Following, NEW p \in Ports, p \notin nas.used, job = NoJob, NEW F,
         BeginCreate(p, F), UNCHANGED <<npuUp, events, cb>>
  PROVE  Following'
<1> DEFINE t == PortCreate(nas, p, F)
           c == [nas EXCEPT !.used = @ \cup {p}, !.ifs = @ \cup {p}]
<1>0. nas \in PortState /\ Agree(nas) /\ TableInv(nas)
  BY DEF IInv, TableInv, TapInv
<1>1. nas' = t /\ excused' = excused \ {p}
      /\ job' = IF "register" \in F THEN NoJob ELSE [pc |-> "getLink", port |-> p, up |-> FALSE]
  BY DEF BeginCreate, Becomes
<1>2. TableInv(t) /\ nas.used \subseteq t.used /\ t.used \subseteq nas.used \cup {p}
  BY <1>0, PortCreateInv
<1>3. /\ c \in PortState /\ c.used = nas.used \cup {p} /\ c.ifs = nas.ifs \cup {p}
      /\ c.up = nas.up /\ c.fd = nas.fd /\ c.fdSet = nas.fdSet /\ c.file = nas.file
      /\ c.registered = nas.registered
  BY <1>0 DEF PortState
<1>4. t = IF "register" \in F THEN PortDel(c, p, F)
          ELSE [c EXCEPT !.registered = @ \cup {p}]
  BY DEF PortCreate
<1> HIDE DEF c, t
<1>5. TapInv(c)
  BY <1>0, <1>3 DEF TapInv, Agree, Open
<1>6. \A q \in Ports \ {p} : q \in t.up <=> q \in nas.up
  BY <1>3, <1>4, <1>5, PortDelUp DEF PortState
<1>7. "register" \in F => p \notin t.used
  <2>1. "register" \in F => t.used = c.used \ {p}
    BY <1>4, <1>5, PortDelInv
  <2> QED BY <2>1
<1>8. ASSUME NEW q \in Ports PROVE Last(News, q, q \in npuUp)' /\ Followed(q)'
  <2>1. News' = News /\ npuUp' = npuUp
    BY DEF News
  <2>2. Last(News, q, q \in npuUp)'
    BY <2>1 DEF Following
  <2>3. CASE q = p
    <3>1. CASE "register" \in F
      <4>1. q \notin nas'.used
        BY <1>1, <1>7, <2>3, <3>1
      <4> QED BY <2>2, <4>1 DEF Followed
    <3>2. CASE "register" \notin F
      <4>1. job' = [pc |-> "getLink", port |-> q, up |-> FALSE]
        BY <1>1, <2>3, <3>2
      <4>2. job'.port = q /\ job'.pc = "getLink"
        BY <4>1
      <4>3. Seen(q)'
        BY <4>2 DEF Seen, Reading, Setting
      <4> QED BY <2>2, <4>3 DEF Followed
    <3> QED BY <3>1, <3>2
  <2>4. CASE q # p
    <3>1. ~Reading(q) /\ ~Setting(q) /\ ~Reading(q)' /\ ~Setting(q)'
      BY <1>1, <2>4 DEF NoJob, Reading, Setting
    <3>2. (q \in nas'.used <=> q \in nas.used) /\ (q \in nas'.up <=> q \in nas.up)
      BY <1>1, <1>2, <1>6, <2>4
    <3> QED BY <1>1, <2>1, <2>2, <2>4, <3>1, <3>2 DEF Following, Followed, Seen
  <2> QED BY <2>2, <2>3, <2>4
<1> QED BY <1>8 DEF Following

LEMMA RequestDeleteFollows ==
  ASSUME IInv, Following, NEW p \in Ports, RequestDelete(p)
  PROVE  Following'
<1> DEFINE c == [nas EXCEPT !.registered = @ \ {p}]
<1>0. nas \in PortState /\ Agree(nas) /\ TableInv(nas)
  BY DEF IInv, TableInv, TapInv
<1>1. PICK F \in Within({"tapDelete"}) : Becomes(PortDelete(nas, p, F))
  BY DEF RequestDelete
<1>2. excused' = excused \ {p} /\ UNCHANGED <<npuUp, events, cb, job>>
  BY DEF RequestDelete
<1>3. nas' = PortDelete(nas, p, F) /\ nas'.used = nas.used \ {p}
  BY <1>0, <1>1, PortDeleteInv DEF Becomes
<1>4. /\ c \in PortState /\ c.used = nas.used /\ c.ifs = nas.ifs
      /\ c.up = nas.up /\ c.fd = nas.fd /\ c.fdSet = nas.fdSet /\ c.file = nas.file
  BY <1>0 DEF PortState
<1>5. nas' = PortDel(c, p, F)
  BY <1>3 DEF PortDelete
<1> HIDE DEF c
<1>6. TapInv(c)
  BY <1>0, <1>4 DEF TapInv, Agree, Open
<1>7. \A q \in Ports \ {p} : q \in nas'.up <=> q \in nas.up
  BY <1>4, <1>5, <1>6, PortDelUp
<1>8. ASSUME NEW q \in Ports PROVE Last(News, q, q \in npuUp)' /\ Followed(q)'
  <2>1. News' = News /\ npuUp' = npuUp
    BY <1>2 DEF News
  <2>2. Last(News, q, q \in npuUp)'
    BY <2>1 DEF Following
  <2>3. CASE q = p
    <3>1. q \notin nas'.used
      BY <1>3, <2>3
    <3> QED BY <2>2, <3>1 DEF Followed
  <2>4. CASE q # p
    BY <1>2, <1>3, <1>7, <2>1, <2>4 DEF Following, Followed, Seen, Reading, Setting
  <2> QED BY <2>2, <2>3, <2>4
<1> QED BY <1>8 DEF Following

LEMMA JobFollows ==
  ASSUME IInv, Following, JobGetLink \/ JobFinish
  PROVE  Following'
<1>0. nas \in PortState /\ job \in JobState
  BY DEF IInv, TableInv, TapInv, Jobs
<1>1. UNCHANGED <<npuUp, events, cb>> /\ News' = News
  BY DEF JobGetLink, JobFinish, News
<1>2. nas'.used = nas.used /\ nas'.up = nas.up
  BY <1>0 DEF JobGetLink, JobFinish, Tracked, PortState
<1>3. ASSUME NEW p \in Ports PROVE Followed(p)'
  <2>1. CASE JobFinish
    <3>1. job.pc = "finish" /\ job'.port = None /\ excused' = excused
      BY <2>1 DEF JobFinish, NoJob
    <3>2. ~Reading(p) /\ ~Setting(p) /\ ~Reading(p)' /\ ~Setting(p)'
      BY <3>1, NasPortAssumption DEF Reading, Setting
    <3> QED BY <1>1, <1>2, <3>1, <3>2 DEF Following, Followed, Seen
  <2>2. CASE JobGetLink
    <3>1. PICK F : /\ job' = IF "linkGet" \in F THEN [job EXCEPT !.pc = "finish"]
                              ELSE [job EXCEPT !.pc = "setLink", !.up = job.port \in npuUp]
                   /\ excused' = IF "linkGet" \in F THEN excused \cup {job.port} ELSE excused
      BY <2>2 DEF JobGetLink
    <3>2. job.pc = "getLink" /\ job'.port = job.port
      BY <1>0, <2>2, <3>1 DEF JobGetLink, JobState
    <3>3. CASE p # job.port
      BY <1>1, <1>2, <3>1, <3>2, <3>3 DEF Following, Followed, Seen, Reading, Setting
    <3>4. CASE p = job.port /\ "linkGet" \in F
      BY <3>1, <3>4 DEF Followed
    <3>5. CASE p = job.port /\ "linkGet" \notin F
      <4> DEFINE b == job.port \in npuUp
      <4>1. job' = [job EXCEPT !.pc = "setLink", !.up = b]
        BY <3>1, <3>5
      <4> HIDE DEF b
      <4>2. job'.pc = "setLink" /\ job'.up = b
        BY <1>0, <4>1 DEF JobState
      <4> QED BY <1>1, <3>2, <3>5, <4>2 DEF Followed, Seen, Reading, Setting, b
    <3> QED BY <3>3, <3>4, <3>5
  <2> QED BY <2>1, <2>2
<1> QED BY <1>1, <1>3 DEF Following

LEMMA JobSetLinkFollows ==
  ASSUME IInv, Following, JobSetLink
  PROVE  Following'
<1>0. PICK F \in Within({"open"}) : \E n \in NewFds(nas, job.port, job.up, F) :
        /\ Becomes(SetLinkState(nas, job.port, job.up, n, F))
        /\ excused' = IF (job.port \in nas'.up) # job.up
                      THEN excused \cup {job.port} ELSE excused
  BY DEF JobSetLink
<1>1. PICK n \in NewFds(nas, job.port, job.up, F) :
        /\ Becomes(SetLinkState(nas, job.port, job.up, n, F))
        /\ excused' = IF (job.port \in nas'.up) # job.up
                      THEN excused \cup {job.port} ELSE excused
  BY <1>0
<1>2. /\ job.pc = "setLink" /\ UNCHANGED <<npuUp, events, cb>> /\ News' = News
      /\ job' = [job EXCEPT !.pc = "finish", !.up = FALSE]
  BY DEF JobSetLink, News
<1>3. TapInv(nas) /\ job.port \in nas.used /\ job.port \in Ports /\ job.up \in BOOLEAN
      /\ job'.pc = "finish"
  BY <1>2 DEF IInv, Jobs, JobState, NoJob, TableInv, TapInv, PortState
<1>4. nas' = SetLinkState(nas, job.port, job.up, n, F)
  BY <1>1 DEF Becomes
<1>5. nas'.used = nas.used
  BY <1>3, <1>4, SetLinkStateInv
<1>6. \A q \in Ports \ {job.port} : q \in nas'.up <=> q \in nas.up
  BY <1>3, <1>4, SetLinkUp
<1>7. ASSUME NEW p \in Ports PROVE Followed(p)'
  <2>1. ~Reading(p)' /\ ~Setting(p)' /\ ~Reading(p)
    BY <1>2, <1>3 DEF Reading, Setting
  <2>2. CASE p = job.port
    BY <1>1, <1>2, <1>5, <2>1, <2>2 DEF Following, Followed, Seen, Reading, Setting
  <2>3. CASE p # job.port
    <3>1. ~Setting(p) /\ (p \in nas'.up <=> p \in nas.up)
      BY <1>6, <2>3 DEF Setting
    <3> QED BY <1>1, <1>2, <1>5, <2>1, <2>3, <3>1 DEF Following, Followed, Seen
  <2> QED BY <2>2, <2>3
<1> QED BY <1>2, <1>7 DEF Following

LEMMA LinkChangeFollows ==
  ASSUME IInv, Following, NEW p \in Ports, LinkChange(p)
  PROVE  Following'
<1> DEFINE b == p \notin npuUp
           e == [port |-> p, up |-> b]
<1>1. /\ npuUp' = IF p \in npuUp THEN npuUp \ {p} ELSE npuUp \cup {p}
      /\ events' = Append(events, e) /\ UNCHANGED <<nas, cb, job, excused>>
  BY DEF LinkChange
<1>2. b \in BOOLEAN /\ b = (p \in npuUp')
  BY <1>1
<1> HIDE DEF b
<1>3. e \in LinkEvent /\ e.port = p /\ e.up = b
  BY <1>2 DEF LinkEvent
<1> HIDE DEF e
<1>4. News' = Append(News, e) /\ News \in Seq(LinkEvent)
  <2>1. Links /\ Links'
    BY LinkChangeInv DEF IInv
  <2>2. CASE cb = <<>>
    BY <1>1, <2>1, <2>2, NewsType, NewsTypeNext
  <2>3. CASE cb # <<>>
    <3>1. cb \in Seq(LinkEvent) /\ events \in Seq(LinkEvent)
      BY <2>1, NewsType DEF Links
    <3>2. Append(events, e) = events \o <<e>> /\ Append(News, e) = News \o <<e>>
          /\ <<e>> \in Seq(LinkEvent)
      BY <1>3, <2>1, <3>1, NewsType, AppendIsConcat
    <3>3. (cb \o events) \o <<e>> = cb \o (events \o <<e>>)
      BY <3>1, <3>2, ConcatAssociative
    <3> QED BY <1>1, <2>1, <3>2, <3>3, NewsType DEF News
  <2> QED BY <2>2, <2>3
<1>5. ASSUME NEW q \in Ports PROVE Last(News, q, q \in npuUp)' /\ Followed(q)'
  <2>1. CASE q = p
    BY <1>2, <1>3, <1>4, <2>1, NewsAdded, ZenonT(40) DEF Followed
  <2>2. CASE q # p
    <3>1. (q \in npuUp') = (q \in npuUp)
      BY <1>1, <2>2
    <3>2. Last(News', q, q \in npuUp) /\ (About(News', q) <=> About(News, q))
      BY <1>3, <1>4, <2>2, NewsAdded DEF Following
    <3> QED BY <1>1, <3>1, <3>2 DEF Following, Followed, Seen, Reading, Setting
  <2> QED BY <2>1, <2>2
<1> QED BY <1>5 DEF Following

LEMMA CallbackLookupFollows ==
  ASSUME IInv, Following, CallbackLookup
  PROVE  Following'
<1> DEFINE e == Head(events)
           heard == start.phase = "up" /\ e.port \in nas.registered
           missed == ~heard /\ e.port \in nas.used /\ ~Reading(e.port)
<1>1. /\ cb = <<>> /\ events # <<>> /\ events' = Tail(events)
      /\ cb' = IF heard THEN <<e>> ELSE <<>>
      /\ excused' = IF missed THEN excused \cup {e.port} ELSE excused
      /\ UNCHANGED <<nas, npuUp, job>>
  BY DEF CallbackLookup, Reading
<1>2. Links /\ Links' /\ nas.used \subseteq Ports
  BY CallbackLookupInv DEF IInv, TableInv, TapInv, PortState
<1>3. News = events /\ events \in Seq(LinkEvent)
  BY <1>1, <1>2, NewsType
<1>4. CASE heard
  <2>1. /\ News' \in Seq(LinkEvent) /\ News' # <<>>
        /\ Head(News') = Head(events) /\ Tail(News') = Tail(events)
    <3>1. cb' # <<>> /\ cb'[1] = e
      BY <1>1, <1>4
    <3> QED BY <1>1, <1>2, <3>1, NewsTypeNext
  <2>2. News' = events
    BY <1>1, <1>3, <2>1, HeadAndTail
  <2> QED BY <1>1, <1>3, <1>4, <2>2 DEF Following, Followed, Seen, Reading, Setting
<1>5. CASE ~heard
  <2>1. News' = Tail(events)
    <3>1. cb' = <<>>
      BY <1>1, <1>5
    <3> QED BY <1>1, <1>2, <3>1, NewsTypeNext
  <2>2. ASSUME NEW p \in Ports PROVE Last(News, p, p \in npuUp)' /\ Followed(p)'
    <3>1. Last(News', p, p \in npuUp)
      BY <1>1, <1>3, <2>1, NewsTaken DEF Following
    <3>2. CASE About(events, p) /\ ~About(Tail(events), p)
      <4>1. p = e.port
        BY <1>1, <1>3, <3>2, NewsTaken
      <4>2. p \in nas.used => p \in excused' \/ Reading(p)
        BY <1>1, <1>5, <4>1
      <4>3. ASSUME p \in nas'.used \ excused' PROVE Seen(p)'
        <5>1. job.port = p /\ job.pc = "getLink" /\ job' = job
          BY <1>1, <4>2, <4>3 DEF Reading
        <5> QED BY <5>1 DEF Seen, Reading, Setting
      <4>4. Followed(p)'
        BY <4>3 DEF Followed
      <4> QED BY <1>1, <3>1, <4>4
    <3>3. CASE About(Tail(events), p)
      BY <1>1, <2>1, <3>1, <3>3 DEF Followed
    <3>4. CASE ~About(events, p)
      <4>1. p \notin excused' => p \notin excused
        BY <1>1
      <4>2. nas' = nas /\ job' = job /\ npuUp' = npuUp
        BY <1>1
      <4> QED BY <1>3, <3>1, <3>4, <4>1, <4>2
               DEF Following, Followed, Seen, Reading, Setting
    <3> QED BY <3>2, <3>3, <3>4
  <2> QED BY <2>2 DEF Following
<1> QED BY <1>4, <1>5

LEMMA CallbackApplyFollows ==
  ASSUME IInv, Following, CallbackApply
  PROVE  Following'
<1> DEFINE e == cb[1]
<1>1. cb # <<>> /\ cb' = <<>> /\ UNCHANGED <<npuUp, events, job>>
  BY DEF CallbackApply
<1>2. Links /\ Links' /\ TapInv(nas) /\ nas.used \subseteq Ports
  BY CallbackApplyInv DEF IInv, TableInv, TapInv, PortState
<1>3. /\ News \in Seq(LinkEvent) /\ News # <<>> /\ e = Head(News)
      /\ News' = Tail(News)
  <2>1. News' = events'
    BY <1>1, <1>2, NewsTypeNext
  <2> QED BY <1>1, <1>2, <2>1, NewsType
<1> HIDE DEF e
<1>4. e \in LinkEvent /\ e.port \in Ports /\ e.up \in BOOLEAN
  <2>1. e \in LinkEvent
    BY <1>3, HeadTailProperties
  <2> QED BY <2>1 DEF LinkEvent
<1>5. \A p \in Ports : Last(News, p, p \in npuUp)'
  BY <1>1, <1>3, NewsTaken DEF Following
<1>6. CASE ~CallbackApplies(nas, e)
  <2>1. UNCHANGED <<nas, excused>> /\ e.port \notin nas.used
    BY <1>6 DEF CallbackApply, CallbackApplies, e
  <2>2. ASSUME NEW p \in Ports PROVE Followed(p)'
    <3>1. p # e.port => (About(News', p) <=> About(News, p))
      BY <1>3, NewsTaken
    <3> QED BY <1>1, <2>1, <3>1 DEF Following, Followed, Seen, Reading, Setting
  <2> QED BY <1>5, <2>2 DEF Following
<1>7. CASE CallbackApplies(nas, e)
  <2>0. PICK F \in Within({"open"}) : \E n \in NewFds(nas, e.port, e.up, F) :
          /\ Becomes(SetLinkState(nas, e.port, e.up, n, F))
          /\ excused' = IF Setting(e.port) \/ ("open" \in F /\ e.up /\ e.port \notin nas.up)
                        THEN excused \cup {e.port} ELSE excused \ {e.port}
    BY <1>7 DEF CallbackApply, Setting, e
  <2>1. PICK n \in NewFds(nas, e.port, e.up, F) :
          /\ Becomes(SetLinkState(nas, e.port, e.up, n, F))
          /\ excused' = IF Setting(e.port) \/ ("open" \in F /\ e.up /\ e.port \notin nas.up)
                        THEN excused \cup {e.port} ELSE excused \ {e.port}
    BY <2>0
  <2>2. e.port \in nas.used /\ nas' = SetLinkState(nas, e.port, e.up, n, F)
    BY <1>7, <2>1 DEF CallbackApplies, Becomes
  <2>3. nas'.used = nas.used
    BY <1>2, <1>4, <2>2, SetLinkStateInv
  <2>4. /\ \A q \in Ports \ {e.port} : q \in nas'.up <=> q \in nas.up
        /\ (e.port \in nas'.up) = e.up \/ ("open" \in F /\ e.up /\ e.port \notin nas.up)
    BY <1>2, <1>4, <2>2, SetLinkUp
  <2>5. ASSUME NEW p \in Ports PROVE Followed(p)'
    <3>1. CASE p = e.port
      <4> SUFFICES ASSUME p \notin excused', ~About(News', p) PROVE Seen(p)'
        BY DEF Followed
      <4>1. ~Setting(p) /\ ~Setting(p)' /\ (p \in nas'.up) = e.up
        BY <1>1, <2>1, <2>4, <3>1 DEF Setting
      <4>2. e.up = (p \in npuUp)
        <5>1. About(News, p) /\ Last(News, p, p \in npuUp)
          BY <1>3, <3>1, NewsTaken DEF Following
        <5> QED BY <1>3, <5>1, NewsTaken
      <4> QED BY <1>1, <4>1, <4>2 DEF Seen
    <3>2. CASE p # e.port
      <4>1. (About(News', p) <=> About(News, p)) /\ (p \in excused' <=> p \in excused)
        BY <1>3, <2>1, <3>2, NewsTaken
      <4>2. p \in nas'.up <=> p \in nas.up
        BY <2>4, <3>2
      <4> QED BY <1>1, <2>3, <4>1, <4>2 DEF Following, Followed, Seen, Reading, Setting
    <3> QED BY <3>1, <3>2
  <2> QED BY <1>5, <2>5 DEF Following
<1> QED BY <1>6, <1>7

LEMMA RestartFollows ==
  ASSUME IInv, Following, Restart
  PROVE  Following'
<1>1. nas'.used = {}
  BY DEF Restart, IInv, TableInv, TapInv, PortState
<1>2. News' = <<>>
  <2>1. cb' = <<>> /\ events' = <<>> /\ <<>> \in Seq(LinkEvent)
    BY DEF Restart
  <2> QED BY <2>1, ConcatEmptySeq DEF News
<1> QED BY <1>1, <1>2 DEF Following, Followed, Last

(* Every step keeps the taps where the links are, or on their way there. *)
LEMMA NextFollows == IInv /\ Following /\ [Next]_vars => Following'
<1> SUFFICES ASSUME IInv, Following, [Next]_vars PROVE Following'
  OBVIOUS
<1>1. ASSUME NEW p \in Ports, RequestCreate(p) \/ Reload(p) PROVE Following'
  <2>1. p \notin nas.used /\ job = NoJob /\ UNCHANGED <<npuUp, events, cb>>
    BY <1>1 DEF RequestCreate, Reload, IInv, Coming
  <2>2. \E F : BeginCreate(p, F)
    BY <1>1 DEF RequestCreate, Reload
  <2> QED BY <2>1, <2>2, BeginCreateFollows
<1>2. ASSUME NEW p \in Ports, RequestDelete(p) \/ LinkChange(p) PROVE Following'
  BY <1>2, RequestDeleteFollows, LinkChangeFollows
<1>3. ASSUME NEW p \in Ports, FrameOut(p) \/ SendLookup(p) PROVE Following'
  BY <1>3, FollowingStays
     DEF FrameOut, SendLookup, tables, IInv, TableInv, TapInv, PortState
<1>4. CASE JobGetLink \/ JobSetLink \/ JobFinish
  BY <1>4, JobFollows, JobSetLinkFollows
<1>5. CASE CallbackLookup \/ CallbackApply \/ Restart
  BY <1>5, CallbackLookupFollows, CallbackApplyFollows, RestartFollows
<1>6. CASE RegisterHandlers \/ RegisterCallback
  BY <1>6, FollowingStays DEF RegisterHandlers, RegisterCallback
<1>7. CASE WaitCopy \/ WaitSelect \/ WaitPick \/ SendWrite
  BY <1>7, FollowingStays DEF WaitCopy, WaitSelect, WaitPick, SendWrite, tables
<1>8. CASE WaitRead
  BY <1>8, FollowingStays DEF WaitRead, IInv, TableInv, TapInv, PortState
<1>9. CASE UNCHANGED vars
  BY <1>9, FollowingStays DEF vars
<1> QED BY <1>1, <1>2, <1>3, <1>4, <1>5, <1>6, <1>7, <1>8, <1>9 DEF Next

-----------------------------------------------------------------------------
(* The state of the ports, the taps and the threads stays well formed. *)
THEOREM TypeCorrect == Spec => []TypeOK
BY InitInv, NextInv, InvImplies, PTL DEF Spec

(* The port table, the taps, tap_fds and the kernel always say the same,    *)
(* whichever calls fail and however often the daemon restarts.              *)
THEOREM TapsAgree == Spec => []DescriptorsAgree
BY InitInv, NextInv, InvImplies, PTL DEF Spec

(* A port that a client was told of comes back after every restart, unless  *)
(* one of three failures that are named keeps it from it: of the alias when *)
(* it was created, of the list of interfaces at the start, and of its       *)
(* registration in the reload.                                              *)
THEOREM ComeBack == Spec => []PortsComeBack
BY InitInv, NextInv, InvImplies, PTL DEF Spec

(* A packet read from a tap is reported with the tap's port, even if the    *)
(* number was given to another tap since select.                            *)
THEOREM ReadsFromOwnTap == Spec => []FramesFromOwnTap
BY InitInv, NextInv, InvImplies, PTL DEF Spec

(* A packet of the NPU is written to the tap of its port or to none, unless *)
(* the number was closed after it was looked up.                            *)
THEOREM WritesToOwnTap == Spec => []FramesToOwnTap
BY InitInv, NextInv, InvImplies, PTL DEF Spec

(* The read under ports_lock finds a packet, unless the number was closed   *)
(* between select and the lock.                                             *)
THEOREM NoWaitingRead == Spec => []ReadsDoNotWait
BY InitInv, NextInv, InvImplies, PTL DEF Spec

(* Once no link change is pending each tap is as the link of its port, in   *)
(* whatever order creations, the reload and the callbacks ran, but for the  *)
(* ports that excused names.                                                *)
THEOREM TapsFollow == Spec => []TapsFollowLinks
<1>1. Init => IInv /\ Following
  <2>1. Init => Following
    <3>1. Init => News = <<>> /\ nas.used = {}
      <4>1. Init => cb = <<>> /\ events = <<>> /\ <<>> \in Seq(LinkEvent)
        BY DEF Init
      <4> QED BY <4>1, ConcatEmptySeq DEF News, Init
    <3> QED BY <3>1 DEF Following, Followed, Last
  <2> QED BY <2>1, InitInv
<1>2. (IInv /\ Following) /\ [Next]_vars => (IInv /\ Following)'
  BY NextInv, NextFollows
<1>3. IInv /\ Following => TapsFollowLinks
  <2> SUFFICES ASSUME IInv, Following, job = NoJob, events = <<>>, cb = <<>>,
                      NEW p \in nas.used \ excused
               PROVE  (p \in nas.up) = (p \in npuUp)
    BY DEF TapsFollowLinks
  <2>1. p \in Ports
    BY DEF IInv, TableInv, TapInv, PortState
  <2>2. ~About(News, p)
    BY NewsType DEF About, IInv
  <2>3. ~Reading(p) /\ ~Setting(p)
    BY DEF Reading, Setting, NoJob
  <2> QED BY <2>1, <2>2, <2>3 DEF Following, Followed, Seen
<1> QED BY <1>1, <1>2, <1>3, PTL DEF Spec
=============================================================================
