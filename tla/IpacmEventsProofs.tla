------------------------- MODULE IpacmEventsProofs -------------------------
(* Theorems about IpacmEvents, for any interfaces and any number of changes: *)
(* the thread never sleeps on events, an interface has one object at most,   *)
(* and objects follow links, unless the USB link may come up with its        *)
(* carrier in one message.                                                   *)
EXTENDS IpacmEvents, TLAPS

\* The events that bring an interface up and down, and the deletion of its object.
UpOf(i)  == Evt(IF i \in Wlans THEN "AP_LINK_UP" ELSE "USB_LINK_UP", i)
DnOf(i)  == Evt(IF i \in Wlans THEN "WLAN_LINK_DOWN" ELSE "LINK_DOWN", i)
PreUp(i) == Evt("LINK_UP", i)
Del(i)   == Evt("LAN_DELETE_SELF", i)

Links    == Ifaces \ Wlans
NlEvent  == {UpOf(i) : i \in Links} \cup {DnOf(i) : i \in Links} \cup {PreUp(i) : i \in Links}
ExtEvent == NlEvent \cup {UpOf(w) : w \in Wlans} \cup {DnOf(w) : w \in Wlans} \cup {CfgChange}
IntEvent == {Del(i) : i \in Ifaces}

Types ==
  /\ link \in [Ifaces -> {"down", "noCarrier", "running"}]
  /\ file \in {"LAN", "WAN"} /\ cats \in [Ifaces -> {"LAN", "WAN", "WLAN", "UNKNOWN"}]
  /\ insts \subseteq Instance
  /\ ext \in Seq(ExtEvent) /\ decoded \in Seq(NlEvent) /\ int \in Seq(IntEvent)
  /\ thread \in {"running", "waiting"}
  /\ used \in [links : Nat, edits : Nat]

\* The categories an interface, and its object, may have.
CatsOf(i) == IF i \in Wlans THEN {"WLAN"} ELSE IF i = usb THEN {"LAN", "WAN"} ELSE {"WAN"}
TableKinds == \A i \in Ifaces : cats[i] \in CatsOf(i) \cup IF i \in Wlans THEN {"UNKNOWN"} ELSE {}
Kinds      == TableKinds /\ \A o \in insts : o.cat \in CatsOf(o.i)

\* An interface has one object at most.
Unique == \A o, p \in insts : o.i = p.i => o = p

\* One deletion waits at most, and the object it is for is the one that heeds nothing else.
Doomed ==
  /\ int = <<>> => \A o \in insts : o.is_active
  /\ int # <<>> => \E i \in Ifaces : int = <<Del(i)>> /\ \A o \in insts : o.is_active <=> o.i # i
  /\ \A o \in insts : ~o.is_active => o.cat # "WAN"

\* A USB object that is replaced has been told so by an edit of the file.
Switching ==
  \A o \in insts : o.is_mode_switch => ~o.is_active /\ o.i = usb /\ used.edits # 0

\* The file is read anew when it was edited only.
Holds(q, a) == \E k \in DOMAIN q : q[k] = a
Unedited == used.edits = 0 => ~Holds(ext, CfgChange)

\* What holds whatever the USB link does.
BasicInv == Types /\ Kinds /\ Unique /\ Doomed /\ Switching /\ Unedited

-----------------------------------------------------------------------------
\* What is still to be handled: events posted and events decoded.
Line == ext \o decoded
Follows(q, a, b) == \A k \in DOMAIN q : q[k] = a => \E j \in DOMAIN q : k < j /\ q[j] = b

\* A USB object of another category than the file's, as Q6_WAN: its link goes down again.
Category ==
  /\ \A o \in insts : o.i = usb /\ o.is_active /\ o.cat # cats[usb] => o.cat = "WAN" /\ o.mode = "Q6"
  /\ \A o \in insts : o.i = usb /\ o.cat = "WAN" /\ o.mode = "Q6" => Holds(Line, DnOf(usb))
  /\ Follows(Line, PreUp(usb), DnOf(usb))

\* A Wi-Fi interface that was given its category has its object.
Named == \A w \in Wlans : cats[w] = "WLAN" => \E o \in insts : o.i = w /\ o.is_active

\* An interface that is up is served, or will be told to be.
Rises ==
  \A i \in Ifaces : link[i] = "running" =>
    /\ Follows(Line, DnOf(i), UpOf(i))
    /\ Served(i) \/ Holds(Line, UpOf(i)) \/ \E o \in insts : o.i = i /\ o.is_mode_switch

\* One that is not has no object, or will be told to be down.
Falls ==
  \A i \in Ifaces : link[i] # "running" /\ (i = usb => used.edits = 0) =>
    /\ Follows(Line, UpOf(i), DnOf(i))
    /\ i \in Links => Follows(Line, PreUp(i), DnOf(i))
    /\ (\E o \in insts : o.i = i /\ o.is_active) => Holds(Line, DnOf(i))

\* The inductive invariant.
FollowInv == BasicInv /\ Category /\ Named /\ Rises /\ Falls

-----------------------------------------------------------------------------
(* Sequences of events *)

\* What is in two sequences, one after the other.
LEMMA Joined ==
  ASSUME NEW S, NEW q \in Seq(S), NEW r \in Seq(S)
  PROVE  /\ DOMAIN (q \o r) = 1 .. Len(q) + Len(r) /\ DOMAIN q = 1 .. Len(q) /\ DOMAIN r = 1 .. Len(r)
         /\ Len(q) \in Nat /\ Len(r) \in Nat
         /\ \A k \in 1 .. Len(q) : (q \o r)[k] = q[k]
         /\ \A k \in 1 .. Len(r) : (q \o r)[Len(q) + k] = r[k]
OBVIOUS

\* An event is held by two sequences if it is by one of them.
LEMMA HeldInEither ==
  ASSUME NEW S, NEW q \in Seq(S), NEW r \in Seq(S), NEW a
  PROVE  Holds(q \o r, a) <=> Holds(q, a) \/ Holds(r, a)
<1>1. ASSUME Holds(q \o r, a) PROVE Holds(q, a) \/ Holds(r, a)
  <2>1. PICK k \in 1 .. Len(q) + Len(r) : (q \o r)[k] = a
    BY <1>1, Joined DEF Holds
  <2>2. CASE k \in 1 .. Len(q)
    BY <2>1, <2>2, Joined DEF Holds
  <2>3. CASE k \notin 1 .. Len(q)
    <3>1. k - Len(q) \in 1 .. Len(r) /\ k = Len(q) + (k - Len(q))
      BY <2>3, Joined
    <3>2. r[k - Len(q)] = a
      BY <2>1, <3>1, Joined
    <3> QED BY <3>1, <3>2, Joined DEF Holds
  <2> QED BY <2>2, <2>3
<1>2. ASSUME Holds(q, a) PROVE Holds(q \o r, a)
  <2>1. PICK k \in 1 .. Len(q) : q[k] = a
    BY <1>2, Joined DEF Holds
  <2>2. k \in 1 .. Len(q) + Len(r) /\ (q \o r)[k] = a
    BY <2>1, Joined
  <2> QED BY <2>2, Joined DEF Holds
<1>3. ASSUME Holds(r, a) PROVE Holds(q \o r, a)
  <2>1. PICK k \in 1 .. Len(r) : r[k] = a
    BY <1>3, Joined DEF Holds
  <2>2. Len(q) + k \in 1 .. Len(q) + Len(r) /\ (q \o r)[Len(q) + k] = a
    BY <2>1, Joined
  <2> QED BY <2>2, Joined DEF Holds
<1> QED BY <1>1, <1>2, <1>3

\* One event follows another in two sequences if what is in the first is followed in it or by
\* the second, and what is in the second is followed in it.
LEMMA FollowsInBoth ==
  ASSUME NEW S, NEW q \in Seq(S), NEW r \in Seq(S), NEW a, NEW b
  PROVE  Follows(q \o r, a, b) <=> Follows(r, a, b) /\ (Follows(q, a, b) \/ Holds(r, b))
<1> DEFINE t == q \o r
<1>0. /\ DOMAIN t = 1 .. Len(q) + Len(r) /\ DOMAIN q = 1 .. Len(q) /\ DOMAIN r = 1 .. Len(r)
      /\ Len(q) \in Nat /\ Len(r) \in Nat
      /\ \A k \in 1 .. Len(q) : t[k] = q[k]
      /\ \A k \in 1 .. Len(r) : t[Len(q) + k] = r[k]
  BY Joined
<1> HIDE DEF t
<1>1. ASSUME Follows(t, a, b) PROVE Follows(r, a, b)
  <2> SUFFICES ASSUME NEW k \in 1 .. Len(r), r[k] = a
               PROVE  \E j \in 1 .. Len(r) : k < j /\ r[j] = b
    BY <1>0 DEF Follows
  <2>1. Len(q) + k \in 1 .. Len(q) + Len(r) /\ t[Len(q) + k] = a
    BY <1>0
  <2>2. PICK j \in 1 .. Len(q) + Len(r) : Len(q) + k < j /\ t[j] = b
    BY <1>0, <1>1, <2>1 DEF Follows
  <2>3. j - Len(q) \in 1 .. Len(r) /\ k < j - Len(q) /\ j = Len(q) + (j - Len(q))
    BY <1>0, <2>2
  <2>4. r[j - Len(q)] = b
    BY <1>0, <2>2, <2>3
  <2> QED BY <2>3, <2>4
<1>2. ASSUME Follows(t, a, b), ~Holds(r, b) PROVE Follows(q, a, b)
  <2> SUFFICES ASSUME NEW k \in 1 .. Len(q), q[k] = a
               PROVE  \E j \in 1 .. Len(q) : k < j /\ q[j] = b
    BY <1>0 DEF Follows
  <2>1. k \in 1 .. Len(q) + Len(r) /\ t[k] = a
    BY <1>0
  <2>2. PICK j \in 1 .. Len(q) + Len(r) : k < j /\ t[j] = b
    BY <1>0, <1>2, <2>1 DEF Follows
  <2>3. CASE j \in 1 .. Len(q)
    BY <1>0, <2>2, <2>3
  <2>4. CASE j \notin 1 .. Len(q)
    <3>1. j - Len(q) \in 1 .. Len(r) /\ j = Len(q) + (j - Len(q))
      BY <1>0, <2>4
    <3>2. r[j - Len(q)] = b
      BY <1>0, <2>2, <3>1
    <3> QED BY <1>0, <1>2, <3>1, <3>2 DEF Holds
  <2> QED BY <2>3, <2>4
<1>3. ASSUME Follows(r, a, b), Follows(q, a, b) \/ Holds(r, b) PROVE Follows(t, a, b)
  <2> SUFFICES ASSUME NEW k \in 1 .. Len(q) + Len(r), t[k] = a
               PROVE  \E j \in 1 .. Len(q) + Len(r) : k < j /\ t[j] = b
    BY <1>0 DEF Follows
  <2>1. CASE k \in 1 .. Len(q) /\ Follows(q, a, b)
    <3>1. PICK j \in 1 .. Len(q) : k < j /\ q[j] = b
      BY <1>0, <2>1 DEF Follows
    <3> QED BY <1>0, <3>1
  <2>2. CASE k \in 1 .. Len(q) /\ Holds(r, b)
    <3>1. PICK j \in 1 .. Len(r) : r[j] = b
      BY <1>0, <2>2 DEF Holds
    <3>2. Len(q) + j \in 1 .. Len(q) + Len(r) /\ k < Len(q) + j /\ t[Len(q) + j] = b
      BY <1>0, <2>2, <3>1
    <3> QED BY <3>2
  <2>3. CASE k \notin 1 .. Len(q)
    <3>1. k - Len(q) \in 1 .. Len(r) /\ k = Len(q) + (k - Len(q))
      BY <1>0, <2>3
    <3>2. r[k - Len(q)] = a
      BY <1>0, <3>1
    <3>3. PICK j \in 1 .. Len(r) : k - Len(q) < j /\ r[j] = b
      BY <1>0, <1>3, <3>1, <3>2 DEF Follows
    <3>4. Len(q) + j \in 1 .. Len(q) + Len(r) /\ k < Len(q) + j /\ t[Len(q) + j] = b
      BY <1>0, <3>1, <3>3
    <3> QED BY <3>4
  <2> QED BY <1>3, <2>1, <2>2, <2>3
<1> QED BY <1>1, <1>2, <1>3 DEF t

\* One event alone.
LEMMA Alone ==
  ASSUME NEW S, NEW c \in S, NEW a, NEW b
  PROVE  /\ <<c>> \in Seq(S) /\ (Holds(<<c>>, a) <=> a = c)
         /\ Follows(<<c>>, a, b) <=> a # c
<1>1. <<c>> \in Seq(S) /\ DOMAIN <<c>> = {1} /\ <<c>>[1] = c
  OBVIOUS
<1> QED BY <1>1 DEF Holds, Follows

\* One event is appended.
LEMMA Appended ==
  ASSUME NEW S, NEW q \in Seq(S), NEW c \in S
  PROVE  <<c>> \in Seq(S) /\ Append(q, c) \in Seq(S) /\ Append(q, c) = q \o <<c>>
OBVIOUS

\* The first is taken.
LEMMA Parted ==
  ASSUME NEW S, NEW q \in Seq(S), q # <<>>
  PROVE  q[1] \in S /\ Tail(q) \in Seq(S) /\ q = <<q[1]>> \o Tail(q) /\ Head(q) = q[1]
OBVIOUS

\* An event posted between what was posted and what is decoded.
LEMMA Inserted ==
  ASSUME NEW x \in Seq(ExtEvent), NEW d \in Seq(ExtEvent), NEW c \in ExtEvent, NEW a, NEW b
  PROVE  /\ Holds(Append(x, c) \o d, a) <=> Holds(x \o d, a) \/ a = c
         /\ a # c /\ Follows(x \o d, a, b) => Follows(Append(x, c) \o d, a, b)
         /\ a # c /\ ~Holds(d, a) => Follows(Append(x, c) \o d, a, c)
<1>1. Append(x, c) = x \o <<c>> /\ <<c>> \in Seq(ExtEvent) /\ x \o <<c>> \in Seq(ExtEvent)
  OBVIOUS
<1>2. /\ Holds(<<c>>, a) <=> a = c
      /\ Holds(<<c>>, b) <=> b = c
      /\ \A y : Follows(<<c>>, a, y) <=> a # c
      /\ Holds(<<c>>, c)
  BY Alone
<1>3. /\ Holds((x \o <<c>>) \o d, a) <=> Holds(x \o <<c>>, a) \/ Holds(d, a)
      /\ Holds(x \o <<c>>, a) <=> Holds(x, a) \/ Holds(<<c>>, a)
      /\ Holds(x \o d, a) <=> Holds(x, a) \/ Holds(d, a)
  BY <1>1, HeldInEither
<1>4. \A y : /\ Follows((x \o <<c>>) \o d, a, y)
                  <=> Follows(d, a, y) /\ (Follows(x \o <<c>>, a, y) \/ Holds(d, y))
             /\ Follows(x \o <<c>>, a, y)
                  <=> Follows(<<c>>, a, y) /\ (Follows(x, a, y) \/ Holds(<<c>>, y))
             /\ Follows(x \o d, a, y) <=> Follows(d, a, y) /\ (Follows(x, a, y) \/ Holds(d, y))
  BY <1>1, FollowsInBoth
<1>5. ~Holds(d, a) => Follows(d, a, c)
  BY DEF Holds, Follows
<1> QED BY <1>1, <1>2, <1>3, <1>4, <1>5

\* The sets of events.
LEMMA EventSets ==
  /\ NlEvent \subseteq ExtEvent /\ CfgChange \in ExtEvent
  /\ Seq(NlEvent) \subseteq Seq(ExtEvent)
  /\ \A i \in Ifaces : UpOf(i) \in ExtEvent /\ DnOf(i) \in ExtEvent
  /\ \A i \in Links : UpOf(i) \in NlEvent /\ DnOf(i) \in NlEvent /\ PreUp(i) \in NlEvent
  /\ Links \subseteq Ifaces /\ Wlans \subseteq Ifaces /\ Modems \subseteq Ifaces /\ usb \in Links
<1>1. NlEvent \subseteq ExtEvent
  BY DEF ExtEvent
<1>2. Seq(NlEvent) \subseteq Seq(ExtEvent)
  BY <1>1
<1>3. \A i \in Ifaces : i \in Links \/ i \in Wlans
  BY DEF Links
<1>4. \A i \in Links : UpOf(i) \in NlEvent /\ DnOf(i) \in NlEvent /\ PreUp(i) \in NlEvent
  BY DEF NlEvent
<1>5. \A i \in Ifaces : UpOf(i) \in ExtEvent /\ DnOf(i) \in ExtEvent
  BY <1>1, <1>3, <1>4 DEF ExtEvent
<1>6. CfgChange \in ExtEvent
  BY DEF ExtEvent
<1>7. Links \subseteq Ifaces /\ Wlans \subseteq Ifaces /\ Modems \subseteq Ifaces /\ usb \in Links
  BY IfacesAssumption DEF Links, Ifaces
<1> QED BY <1>1, <1>2, <1>4, <1>5, <1>6, <1>7

\* How each event is handled.
LEMMA Handling ==
  /\ \A i \in Links : /\ ProcessEvt(PreUp(i)) = link_up(i) /\ ProcessEvt(UpOf(i)) = usb_link_up(i)
                      /\ ProcessEvt(DnOf(i)) = link_down(i)
  /\ \A w \in Wlans : ProcessEvt(UpOf(w)) = ap_link_up(w) /\ ProcessEvt(DnOf(w)) = wlan_link_down(w)
  /\ ProcessEvt(CfgChange) = cfg_change
  /\ \A i : ProcessEvt(Del(i)) = lan_delete_self(i)
BY DEF ProcessEvt, PreUp, UpOf, DnOf, CfgChange, Del, Evt, Links

\* Events tell interfaces apart.
LEMMA Distinct ==
  /\ \A i, j : UpOf(i) # DnOf(j) /\ DnOf(j) # UpOf(i) /\ UpOf(i) # PreUp(j) /\ PreUp(j) # UpOf(i)
               /\ DnOf(i) # PreUp(j) /\ PreUp(j) # DnOf(i)
  /\ \A i, j : UpOf(i) = UpOf(j) \/ DnOf(i) = DnOf(j) \/ PreUp(i) = PreUp(j) => i = j
  /\ \A i : UpOf(i) # CfgChange /\ DnOf(i) # CfgChange /\ PreUp(i) # CfgChange
  /\ \A i, j : Del(i) = Del(j) => i = j
BY DEF UpOf, DnOf, PreUp, CfgChange, Del, Evt

-----------------------------------------------------------------------------
(* What is still to be handled, after a step *)

\* An event was posted.
LEMMA LinePosted ==
  ASSUME Types, NEW c \in ExtEvent, ext' = Append(ext, c), decoded' = decoded
  PROVE  /\ \A a : Holds(Line', a) <=> Holds(Line, a) \/ a = c
         /\ \A a, b : a # c /\ Follows(Line, a, b) => Follows(Line', a, b)
         /\ \A a : a # c /\ ~Holds(decoded, a) => Follows(Line', a, c)
<1>1. ext \in Seq(ExtEvent) /\ decoded \in Seq(ExtEvent)
  BY EventSets DEF Types
<1>2. Line' = Append(ext, c) \o decoded
  BY DEF Line
<1> QED BY <1>1, <1>2, Inserted DEF Line

\* An event of the interface's thread was taken, and perhaps one posted.
LEMMA LineTaken ==
  ASSUME Types, ext # <<>>, NEW c \in ExtEvent, ext' \in {Tail(ext), Append(Tail(ext), c)},
         decoded' = decoded
  PROVE  /\ \A a : a # ext[1] /\ Holds(Line, a) => Holds(Line', a)
         /\ \A a, b : (a # c \/ ext' = Tail(ext)) /\ Follows(Line, a, b) => Follows(Line', a, b)
         /\ \A b : Follows(Line, ext[1], b) => Holds(Line', b)
         /\ ext' = Append(Tail(ext), c) => Holds(Line', c)
<1> DEFINE x == Tail(ext)
           r == x \o decoded
<1>1. /\ x \in Seq(ExtEvent) /\ decoded \in Seq(ExtEvent) /\ r \in Seq(ExtEvent)
      /\ ext[1] \in ExtEvent /\ <<ext[1]>> \in Seq(ExtEvent) /\ Line = <<ext[1]>> \o r
  <2>1. ext \in Seq(ExtEvent) /\ decoded \in Seq(ExtEvent)
    BY EventSets DEF Types
  <2>2. ext[1] \in ExtEvent /\ x \in Seq(ExtEvent) /\ ext = <<ext[1]>> \o x
    BY <2>1, Parted
  <2>3. <<ext[1]>> \in Seq(ExtEvent)
    BY <2>2
  <2>4. (<<ext[1]>> \o x) \o decoded = <<ext[1]>> \o (x \o decoded)
    BY <2>1, <2>2, <2>3
  <2>5. r \in Seq(ExtEvent)
    BY <2>1, <2>2
  <2>6. Line = <<ext[1]>> \o r
    BY <2>2, <2>4, Zenon DEF Line
  <2> QED BY <2>1, <2>2, <2>3, <2>5, <2>6, Zenon
<1>2. Line' = r \/ (Line' = Append(x, c) \o decoded /\ ext' = Append(x, c))
  BY DEF Line
<1> HIDE DEF r
<1>e. \A a, b : /\ Holds(<<ext[1]>>, a) <=> a = ext[1]
                /\ Follows(<<ext[1]>>, a, b) <=> a # ext[1]
  BY <1>1, Alone
<1>3. \A a : Holds(Line, a) <=> a = ext[1] \/ Holds(r, a)
  <2> PICK p : p = <<ext[1]>>
    OBVIOUS
  <2>e. p \in Seq(ExtEvent) /\ r \in Seq(ExtEvent)
    BY <1>1
  <2>1. \A a : Holds(p \o r, a) <=> Holds(p, a) \/ Holds(r, a)
    BY ONLY <2>e, HeldInEither
  <2> QED BY <1>1, <1>e, <2>1
<1>4. \A a, b : Follows(Line, a, b) <=> Follows(r, a, b) /\ (a # ext[1] \/ Holds(r, b))
  <2>1. \A a, b : Follows(<<ext[1]>> \o r, a, b)
                    <=> Follows(r, a, b) /\ (Follows(<<ext[1]>>, a, b) \/ Holds(r, b))
    BY <1>1, FollowsInBoth
  <2> QED BY <1>1, <1>e, <2>1
<1>5. \A a, b : /\ Holds(r, a) => Holds(Append(x, c) \o decoded, a)
                /\ Holds(Append(x, c) \o decoded, c)
                /\ a # c /\ Follows(r, a, b) => Follows(Append(x, c) \o decoded, a, b)
  BY <1>1, Inserted DEF r
<1>6. ext' = Tail(ext) => Line' = r
  BY DEF r, Line
<1>7. ext' = Append(Tail(ext), c) => Line' = Append(x, c) \o decoded
  BY DEF Line
<1> HIDE DEF x
<1>8. \A a : a # ext[1] /\ Holds(Line, a) => Holds(Line', a)
  BY <1>2, <1>3, <1>5
<1>9. \A a, b : (a # c \/ ext' = Tail(ext)) /\ Follows(Line, a, b) => Follows(Line', a, b)
  BY <1>2, <1>4, <1>5, <1>6
<1>10. \A b : Follows(Line, ext[1], b) => Holds(Line', b)
  BY <1>2, <1>4, <1>5
<1>11. ext' = Append(Tail(ext), c) => Holds(Line', c)
  BY <1>5, <1>7
<1> QED BY <1>8, <1>9, <1>10, <1>11

\* A message of the kernel was decoded.
LEMMA LineDecoded ==
  ASSUME Types, decoded = <<>>, decoded' \in Seq(NlEvent), ext' = ext
  PROVE  /\ \A a : Holds(Line', a) <=> Holds(Line, a) \/ Holds(decoded', a)
         /\ \A a, b : Follows(Line', a, b)
                        <=> Follows(decoded', a, b) /\ (Follows(Line, a, b) \/ Holds(decoded', b))
<1>1. ext \in Seq(ExtEvent) /\ decoded' \in Seq(ExtEvent) /\ Line = ext /\ Line' = ext \o decoded'
  BY EventSets DEF Types, Line
<1> QED BY <1>1, HeldInEither, FollowsInBoth

-----------------------------------------------------------------------------
(* What handling an event leaves *)

\* An object as it is made.
NewObject(i, cat, mode) ==
  [i |-> i, cat |-> cat, mode |-> mode, is_active |-> TRUE, is_mode_switch |-> FALSE]

Cats == {"LAN", "WAN", "WLAN", "UNKNOWN"}

\* An object is made where there is none.
LEMMA Creating ==
  ASSUME NEW c, NEW i, NEW mode, NEW d, d = create_iface_instance(c, i, mode)
  PROVE  /\ d.cats = c /\ d.posted = {}
         /\ \/ d.insts = insts /\ (c[i] = "UNKNOWN" \/ \E o \in insts : o.i = i)
            \/ /\ d.insts = insts \cup {NewObject(i, c[i], mode)}
               /\ c[i] # "UNKNOWN" /\ \A o \in insts : o.i # i
BY DEF create_iface_instance, Left, NewObject, SearchInstance

\* An object that goes down.
LEMMA GoingDown ==
  ASSUME NEW o \in Instance, NEW switch \in BOOLEAN, NEW p, p = handle_down_evt(o, switch)
  PROVE  /\ p \in Instance /\ p.i = o.i /\ p.cat = o.cat /\ p.mode = o.mode
         /\ ~p.is_active /\ p.is_mode_switch = switch
BY DEF handle_down_evt, Instance

\* An external event was handled, and left the categories c.  It made the object of
\* an interface, unless it has one,
Made(i, c, mode) ==
  /\ cats' = c /\ int' = <<>> /\ ext' = Tail(ext)
  /\ \/ insts' = insts /\ (c[i] = "UNKNOWN" \/ \E o \in insts : o.i = i)
     \/ /\ insts' = insts \cup {NewObject(i, c[i], mode)}
        /\ c[i] # "UNKNOWN" /\ \A o \in insts : o.i # i

\* or took the interface from its object,
Lost(i, c, switch) ==
  /\ cats' = c
  /\ \A p \in insts' : \/ p \in insts /\ p.i # i
                       \/ \E o \in insts : o.i = i /\ o.cat # "WAN" /\ p = handle_down_evt(o, switch)
  /\ \A o \in insts : o.i # i => o \in insts'
  /\ \A o \in insts : o.i = i /\ o.cat # "WAN" => handle_down_evt(o, switch) \in insts'
  /\ int' = IF \E o \in insts : o.i = i /\ o.cat # "WAN" THEN <<Del(i)>> ELSE <<>>

\* or left the objects alone.
Same(c) == cats' = c /\ insts' = insts /\ int' = <<>> /\ ext' = Tail(ext)

\* The objects "gone" of one interface lose it.
LEMMA Downing ==
  ASSUME NEW gone \in SUBSET insts, \A o \in gone : o.is_active, NEW switch \in BOOLEAN, NEW c
  PROVE  /\ Down(c, gone, switch).cats = c
         /\ \A p \in Down(c, gone, switch).insts :
              \/ p \in insts /\ p \notin gone
              \/ \E o \in gone : o.cat # "WAN" /\ p = handle_down_evt(o, switch)
         /\ \A o \in insts : o \notin gone => o \in Down(c, gone, switch).insts
         /\ \A o \in gone : o.cat # "WAN" => handle_down_evt(o, switch) \in Down(c, gone, switch).insts
         /\ \A q : q \in Down(c, gone, switch).posted
                    <=> \E o \in gone : o.cat # "WAN" /\ q = Del(o.i)
<1> DEFINE dying == {o \in gone : o.cat # "WAN" /\ o.is_active}
           d == Down(c, gone, switch)
<1>1. /\ d.cats = c
      /\ d.insts = (insts \ {o \in gone : o.cat = "WAN" \/ o.is_active})
                     \cup {handle_down_evt(o, switch) : o \in dying}
      /\ d.posted = {Del(o.i) : o \in dying}
  BY DEF Down, Left, Del
<1> HIDE DEF d
<1>2. d.insts = (insts \ gone) \cup {handle_down_evt(o, switch) : o \in dying}
  BY <1>1
<1>3. \A q : q \in d.posted <=> \E o \in gone : o.cat # "WAN" /\ q = Del(o.i)
  BY <1>1
<1>4. /\ \A p \in d.insts : \/ p \in insts /\ p \notin gone
                            \/ \E o \in gone : o.cat # "WAN" /\ p = handle_down_evt(o, switch)
      /\ \A o \in insts : o \notin gone => o \in d.insts
      /\ \A o \in gone : o.cat # "WAN" => handle_down_evt(o, switch) \in d.insts
  BY <1>2
<1> QED BY <1>1, <1>3, <1>4 DEF d

-----------------------------------------------------------------------------
(* What holds whatever the USB link does *)

\* The queues and what was posted have their types; nothing is said of a file not edited.
LEMMA QueuesKept ==
  ASSUME BasicInv, ext # <<>>, NEW c \in ExtEvent, c # CfgChange,
         ext' \in {Tail(ext), Append(Tail(ext), c)}, UNCHANGED used
  PROVE  ext' \in Seq(ExtEvent) /\ Unedited'
<1>1. ext \in Seq(ExtEvent)
  BY DEF BasicInv, Types
<1>2. /\ Tail(ext) \in Seq(ExtEvent) /\ ext[1] \in ExtEvent /\ <<ext[1]>> \in Seq(ExtEvent)
      /\ ext = <<ext[1]>> \o Tail(ext)
  BY <1>1, Parted
<1>3. <<c>> \in Seq(ExtEvent) /\ Append(Tail(ext), c) = Tail(ext) \o <<c>>
      /\ Append(Tail(ext), c) \in Seq(ExtEvent)
  BY <1>2, Appended
<1>4. Holds(Tail(ext), CfgChange) => Holds(ext, CfgChange)
  <2>1. Holds(<<ext[1]>> \o Tail(ext), CfgChange)
          <=> Holds(<<ext[1]>>, CfgChange) \/ Holds(Tail(ext), CfgChange)
    BY <1>2, HeldInEither
  <2> QED BY <1>2, <2>1
<1>5. Holds(Tail(ext) \o <<c>>, CfgChange) => Holds(Tail(ext), CfgChange)
  BY <1>2, <1>3, HeldInEither, Alone
<1> QED BY <1>2, <1>3, <1>4, <1>5 DEF BasicInv, Unedited

\* An object is made, perhaps.
LEMMA MadeKeeps ==
  ASSUME BasicInv, int = <<>>, ext # <<>>,
         UNCHANGED <<link, file, decoded, thread, used>>,
         NEW i \in Ifaces, NEW mode \in {"Q6", "ECM"}, NEW c \in [Ifaces -> Cats],
         TableKinds', Made(i, c, mode)
  PROVE  BasicInv'
<1>1. c[i] # "UNKNOWN" => NewObject(i, c[i], mode) \in Instance /\ c[i] \in CatsOf(i)
  BY DEF TableKinds, Made, CatsOf, NewObject, Instance
<1>2. /\ NewObject(i, c[i], mode).i = i /\ NewObject(i, c[i], mode).cat = c[i]
      /\ NewObject(i, c[i], mode).is_active /\ ~NewObject(i, c[i], mode).is_mode_switch
  BY DEF NewObject
<1>3. ext' \in Seq(ExtEvent) /\ Unedited'
  <2>1. UpOf(usb) \in ExtEvent /\ UpOf(usb) # CfgChange
    BY EventSets, Distinct
  <2> QED BY <2>1, QueuesKept DEF Made
<1>4. int' \in Seq(IntEvent)
  BY DEF Made
<1>5. Types'
  BY <1>1, <1>3, <1>4 DEF BasicInv, Types, Cats, Made
<1>6. Kinds'
  BY <1>1, <1>2 DEF BasicInv, Kinds, Made
<1>7. Unique'
  BY <1>2 DEF BasicInv, Unique, Made
<1>8. Doomed'
  BY <1>2 DEF BasicInv, Doomed, Made
<1>9. Switching'
  BY <1>2 DEF BasicInv, Switching, Made
<1> QED BY <1>3, <1>5, <1>6, <1>7, <1>8, <1>9 DEF BasicInv

\* The object of an interface, if there is one, loses it.
LEMMA LostKeeps ==
  ASSUME BasicInv, int = <<>>, ext # <<>>, UNCHANGED <<link, file, decoded, thread, used>>,
         NEW i \in Ifaces, NEW switch \in BOOLEAN, switch => i = usb /\ used.edits # 0,
         NEW c \in [Ifaces -> Cats], TableKinds',
         Lost(i, c, switch) /\ ext' \in {Tail(ext), Append(Tail(ext), UpOf(usb))}
  PROVE  BasicInv'
<1>0. /\ Types /\ Doomed /\ Unique /\ Kinds /\ Switching /\ insts \subseteq Instance
      /\ \A o \in insts : o.is_active /\ ~o.is_mode_switch
      /\ cats' = c
  BY DEF BasicInv, Types, Doomed, Switching, Lost
<1>1. \A p \in insts' : \/ p \in insts /\ p.i # i
                        \/ \E o \in insts : o.i = i /\ o.cat # "WAN" /\ p = handle_down_evt(o, switch)
  BY DEF Lost
<1>2. \A o \in insts : LET p == handle_down_evt(o, switch)
                       IN /\ p \in Instance /\ p.i = o.i /\ p.cat = o.cat
                          /\ ~p.is_active /\ p.is_mode_switch = switch
  BY <1>0, GoingDown
<1>3. UpOf(usb) \in ExtEvent /\ UpOf(usb) # CfgChange
  BY EventSets, Distinct
<1>4. ext' \in Seq(ExtEvent) /\ Unedited'
  BY <1>3, QueuesKept
<1>5. int' \in Seq(IntEvent)
  <2>1. Del(i) \in IntEvent
    BY DEF IntEvent
  <2>2. <<Del(i)>> \in Seq(IntEvent) /\ <<>> \in Seq(IntEvent)
    BY <2>1
  <2> QED BY <2>2 DEF Lost
<1>6. insts' \subseteq Instance
  BY <1>0, <1>1, <1>2
<1>7. Types'
  BY <1>0, <1>4, <1>5, <1>6 DEF BasicInv, Types, Cats
<1>8. Kinds'
  <2>1. \A p \in insts' : p.cat \in CatsOf(p.i)
    BY <1>0, <1>1, <1>2 DEF Kinds
  <2> QED BY <2>1 DEF Kinds
<1>9. Unique'
  <2> SUFFICES ASSUME NEW o \in insts', NEW p \in insts', o.i = p.i PROVE o = p
    BY DEF Unique
  <2> QED BY <1>0, <1>1, <1>2 DEF Unique
<1>10. Doomed'
  <2>1. CASE \E o \in insts : o.i = i /\ o.cat # "WAN"
    <3>1. int' = <<Del(i)>> /\ int' # <<>>
      BY <2>1 DEF Lost
    <3>2. \A p \in insts' : (p.is_active <=> p.i # i) /\ (~p.is_active => p.cat # "WAN")
      BY <1>0, <1>1, <1>2
    <3> QED BY <3>1, <3>2 DEF Doomed
  <2>2. CASE ~ \E o \in insts : o.i = i /\ o.cat # "WAN"
    <3>1. int' = <<>> /\ \A p \in insts' : p.is_active
      BY <1>0, <1>1, <2>2 DEF Lost
    <3> QED BY <3>1 DEF Doomed
  <2> QED BY <2>1, <2>2
<1>11. Switching'
  BY <1>0, <1>1, <1>2 DEF Switching
<1> QED BY <1>4, <1>7, <1>8, <1>9, <1>10, <1>11 DEF BasicInv

\* Nothing is made or lost.
LEMMA SameKeeps ==
  ASSUME BasicInv, int = <<>>, ext # <<>>, UNCHANGED <<link, file, decoded, thread, used>>,
         NEW c \in [Ifaces -> Cats], TableKinds', Same(c)
  PROVE  BasicInv'
<1>1. UpOf(usb) \in ExtEvent /\ UpOf(usb) # CfgChange
  BY EventSets, Distinct
<1>2. ext' \in Seq(ExtEvent) /\ Unedited'
  BY <1>1, QueuesKept DEF Same
<1> QED BY <1>2 DEF BasicInv, Same, Types, Cats, Kinds, Unique, Doomed, Switching

-----------------------------------------------------------------------------
(* How the event thread handles an external event *)

\* What the thread leaves alone.
LEMMA TakesExternal ==
  ASSUME BasicInv, Process_external
  PROVE  /\ int = <<>> /\ ext # <<>> /\ ext[1] \in ExtEvent /\ Handles(ext[1], Tail(ext), <<>>)
         /\ UNCHANGED <<link, file, decoded, thread, used>>
         /\ \A o \in insts : o.is_active /\ ~o.is_mode_switch
<1>1. ext \in Seq(ExtEvent) /\ ext # <<>>
  BY DEF BasicInv, Types, Process_external
<1>2. ext[1] \in ExtEvent /\ Head(ext) = ext[1]
  BY <1>1, Parted
<1>3. Handles(ext[1], Tail(ext), <<>>) /\ int = <<>>
  BY <1>2 DEF Process_external
<1>4. UNCHANGED <<link, file, decoded, thread, used>>
  BY <1>3 DEF Handles
<1> QED BY <1>1, <1>2, <1>3, <1>4 DEF BasicInv, Doomed, Switching

\* The event that announces an interface.
LEMMA PreUpHandled ==
  ASSUME NEW i \in Links, Handles(PreUp(i), Tail(ext), <<>>)
  PROVE  IF cats[i] = "WAN" THEN Made(i, cats, "Q6") ELSE Same(cats)
<1>1. ProcessEvt(PreUp(i)) = link_up(i)
  BY Handling
<1>2. CASE cats[i] = "WAN"
  <2>1. link_up(i) = create_iface_instance(cats, i, "Q6")
    BY <1>2 DEF link_up
  <2>2. Made(i, cats, "Q6")
    BY <1>1, <2>1, Creating DEF Handles, Made
  <2> QED BY <1>2, <2>2
<1>3. CASE cats[i] # "WAN"
  BY <1>1, <1>3 DEF link_up, Handles, Left, Same
<1> QED BY <1>2, <1>3

\* The event that an interface is up.
LEMMA UpHandled ==
  ASSUME NEW i \in Links, Handles(UpOf(i), Tail(ext), <<>>)
  PROVE  Made(i, cats, IF cats[i] = "WAN" THEN "ECM" ELSE "Q6")
<1>1. ProcessEvt(UpOf(i)) = create_iface_instance(cats, i, IF cats[i] = "WAN" THEN "ECM" ELSE "Q6")
  BY Handling DEF usb_link_up
<1> QED BY <1>1, Creating DEF Handles, Made

\* The event that an access point is up.
LEMMA ApUpHandled ==
  ASSUME NEW w \in Wlans, Handles(UpOf(w), Tail(ext), <<>>)
  PROVE  IF cats[w] = "UNKNOWN" THEN Made(w, [cats EXCEPT ![w] = "WLAN"], "Q6") ELSE Same(cats)
<1>1. ProcessEvt(UpOf(w)) = ap_link_up(w)
  BY Handling
<1>2. CASE cats[w] = "UNKNOWN"
  <2>1. PICK c : c = [cats EXCEPT ![w] = "WLAN"]
    OBVIOUS
  <2>2. ProcessEvt(UpOf(w)) = create_iface_instance(c, w, "Q6")
    BY <1>1, <1>2, <2>1 DEF ap_link_up
  <2>3. Made(w, c, "Q6")
    BY ONLY <2>2, Handles(UpOf(w), Tail(ext), <<>>), Creating DEF Handles, Made
  <2> QED BY <1>2, <2>1, <2>3
<1>3. CASE cats[w] # "UNKNOWN"
  BY <1>1, <1>3 DEF ap_link_up, Handles, Left, Same
<1> QED BY <1>2, <1>3

\* An interface is lost by the objects it has.
LEMMA LostHandled ==
  ASSUME \A o \in insts : o.is_active, NEW i, NEW switch \in BOOLEAN, NEW c, NEW e,
         NEW gone \in SUBSET insts, \A o \in insts : o \in gone <=> o.i = i,
         ProcessEvt(e) = Down(c, gone, switch), Handles(e, Tail(ext), <<>>)
  PROVE  Lost(i, c, switch) /\ ext' = Tail(ext)
<1>1. \A o \in gone : o.is_active
  OBVIOUS
<1> DEFINE d == Down(c, gone, switch)
<1>2. d = Down(c, gone, switch)
  OBVIOUS
<1>3. /\ d.cats = c
      /\ \A p \in d.insts : \/ p \in insts /\ p \notin gone
                            \/ \E o \in gone : o.cat # "WAN" /\ p = handle_down_evt(o, switch)
      /\ \A o \in insts : o \notin gone => o \in d.insts
      /\ \A o \in gone : o.cat # "WAN" => handle_down_evt(o, switch) \in d.insts
      /\ \A q : q \in d.posted <=> \E o \in gone : o.cat # "WAN" /\ q = Del(o.i)
  <2>1. d.cats = c
    BY ONLY <1>1, gone \in SUBSET insts, switch \in BOOLEAN, Downing
  <2>2. \A p \in d.insts : \/ p \in insts /\ p \notin gone
                           \/ \E o \in gone : o.cat # "WAN" /\ p = handle_down_evt(o, switch)
    BY ONLY <1>1, gone \in SUBSET insts, switch \in BOOLEAN, Downing
  <2>3. /\ \A o \in insts : o \notin gone => o \in d.insts
        /\ \A o \in gone : o.cat # "WAN" => handle_down_evt(o, switch) \in d.insts
    BY ONLY <1>1, gone \in SUBSET insts, switch \in BOOLEAN, Downing
  <2>4. \A q : q \in d.posted <=> \E o \in gone : o.cat # "WAN" /\ q = Del(o.i)
    BY ONLY <1>1, gone \in SUBSET insts, switch \in BOOLEAN, Downing
  <2> QED BY <2>1, <2>2, <2>3, <2>4
<1> HIDE DEF d
<1>4. /\ cats' = d.cats /\ insts' = d.insts
      /\ IF d.posted = {} THEN ext' = Tail(ext) /\ int' = <<>>
                          ELSE \E p \in d.posted : PostEvt(Tail(ext), <<>>, p)
  BY <1>2 DEF Handles
<1>5. CASE \E o \in insts : o.i = i /\ o.cat # "WAN"
  <2>1. d.posted = {Del(i)}
    BY <1>3, <1>5
  <2>2. PostEvt(Tail(ext), <<>>, Del(i))
    BY <1>4, <2>1
  <2>3. ext' = Tail(ext) /\ int' = Append(<<>>, Del(i))
    BY <2>2 DEF PostEvt, Del, Evt, External
  <2>4. int' = <<Del(i)>>
    BY <2>3
  <2> QED BY <1>3, <1>4, <1>5, <2>3, <2>4 DEF Lost
<1>6. CASE ~ \E o \in insts : o.i = i /\ o.cat # "WAN"
  <2>1. d.posted = {}
    BY <1>3, <1>6
  <2> QED BY <1>3, <1>4, <1>6, <2>1 DEF Lost
<1> QED BY <1>5, <1>6

\* The event that an interface is down.
LEMMA DnHandled ==
  ASSUME BasicInv, \A o \in insts : o.is_active, NEW i \in Links, Handles(DnOf(i), Tail(ext), <<>>)
  PROVE  Lost(i, cats, FALSE) /\ ext' = Tail(ext)
<1>1. PICK gone : gone = {o \in insts : o.i = i /\ o.cat # "WLAN"}
  OBVIOUS
<1>2. \A o \in insts : o \in gone <=> o.i = i
  BY <1>1 DEF BasicInv, Kinds, CatsOf, Links
<1>3. ProcessEvt(DnOf(i)) = Down(cats, gone, FALSE)
  BY <1>1, Handling DEF link_down
<1>4. gone \in SUBSET insts
  BY <1>1
<1>5. PICK c : c = cats
  OBVIOUS
<1> QED BY <1>2, <1>3, <1>4, <1>5, LostHandled

\* The event that an access point is down.
LEMMA ApDnHandled ==
  ASSUME BasicInv, \A o \in insts : o.is_active, NEW w \in Wlans, Handles(DnOf(w), Tail(ext), <<>>)
  PROVE  /\ Lost(w, [cats EXCEPT ![w] = IF \E o \in insts : o.i = w THEN "UNKNOWN" ELSE @], FALSE)
         /\ ext' = Tail(ext)
<1>1. PICK gone : gone = {o \in insts : o.i = w /\ o.cat = "WLAN"}
  OBVIOUS
<1>2. \A o \in insts : o \in gone <=> o.i = w
  BY <1>1 DEF BasicInv, Kinds, CatsOf
<1>3. PICK c : c = [cats EXCEPT ![w] = IF \E o \in insts : o.i = w THEN "UNKNOWN" ELSE @]
  OBVIOUS
<1>4. ProcessEvt(DnOf(w)) = Down(c, gone, FALSE)
  <2>1. (\E o \in insts : o.i = w /\ o.is_active) <=> \E o \in insts : o.i = w
    OBVIOUS
  <2> QED BY <1>1, <1>3, <2>1, Handling DEF wlan_link_down
<1>5. gone \in SUBSET insts
  BY <1>1
<1> QED BY <1>2, <1>3, <1>4, <1>5, LostHandled

\* What the configuration file says.
LEMMA Configured ==
  ASSUME Types
  PROVE  /\ Config(file) \in [Ifaces -> Cats] /\ Config(file)[usb] = file
         /\ \A i \in Ifaces : i # usb => Config(file)[i] = IF i \in Wlans THEN "UNKNOWN" ELSE "WAN"
BY IfacesAssumption DEF Types, Config, Cats, Ifaces

\* The event that the file was edited.
LEMMA CfgHandled ==
  ASSUME BasicInv, \A o \in insts : o.is_active, Handles(CfgChange, Tail(ext), <<>>)
  PROVE  \/ /\ Same(Config(file))
            /\ \A o \in insts : o.i = usb => o.cat = file \/ (o.cat = "WAN" /\ o.mode = "Q6")
         \/ /\ Lost(usb, Config(file), TRUE)
            /\ \E o \in insts : /\ o.i = usb /\ o.cat # file
                                /\ IF o.cat = "WAN" THEN ext' = Append(Tail(ext), UpOf(usb))
                                                    ELSE ext' = Tail(ext)
<1>1. PICK c : c = Config(file)
  OBVIOUS
<1>2. PICK gone : gone = {o \in insts : /\ o.cat # c[o.i]
                                        /\ o.cat = "LAN" \/ (o.cat = "WAN" /\ o.mode = "ECM")}
  OBVIOUS
<1>3. c[usb] = file /\ \A i \in Ifaces : i # usb => c[i] = IF i \in Wlans THEN "UNKNOWN" ELSE "WAN"
  BY <1>1, Configured DEF BasicInv
<1>4. /\ insts \subseteq Instance /\ usb \notin Wlans
      /\ \A o, p \in insts : o.i = p.i => o = p
      /\ \A o \in insts : o.cat \in CatsOf(o.i)
  BY IfacesAssumption DEF BasicInv, Types, Kinds, Unique
<1>5. \A o \in gone : o \in insts /\ o.i = usb /\ o.is_active /\ o.cat # file /\ o.cat \in {"LAN", "WAN"}
  BY <1>2, <1>3, <1>4 DEF CatsOf, Instance
<1>s. PICK switch \in BOOLEAN : switch = TRUE
  OBVIOUS
<1> DEFINE d == Down(c, gone, switch)
           left == ProcessEvt(CfgChange)
<1>6. /\ left.cats = d.cats /\ left.insts = d.insts
      /\ left.posted = d.posted \cup {Evt("USB_LINK_UP", o.i) : o \in {p \in gone : p.cat = "WAN"}}
  <2>1. left = cfg_change
    BY Handling
  <2> QED BY <1>1, <1>2, <1>s, <2>1 DEF cfg_change, Down, Left
<1>7. /\ d.cats = c
      /\ \A p \in d.insts : \/ p \in insts /\ p \notin gone
                            \/ \E o \in gone : o.cat # "WAN" /\ p = handle_down_evt(o, switch)
      /\ \A o \in insts : o \notin gone => o \in d.insts
      /\ \A o \in gone : o.cat # "WAN" => handle_down_evt(o, switch) \in d.insts
      /\ \A q : q \in d.posted <=> \E o \in gone : o.cat # "WAN" /\ q = Del(o.i)
  <2>0. gone \in SUBSET insts /\ switch \in BOOLEAN /\ \A o \in gone : o.is_active
    BY <1>5
  <2>1. d.cats = c
    BY ONLY <2>0, Downing
  <2>2. \A p \in d.insts : \/ p \in insts /\ p \notin gone
                           \/ \E o \in gone : o.cat # "WAN" /\ p = handle_down_evt(o, switch)
    BY ONLY <2>0, Downing
  <2>3. \A o \in insts : o \notin gone => o \in d.insts
    BY ONLY <2>0, Downing
  <2>5. \A o \in gone : o.cat # "WAN" => handle_down_evt(o, switch) \in d.insts
    <3>1. d.insts = (insts \ {o \in gone : o.cat = "WAN" \/ o.is_active})
                      \cup {handle_down_evt(o, switch) : o \in {o \in gone : o.cat # "WAN" /\ o.is_active}}
      BY DEF Down, Left
    <3> HIDE DEF d
    <3> QED BY <2>0, <3>1
  <2>4. \A q : q \in d.posted <=> \E o \in gone : o.cat # "WAN" /\ q = Del(o.i)
    <3>1. d.posted = {Del(o.i) : o \in {p \in gone : p.cat # "WAN" /\ p.is_active}}
      BY DEF Down, Left, Del
    <3> HIDE DEF d
    <3> QED BY <2>0, <3>1
  <2> QED BY <2>1, <2>2, <2>3, <2>4, <2>5
<1>8. /\ cats' = left.cats /\ insts' = left.insts
      /\ IF left.posted = {} THEN ext' = Tail(ext) /\ int' = <<>>
                             ELSE \E p \in left.posted : PostEvt(Tail(ext), <<>>, p)
  BY DEF Handles
<1> HIDE DEF d, left
<1>9. CASE gone = {}
  <2>1. insts' = insts /\ left.posted = {}
    BY <1>6, <1>7, <1>8, <1>9
  <2>2. \A o \in insts : o.i = usb => o.cat = file \/ (o.cat = "WAN" /\ o.mode = "Q6")
    BY <1>2, <1>3, <1>4, <1>9 DEF CatsOf, Instance
  <2> QED BY <1>1, <1>6, <1>7, <1>8, <2>1, <2>2 DEF Same
<1>10. CASE gone # {}
  <2>1. PICK o \in insts : o \in gone /\ o.i = usb /\ o.cat # file /\ o.cat \in {"LAN", "WAN"}
    BY <1>5, <1>10
  <2>2. \A p \in insts : p \in gone <=> p.i = usb
    BY <1>4, <1>5, <2>1
  <2>3. \A p \in insts : p.i = usb => p = o
    BY <1>4, <2>1
  <2>4. CASE o.cat = "WAN"
    <3>1. left.posted = {UpOf(usb)}
      BY <1>4, <1>5, <1>6, <1>7, <2>1, <2>2, <2>3, <2>4 DEF UpOf
    <3>2. PostEvt(Tail(ext), <<>>, UpOf(usb))
      BY <1>8, <3>1
    <3>3. ext' = Append(Tail(ext), UpOf(usb)) /\ int' = <<>>
      BY <1>4, <3>2 DEF PostEvt, UpOf, Evt, External
    <3>4. Lost(usb, c, switch)
      <4>1. cats' = c /\ insts' = d.insts
        BY <1>6, <1>7, <1>8
      <4>2. ~ \E p \in insts : p.i = usb /\ p.cat # "WAN"
        BY <2>3, <2>4
      <4> QED BY <1>5, <1>7, <2>2, <3>3, <4>1, <4>2 DEF Lost
    <3> QED BY <1>1, <1>s, <2>1, <2>4, <3>3, <3>4
  <2>5. CASE o.cat # "WAN"
    <3>1. left.posted = {Del(usb)}
      BY <1>4, <1>5, <1>6, <1>7, <2>1, <2>2, <2>3, <2>5
    <3>2. PostEvt(Tail(ext), <<>>, Del(usb))
      BY <1>8, <3>1
    <3>3. ext' = Tail(ext) /\ int' = Append(<<>>, Del(usb))
      BY <3>2 DEF PostEvt, Del, Evt, External
    <3>4. int' = <<Del(usb)>>
      BY <3>3
    <3>5. Lost(usb, c, switch)
      <4>1. cats' = c /\ insts' = d.insts
        BY <1>6, <1>7, <1>8
      <4>2. \E p \in insts : p.i = usb /\ p.cat # "WAN"
        BY <2>1, <2>5
      <4> QED BY <1>5, <1>7, <2>2, <3>4, <4>1, <4>2 DEF Lost
    <3> QED BY <1>1, <1>s, <2>1, <2>5, <3>3, <3>5
  <2> QED BY <2>4, <2>5
<1> QED BY <1>9, <1>10

-----------------------------------------------------------------------------
(* What holds whatever the USB link does, after each action *)

LEMMA ExternalKeepsBasic ==
  ASSUME BasicInv, Process_external
  PROVE  BasicInv'
<1>1. /\ int = <<>> /\ ext # <<>> /\ ext[1] \in ExtEvent /\ Handles(ext[1], Tail(ext), <<>>)
      /\ UNCHANGED <<link, file, decoded, thread, used>>
      /\ \A o \in insts : o.is_active
  BY TakesExternal
<1>2. /\ cats \in [Ifaces -> Cats] /\ Types /\ Links \subseteq Ifaces /\ Wlans \subseteq Ifaces
      /\ usb \in Ifaces /\ usb \notin Wlans
      /\ \A i \in Ifaces : cats[i] \in CatsOf(i) \cup IF i \in Wlans THEN {"UNKNOWN"} ELSE {}
  BY EventSets DEF BasicInv, Types, Cats, Links, Kinds, TableKinds
<1>3. ASSUME NEW c \in [Ifaces -> Cats], cats' = c,
             \A i \in Ifaces : c[i] \in CatsOf(i) \cup IF i \in Wlans THEN {"UNKNOWN"} ELSE {}
      PROVE  TableKinds'
  BY <1>3 DEF TableKinds
<1>4. ASSUME NEW i \in Ifaces, NEW mode \in {"Q6", "ECM"}, NEW c \in [Ifaces -> Cats],
             \A j \in Ifaces : c[j] \in CatsOf(j) \cup IF j \in Wlans THEN {"UNKNOWN"} ELSE {},
             Made(i, c, mode) \/ Same(c)
      PROVE  BasicInv'
  <2>1. cats' = c
    BY <1>4 DEF Made, Same
  <2>2. TableKinds'
    BY <1>3, <1>4, <2>1
  <2> QED BY <1>1, <1>4, <2>2, MadeKeeps, SameKeeps
<1>5. ASSUME NEW i \in Ifaces, NEW switch \in BOOLEAN, switch => i = usb /\ used.edits # 0,
             NEW c \in [Ifaces -> Cats],
             \A j \in Ifaces : c[j] \in CatsOf(j) \cup IF j \in Wlans THEN {"UNKNOWN"} ELSE {},
             Lost(i, c, switch), ext' \in {Tail(ext), Append(Tail(ext), UpOf(usb))}
      PROVE  BasicInv'
  <2>1. cats' = c
    BY <1>5 DEF Lost
  <2>2. TableKinds'
    BY <1>3, <1>5, <2>1
  <2>3. Lost(i, c, switch) /\ ext' \in {Tail(ext), Append(Tail(ext), UpOf(usb))}
    BY <1>5
  <2> QED BY <1>1, <1>5, <2>2, <2>3, LostKeeps
<1>c. PICK c0 : c0 = cats
  OBVIOUS
<1>6. CASE \E i \in Links : ext[1] = PreUp(i)
  <2>1. PICK i \in Links : ext[1] = PreUp(i)
    BY <1>6
  <2>2. Made(i, c0, "Q6") \/ Same(c0)
    BY <1>1, <1>c, <2>1, PreUpHandled
  <2> QED BY <1>2, <1>4, <1>c, <2>2
<1>7. CASE \E i \in Links : ext[1] = UpOf(i)
  <2>1. PICK i \in Links : ext[1] = UpOf(i)
    BY <1>7
  <2>2. Made(i, c0, "Q6") \/ Made(i, c0, "ECM")
    BY <1>1, <1>c, <2>1, UpHandled
  <2> QED BY <1>2, <1>4, <1>c, <2>2
<1>8. CASE \E w \in Wlans : ext[1] = UpOf(w)
  <2>1. PICK w \in Wlans : ext[1] = UpOf(w)
    BY <1>8
  <2>2. PICK c : c = [cats EXCEPT ![w] = "WLAN"]
    OBVIOUS
  <2>3. Made(w, c, "Q6") \/ Same(c0)
    BY <1>1, <1>c, <2>1, <2>2, ApUpHandled
  <2>4. /\ c \in [Ifaces -> Cats]
        /\ \A j \in Ifaces : c[j] \in CatsOf(j) \cup IF j \in Wlans THEN {"UNKNOWN"} ELSE {}
    BY <1>2, <2>2 DEF Cats, CatsOf
  <2> QED BY <1>2, <1>4, <1>c, <2>3, <2>4
<1>9. CASE \E i \in Links : ext[1] = DnOf(i)
  <2>1. PICK i \in Links : ext[1] = DnOf(i)
    BY <1>9
  <2>2. Lost(i, c0, FALSE) /\ ext' = Tail(ext)
    BY <1>1, <1>c, <2>1, DnHandled
  <2> QED BY <1>2, <1>5, <1>c, <2>2
<1>10. CASE \E w \in Wlans : ext[1] = DnOf(w)
  <2>1. PICK w \in Wlans : ext[1] = DnOf(w)
    BY <1>10
  <2>2. PICK c : c = [cats EXCEPT ![w] = IF \E o \in insts : o.i = w THEN "UNKNOWN" ELSE @]
    OBVIOUS
  <2>3. Lost(w, c, FALSE) /\ ext' = Tail(ext)
    BY <1>1, <2>1, <2>2, ApDnHandled
  <2>4. /\ c \in [Ifaces -> Cats]
        /\ \A j \in Ifaces : c[j] \in CatsOf(j) \cup IF j \in Wlans THEN {"UNKNOWN"} ELSE {}
    BY <1>2, <2>2 DEF Cats, CatsOf
  <2> QED BY <1>2, <1>5, <2>3, <2>4
<1>11. CASE ext[1] = CfgChange
  <2>1. PICK c : c = Config(file)
    OBVIOUS
  <2>2. /\ c \in [Ifaces -> Cats]
        /\ \A j \in Ifaces : c[j] \in CatsOf(j) \cup IF j \in Wlans THEN {"UNKNOWN"} ELSE {}
    BY <1>2, <2>1, Configured DEF CatsOf, Types
  <2>3. used.edits # 0
    <3>1. ext \in Seq(ExtEvent) /\ DOMAIN ext = 1 .. Len(ext) /\ 1 \in 1 .. Len(ext)
      BY <1>1, <1>2 DEF Types
    <3> QED BY <1>11, <3>1 DEF BasicInv, Unedited, Holds
  <2>4. Same(c) \/ (Lost(usb, c, TRUE) /\ ext' \in {Tail(ext), Append(Tail(ext), UpOf(usb))})
    BY <1>1, <1>11, <2>1, CfgHandled
  <2> QED BY <1>2, <1>4, <1>5, <2>2, <2>3, <2>4
<1>12. \/ \E i \in Links : ext[1] = PreUp(i) \/ ext[1] = UpOf(i) \/ ext[1] = DnOf(i)
       \/ \E w \in Wlans : ext[1] = UpOf(w) \/ ext[1] = DnOf(w)
       \/ ext[1] = CfgChange
  BY <1>1 DEF ExtEvent, NlEvent
<1> QED BY <1>6, <1>7, <1>8, <1>9, <1>10, <1>11, <1>12

\* The deletion of an object is handled: its successor is announced.
LEMMA InternalHandled ==
  ASSUME BasicInv, Process_internal
  PROVE  /\ UNCHANGED <<link, file, cats, decoded, thread, used>> /\ int' = <<>>
         /\ \A o : o \in insts' <=> o \in insts /\ o.is_active
         /\ ext' = IF \E o \in insts : o.is_mode_switch THEN Append(ext, UpOf(usb)) ELSE ext
<1>1. PICK i \in Ifaces : int = <<Del(i)>> /\ \A o \in insts : o.is_active <=> o.i # i
  BY DEF BasicInv, Doomed, Process_internal
<1>2. Head(int) = Del(i) /\ Tail(int) = <<>>
  BY <1>1
<1>3. Handles(Del(i), ext, <<>>)
  BY <1>2 DEF Process_internal
<1>4. ProcessEvt(Del(i)) = lan_delete_self(i)
  BY Handling
<1> DEFINE left == ProcessEvt(Del(i))
<1>5. /\ left.cats = cats /\ left.insts = insts \ Deleted(i)
      /\ left.posted = {Evt("USB_LINK_UP", o.i) : o \in {p \in Deleted(i) : p.is_mode_switch}}
  BY <1>4 DEF lan_delete_self, Left
<1>6. /\ cats' = left.cats /\ insts' = left.insts
      /\ IF left.posted = {} THEN ext' = ext /\ int' = <<>>
                             ELSE \E p \in left.posted : PostEvt(ext, <<>>, p)
      /\ UNCHANGED <<link, file, decoded, thread, used>>
  BY <1>3 DEF Handles
<1> HIDE DEF left
<1>7. \A o \in insts : o \in Deleted(i) <=> ~o.is_active
  BY <1>1 DEF BasicInv, Doomed, Deleted
<1>8. \A o : o \in insts' <=> o \in insts /\ o.is_active
  BY <1>5, <1>6, <1>7
<1>9. CASE \E o \in insts : o.is_mode_switch
  <2>1. left.posted = {UpOf(usb)}
    BY <1>5, <1>7, <1>9, IfacesAssumption DEF BasicInv, Switching, UpOf, Deleted
  <2>2. PostEvt(ext, <<>>, UpOf(usb))
    BY <1>6, <2>1
  <2>3. ext' = Append(ext, UpOf(usb)) /\ int' = <<>>
    BY <2>2, IfacesAssumption DEF PostEvt, UpOf, Evt, External
  <2> QED BY <1>5, <1>6, <1>8, <1>9, <2>3
<1>10. CASE ~ \E o \in insts : o.is_mode_switch
  <2>1. left.posted = {}
    BY <1>5, <1>10 DEF Deleted
  <2> QED BY <1>5, <1>6, <1>8, <1>10, <2>1
<1> QED BY <1>9, <1>10

LEMMA InternalKeepsBasic ==
  ASSUME BasicInv, Process_internal
  PROVE  BasicInv'
<1>1. /\ UNCHANGED <<link, file, cats, decoded, thread, used>> /\ int' = <<>>
      /\ \A o : o \in insts' <=> o \in insts /\ o.is_active
      /\ ext' = IF \E o \in insts : o.is_mode_switch THEN Append(ext, UpOf(usb)) ELSE ext
  BY InternalHandled
<1>2. /\ ext \in Seq(ExtEvent) /\ UpOf(usb) \in ExtEvent
      /\ ~Holds(<<UpOf(usb)>>, CfgChange) /\ <<UpOf(usb)>> \in Seq(ExtEvent)
  BY EventSets, Distinct, Alone DEF BasicInv, Types
<1>3. ext' \in Seq(ExtEvent) /\ (Holds(ext', CfgChange) => Holds(ext, CfgChange))
  <2>1. Append(ext, UpOf(usb)) = ext \o <<UpOf(usb)>> /\ Append(ext, UpOf(usb)) \in Seq(ExtEvent)
    BY <1>2, Appended
  <2>2. Holds(ext \o <<UpOf(usb)>>, CfgChange) => Holds(ext, CfgChange)
    BY <1>2, HeldInEither
  <2> QED BY <1>1, <1>2, <2>1, <2>2
<1>4. int' \in Seq(IntEvent)
  BY <1>1
<1>5. Types'
  BY <1>1, <1>3, <1>4 DEF BasicInv, Types
<1>6. Kinds'
  BY <1>1 DEF BasicInv, Kinds, TableKinds
<1>7. Unique' /\ Doomed' /\ Switching'
  BY <1>1 DEF BasicInv, Unique, Doomed, Switching
<1>8. Unedited'
  BY <1>1, <1>3 DEF BasicInv, Unedited
<1> QED BY <1>5, <1>6, <1>7, <1>8 DEF BasicInv

\* An event that the kernel told of is posted.
LEMMA NetlinkPosted ==
  ASSUME BasicInv, netlink_posts
  PROVE  /\ UNCHANGED <<link, file, cats, insts, int, used>> /\ decoded # <<>>
         /\ ext' = Append(ext, decoded[1]) /\ decoded' = Tail(decoded) /\ thread' = "running"
         /\ decoded[1] \in NlEvent
<1>1. decoded \in Seq(NlEvent) /\ decoded # <<>>
  BY DEF BasicInv, Types, netlink_posts
<1>2. decoded[1] \in NlEvent /\ Head(decoded) = decoded[1]
  BY <1>1, Parted
<1>3. decoded[1].event \in External
  BY <1>2, IfacesAssumption DEF NlEvent, UpOf, DnOf, PreUp, Evt, External, Links
<1>4. ext' = Append(ext, decoded[1]) /\ int' = int
  BY <1>2, <1>3 DEF netlink_posts, PostEvt
<1> QED BY <1>1, <1>2, <1>4 DEF netlink_posts, Signalled

\* What is posted does not make the file edited.
LEMMA PostedKeeps ==
  ASSUME BasicInv, NEW c \in ExtEvent, ext' = Append(ext, c),
         c = CfgChange => used'.edits # 0, used'.edits = 0 => used.edits = 0
  PROVE  ext' \in Seq(ExtEvent) /\ Unedited'
<1>1. /\ ext \in Seq(ExtEvent) /\ <<c>> \in Seq(ExtEvent) /\ Append(ext, c) \in Seq(ExtEvent)
      /\ Append(ext, c) = ext \o <<c>>
  <2>1. ext \in Seq(ExtEvent)
    BY DEF BasicInv, Types
  <2> QED BY <2>1, Appended
<1>2. Holds(ext \o <<c>>, CfgChange) <=> Holds(ext, CfgChange) \/ Holds(<<c>>, CfgChange)
  BY <1>1, HeldInEither
<1>3. Holds(<<c>>, CfgChange) <=> CfgChange = c
  BY Alone
<1> QED BY <1>1, <1>2, <1>3 DEF BasicInv, Unedited

LEMMA NetlinkKeepsBasic ==
  ASSUME BasicInv, netlink_posts
  PROVE  BasicInv'
<1>1. /\ UNCHANGED <<link, file, cats, insts, int, used>> /\ decoded # <<>>
      /\ ext' = Append(ext, decoded[1]) /\ decoded' = Tail(decoded) /\ thread' = "running"
      /\ decoded[1] \in NlEvent
  BY NetlinkPosted
<1>2. decoded[1] \in ExtEvent /\ decoded[1] # CfgChange
  BY <1>1, EventSets, Distinct DEF NlEvent
<1>3. ext' \in Seq(ExtEvent) /\ Unedited'
  BY <1>1, <1>2, PostedKeeps
<1>4. decoded' \in Seq(NlEvent)
  BY <1>1, Parted DEF BasicInv, Types
<1> QED BY <1>1, <1>3, <1>4
        DEF BasicInv, Types, Kinds, TableKinds, Unique, Doomed, Switching

\* What a message of the kernel is decoded into.
LEMMA Decodes ==
  ASSUME BasicInv, NEW i \in Links, NEW to \in {"down", "noCarrier", "running"}, ipa_nl_decode(i, to)
  PROVE  /\ UNCHANGED <<file, cats, insts, ext, int, thread>> /\ decoded = <<>>
         /\ link' = [link EXCEPT ![i] = to] /\ link' \in [Ifaces -> {"down", "noCarrier", "running"}]
         /\ link[i] # to /\ used' \in [links : Nat, edits : Nat] /\ used'.edits = used.edits
         /\ i = usb /\ link[i] = "down" /\ to = "running" => UpRunning
         /\ i \in Modems => to # "noCarrier"
         /\ decoded' \in {<<PreUp(i), UpOf(i)>>, <<UpOf(i)>>, <<PreUp(i), DnOf(i)>>, <<DnOf(i)>>,
                          <<DnOf(i), DnOf(i)>>}
         /\ decoded' \in Seq(NlEvent)
         /\ decoded' = <<PreUp(i), UpOf(i)>> <=> to = "running" /\ link[i] = "down"
         /\ decoded' = <<UpOf(i)>> <=> to = "running" /\ link[i] # "down"
<1>1. /\ decoded = <<>> /\ ChangesLink(i, to) /\ decoded' = News(i, to)
      /\ UNCHANGED <<file, cats, insts, ext, int, thread>>
      /\ i = usb /\ link[i] = "down" /\ to = "running" => UpRunning
      /\ i \in Modems => to # "noCarrier"
  BY DEF ipa_nl_decode
<1>2. /\ Evt("LINK_UP", i) = PreUp(i) /\ Evt("USB_LINK_UP", i) = UpOf(i)
      /\ Evt("LINK_DOWN", i) = DnOf(i) /\ i \in Ifaces
  BY DEF PreUp, UpOf, DnOf, Links
<1>3. decoded' = IF to = "running"
                 THEN IF link[i] = "down" THEN <<PreUp(i), UpOf(i)>> ELSE <<UpOf(i)>>
                 ELSE IF to = "noCarrier"
                 THEN IF link[i] = "down" THEN <<PreUp(i), DnOf(i)>> ELSE <<DnOf(i)>>
                 ELSE <<DnOf(i), DnOf(i)>>
  BY <1>1, <1>2 DEF News
<1>4. PreUp(i) \in NlEvent /\ UpOf(i) \in NlEvent /\ DnOf(i) \in NlEvent
  BY EventSets
<1>5. /\ <<PreUp(i), UpOf(i)>> \in Seq(NlEvent) /\ <<UpOf(i)>> \in Seq(NlEvent)
      /\ <<PreUp(i), DnOf(i)>> \in Seq(NlEvent) /\ <<DnOf(i)>> \in Seq(NlEvent)
      /\ <<DnOf(i), DnOf(i)>> \in Seq(NlEvent)
  BY <1>4
<1>6. UpOf(i) # DnOf(i) /\ PreUp(i) # DnOf(i) /\ UpOf(i) # PreUp(i)
  BY Distinct
<1>7. /\ <<PreUp(i), UpOf(i)>> # <<UpOf(i)>> /\ <<PreUp(i), UpOf(i)>> # <<PreUp(i), DnOf(i)>>
      /\ <<PreUp(i), UpOf(i)>> # <<DnOf(i)>> /\ <<PreUp(i), UpOf(i)>> # <<DnOf(i), DnOf(i)>>
      /\ <<UpOf(i)>> # <<PreUp(i), DnOf(i)>> /\ <<UpOf(i)>> # <<DnOf(i)>>
      /\ <<UpOf(i)>> # <<DnOf(i), DnOf(i)>>
  BY <1>6
<1>8. /\ link' = [link EXCEPT ![i] = to] /\ link' \in [Ifaces -> {"down", "noCarrier", "running"}]
      /\ link[i] # to /\ used' \in [links : Nat, edits : Nat] /\ used'.edits = used.edits
  BY <1>1, <1>2 DEF ChangesLink, BasicInv, Types
<1>9. /\ decoded' \in {<<PreUp(i), UpOf(i)>>, <<UpOf(i)>>, <<PreUp(i), DnOf(i)>>, <<DnOf(i)>>,
                       <<DnOf(i), DnOf(i)>>}
      /\ decoded' \in Seq(NlEvent)
  BY <1>3, <1>5
<1>10. /\ decoded' = <<PreUp(i), UpOf(i)>> <=> to = "running" /\ link[i] = "down"
       /\ decoded' = <<UpOf(i)>> <=> to = "running" /\ link[i] # "down"
  BY <1>3, <1>7
<1> QED BY <1>1, <1>8, <1>9, <1>10

LEMMA DecodeKeepsBasic ==
  ASSUME BasicInv, NEW i \in Links, NEW to \in {"down", "noCarrier", "running"}, ipa_nl_decode(i, to)
  PROVE  BasicInv'
<1>1. /\ UNCHANGED <<file, cats, insts, ext, int, thread>>
      /\ link' \in [Ifaces -> {"down", "noCarrier", "running"}]
      /\ used' \in [links : Nat, edits : Nat] /\ used'.edits = used.edits
      /\ decoded' \in Seq(NlEvent)
  BY Decodes
<1> QED BY <1>1 DEF BasicInv, Types, Kinds, TableKinds, Unique, Doomed, Switching, Unedited

\* An access point starts or stops.
LEMMA Notified ==
  ASSUME BasicInv, NEW w \in Wlans, NEW to \in {"down", "running"}, ipa_driver_msg_notifier(w, to)
  PROVE  /\ UNCHANGED <<file, cats, insts, int, decoded>>
         /\ link' = [link EXCEPT ![w] = to] /\ link' \in [Ifaces -> {"down", "noCarrier", "running"}]
         /\ link[w] # to /\ used' \in [links : Nat, edits : Nat] /\ used'.edits = used.edits
         /\ ext' = Append(ext, IF to = "running" THEN UpOf(w) ELSE DnOf(w)) /\ thread' = "running"
<1>1. /\ ChangesLink(w, to) /\ w \in Ifaces
      /\ PostEvt(ext, int, Evt(IF to = "running" THEN "AP_LINK_UP" ELSE "WLAN_LINK_DOWN", w))
      /\ thread' = "running" /\ UNCHANGED <<file, cats, insts, decoded>>
  BY DEF ipa_driver_msg_notifier, Signalled, Ifaces
<1>2. /\ link' = [link EXCEPT ![w] = to] /\ link' \in [Ifaces -> {"down", "noCarrier", "running"}]
      /\ link[w] # to /\ used' \in [links : Nat, edits : Nat] /\ used'.edits = used.edits
  BY <1>1 DEF ChangesLink, BasicInv, Types
<1>3. /\ Evt("AP_LINK_UP", w) = UpOf(w) /\ Evt("WLAN_LINK_DOWN", w) = DnOf(w)
      /\ Evt("AP_LINK_UP", w).event \in External /\ Evt("WLAN_LINK_DOWN", w).event \in External
  BY DEF UpOf, DnOf, Evt, External
<1>4. ext' = Append(ext, IF to = "running" THEN UpOf(w) ELSE DnOf(w)) /\ int' = int
  BY <1>1, <1>3 DEF PostEvt
<1> QED BY <1>1, <1>2, <1>4

LEMMA NotifyKeepsBasic ==
  ASSUME BasicInv, NEW w \in Wlans, NEW to \in {"down", "running"}, ipa_driver_msg_notifier(w, to)
  PROVE  BasicInv'
<1>1. /\ UNCHANGED <<file, cats, insts, int, decoded>>
      /\ link' \in [Ifaces -> {"down", "noCarrier", "running"}]
      /\ used' \in [links : Nat, edits : Nat] /\ used'.edits = used.edits
      /\ ext' = Append(ext, IF to = "running" THEN UpOf(w) ELSE DnOf(w)) /\ thread' = "running"
  BY Notified
<1>2. PICK c : c = IF to = "running" THEN UpOf(w) ELSE DnOf(w)
  OBVIOUS
<1>3. c \in ExtEvent /\ c # CfgChange
  BY <1>2, EventSets, Distinct
<1>4. ext' \in Seq(ExtEvent) /\ Unedited'
  BY <1>1, <1>2, <1>3, PostedKeeps
<1> QED BY <1>1, <1>4 DEF BasicInv, Types, Kinds, TableKinds, Unique, Doomed, Switching

\* The file is edited.
LEMMA EditKeepsBasic ==
  ASSUME BasicInv, firewall_monitor
  PROVE  /\ BasicInv' /\ UNCHANGED <<link, cats, insts, int, decoded>>
         /\ ext' = Append(ext, CfgChange) /\ used'.edits # 0
<1>1. /\ UNCHANGED <<link, cats, insts, int, decoded>> /\ ext' = Append(ext, CfgChange)
      /\ file' \in {"LAN", "WAN"} /\ thread' = "running"
  BY DEF firewall_monitor, PostEvt, CfgChange, Evt, External, Signalled
<1>2. used' \in [links : Nat, edits : Nat] /\ used'.edits # 0
  BY DEF firewall_monitor, BasicInv, Types
<1>3. ext' \in Seq(ExtEvent) /\ Unedited'
  BY <1>1, <1>2, EventSets, PostedKeeps
<1>4. BasicInv'
  BY <1>1, <1>2, <1>3 DEF BasicInv, Types, Kinds, TableKinds, Unique, Doomed, Switching
<1> QED BY <1>1, <1>2, <1>4

LEMMA IdleKeepsBasic ==
  ASSUME BasicInv, Process_waits \/ UNCHANGED vars
  PROVE  BasicInv'
<1>1. UNCHANGED <<link, file, cats, insts, ext, int, decoded, used>> /\ thread' \in {"running", "waiting"}
  BY DEF Process_waits, vars, BasicInv, Types
<1> QED BY <1>1 DEF BasicInv, Types, Kinds, TableKinds, Unique, Doomed, Switching, Unedited

LEMMA InitBasic == Init => BasicInv
<1> SUFFICES ASSUME Init PROVE BasicInv
  OBVIOUS
<1>1. Types
  BY IfacesAssumption DEF Init, Types, Config, Ifaces
<1>2. Kinds
  BY IfacesAssumption DEF Init, Kinds, TableKinds, Config, CatsOf, Ifaces
<1> QED BY <1>1, <1>2 DEF Init, BasicInv, Unique, Doomed, Switching, Unedited, Holds

LEMMA NextBasic == BasicInv /\ [Next]_vars => BasicInv'
BY ExternalKeepsBasic, InternalKeepsBasic, NetlinkKeepsBasic, DecodeKeepsBasic, NotifyKeepsBasic,
   EditKeepsBasic, IdleKeepsBasic DEF Next, Process, Links

-----------------------------------------------------------------------------
(* Objects follow links *)

\* What is held and followed by something is followed by something held.
LEMMA Comes ==
  ASSUME NEW q, NEW a, NEW b, Holds(q, a), Follows(q, a, b)
  PROVE  Holds(q, b)
BY DEF Holds, Follows

\* An event was taken, and none posted.
LEMMA LineShorter ==
  ASSUME Types, ext # <<>>, ext' = Tail(ext), decoded' = decoded
  PROVE  /\ \A a : a # ext[1] /\ Holds(Line, a) => Holds(Line', a)
         /\ \A a, b : Follows(Line, a, b) => Follows(Line', a, b)
         /\ \A b : Follows(Line, ext[1], b) => Holds(Line', b)
<1>1. CfgChange \in ExtEvent
  BY EventSets
<1> QED BY <1>1, LineTaken

\* A new object, and the old ones.
LEMMA MadeObjects ==
  ASSUME NEW i, NEW c, NEW mode, Made(i, c, mode)
  PROVE  /\ \A o \in insts : o \in insts'
         /\ \A o \in insts' : \/ o \in insts
                              \/ /\ o.i = i /\ o.cat = c[i] /\ o.mode = mode /\ o.is_active
                                 /\ ~o.is_mode_switch /\ \A p \in insts : p.i # i
         /\ c[i] # "UNKNOWN" => \E o \in insts' : o.i = i
         /\ \/ \E o \in insts : o.i = i
            \/ c[i] = "UNKNOWN"
            \/ \E o \in insts' : o.i = i /\ o.cat = c[i] /\ o.is_active
         /\ cats' = c /\ ext' = Tail(ext)
<1>0. cats' = c /\ ext' = Tail(ext)
  BY DEF Made
<1>1. CASE insts' = insts /\ (c[i] = "UNKNOWN" \/ \E o \in insts : o.i = i)
  BY <1>0, <1>1
<1>2. CASE /\ insts' = insts \cup {NewObject(i, c[i], mode)}
           /\ c[i] # "UNKNOWN" /\ \A o \in insts : o.i # i
  <2>1. PICK n : n = NewObject(i, c[i], mode)
    OBVIOUS
  <2>2. n.i = i /\ n.cat = c[i] /\ n.mode = mode /\ n.is_active /\ ~n.is_mode_switch
    BY <2>1 DEF NewObject
  <2>3. insts' = insts \cup {n}
    BY <1>2, <2>1
  <2> QED BY <1>0, <1>2, <2>2, <2>3
<1> QED BY <1>1, <1>2 DEF Made

LEMMA PreUpFollows ==
  ASSUME FollowInv, Process_external, NEW i \in Links, ext[1] = PreUp(i)
  PROVE  (Category /\ Named /\ Rises /\ Falls)'
<1>1. /\ int = <<>> /\ ext # <<>> /\ Handles(ext[1], Tail(ext), <<>>)
      /\ UNCHANGED <<link, file, decoded, thread, used>>
      /\ \A o \in insts : o.is_active /\ ~o.is_mode_switch
  BY TakesExternal DEF FollowInv
<1>2. cats' = cats /\ ext' = Tail(ext) /\ \A o \in insts : o \in insts'
  BY <1>1, PreUpHandled, MadeObjects DEF Same
<1>3. \A o \in insts' : o \in insts \/ (o.i = i /\ o.cat = cats[i] /\ o.is_active)
  BY <1>1, PreUpHandled, MadeObjects DEF Same
<1>4. /\ \A a : a # PreUp(i) /\ Holds(Line, a) => Holds(Line', a)
      /\ \A a, b : Follows(Line, a, b) => Follows(Line', a, b)
      /\ \A b : Follows(Line, PreUp(i), b) => Holds(Line', b)
  BY <1>1, <1>2, LineShorter DEF FollowInv, BasicInv
<1>5. Category'
  BY <1>2, <1>3, <1>4, Distinct DEF FollowInv, Category
<1>6. Named'
  BY <1>2 DEF FollowInv, Named
<1>7. Rises'
  BY <1>1, <1>2, <1>4, Distinct DEF FollowInv, Rises, Served
<1>8. Falls'
  BY <1>1, <1>2, <1>3, <1>4, Distinct DEF FollowInv, Falls
<1> QED BY <1>5, <1>6, <1>7, <1>8

LEMMA UpFollows ==
  ASSUME FollowInv, Process_external, NEW i \in Links, ext[1] = UpOf(i)
  PROVE  (Category /\ Named /\ Rises /\ Falls)'
<1>1. /\ int = <<>> /\ ext # <<>> /\ Handles(ext[1], Tail(ext), <<>>)
      /\ UNCHANGED <<link, file, decoded, thread, used>>
      /\ \A o \in insts : o.is_active /\ ~o.is_mode_switch
  BY TakesExternal DEF FollowInv
<1>m. PICK mode : mode = IF cats[i] = "WAN" THEN "ECM" ELSE "Q6"
  OBVIOUS
<1>2. Made(i, cats, mode) /\ cats[i] # "UNKNOWN" /\ i \in Ifaces
  BY <1>1, <1>m, UpHandled DEF FollowInv, BasicInv, Kinds, TableKinds, CatsOf, Links
<1>3. /\ cats' = cats /\ ext' = Tail(ext) /\ \A o \in insts : o \in insts'
      /\ \A o \in insts' : o \in insts \/ (o.i = i /\ o.cat = cats[i] /\ o.mode = mode /\ o.is_active)
      /\ (\E o \in insts : o.i = i) \/ \E o \in insts' : o.i = i /\ o.cat = cats[i] /\ o.is_active
  BY <1>2, MadeObjects
<1>4. /\ \A a : a # UpOf(i) /\ Holds(Line, a) => Holds(Line', a)
      /\ \A a, b : Follows(Line, a, b) => Follows(Line', a, b)
      /\ \A b : Follows(Line, UpOf(i), b) => Holds(Line', b)
  BY <1>1, <1>3, LineShorter DEF FollowInv, BasicInv
<1>5. Category'
  BY <1>m, <1>3, <1>4, Distinct DEF FollowInv, Category
<1>6. Named'
  BY <1>3 DEF FollowInv, Named
<1>7. Rises'
  <2> SUFFICES ASSUME NEW j \in Ifaces, link'[j] = "running"
               PROVE  /\ Follows(Line', DnOf(j), UpOf(j))
                      /\ Served(j)' \/ Holds(Line', UpOf(j))
    BY DEF Rises
  <2>1. /\ Follows(Line, DnOf(j), UpOf(j))
        /\ Served(j) \/ Holds(Line, UpOf(j))
    BY <1>1 DEF FollowInv, Rises
  <2>2. Served(j) => Served(j)'
    BY <1>3 DEF Served
  <2>3. CASE j # i
    BY <1>4, <2>1, <2>2, <2>3, Distinct
  <2>4. CASE j = i
    <3>1. CASE \E o \in insts' : o.i = i /\ o.cat = cats[i] /\ o.is_active
      BY <1>3, <1>4, <2>1, <2>4, <3>1 DEF Served
    <3>2. CASE ~ \E o \in insts' : o.i = i /\ o.cat = cats[i] /\ o.is_active
      <4>1. PICK o \in insts : o.i = i /\ o.is_active /\ o.cat # cats[i]
        BY <1>1, <1>3, <3>2
      <4>2. i = usb
        <5>1. o.cat \in CatsOf(i) /\ cats[i] \in CatsOf(i)
          BY <1>2, <4>1 DEF FollowInv, BasicInv, Kinds, TableKinds, Links
        <5> QED BY <4>1, <5>1 DEF CatsOf, Links
      <4>3. Holds(Line, DnOf(usb))
        BY <4>1, <4>2 DEF FollowInv, Category
      <4>4. Holds(Line', DnOf(usb)) /\ Follows(Line', DnOf(usb), UpOf(usb))
        BY <1>4, <2>1, <2>4, <4>2, <4>3, Distinct
      <4> QED BY <2>4, <4>2, <4>4, Comes
    <3> QED BY <3>1, <3>2
  <2> QED BY <2>3, <2>4
<1>8. Falls'
  BY <1>1, <1>3, <1>4, Distinct DEF FollowInv, Falls
<1> QED BY <1>5, <1>6, <1>7, <1>8

LEMMA ApUpFollows ==
  ASSUME FollowInv, Process_external, NEW w \in Wlans, ext[1] = UpOf(w)
  PROVE  (Category /\ Named /\ Rises /\ Falls)'
<1>1. /\ int = <<>> /\ ext # <<>> /\ Handles(ext[1], Tail(ext), <<>>)
      /\ UNCHANGED <<link, file, decoded, thread, used>>
      /\ \A o \in insts : o.is_active /\ ~o.is_mode_switch
  BY TakesExternal DEF FollowInv
<1>2. /\ cats \in [Ifaces -> Cats] /\ w \in Ifaces /\ w # usb
      /\ cats[w] \in {"WLAN", "UNKNOWN"}
  BY IfacesAssumption DEF FollowInv, BasicInv, Types, Cats, Kinds, TableKinds, CatsOf, Ifaces
<1>c. PICK c : c = [cats EXCEPT ![w] = "WLAN"]
  OBVIOUS
<1>3. /\ cats' \in [Ifaces -> Cats] /\ \A j \in Ifaces : j # w => cats'[j] = cats[j]
      /\ ext' = Tail(ext) /\ \A o \in insts : o \in insts'
      /\ \A o \in insts' : o \in insts \/ (o.i = w /\ o.is_active)
      /\ \E o \in insts' : o.i = w /\ o.is_active
  <2>1. CASE cats[w] = "UNKNOWN"
    <3>1. Made(w, c, "Q6") /\ c[w] = "WLAN"
      BY <1>1, <1>2, <1>c, <2>1, ApUpHandled
    <3>2. /\ cats' = c /\ ext' = Tail(ext) /\ \A o \in insts : o \in insts'
          /\ \A o \in insts' : o \in insts \/ (o.i = w /\ o.is_active)
          /\ (\E o \in insts : o.i = w) \/ \E o \in insts' : o.i = w /\ o.is_active
      BY <3>1, MadeObjects
    <3>3. c \in [Ifaces -> Cats] /\ \A j \in Ifaces : j # w => c[j] = cats[j]
      BY <1>2, <1>c DEF Cats
    <3> QED BY <1>1, <3>2, <3>3
  <2>2. CASE cats[w] # "UNKNOWN"
    <3>1. Same(cats)
      BY <1>1, <2>2, ApUpHandled
    <3>2. \E o \in insts : o.i = w /\ o.is_active
      BY <1>2, <2>2 DEF FollowInv, Named
    <3> QED BY <1>2, <3>1, <3>2 DEF Same
  <2> QED BY <2>1, <2>2
<1>4. /\ \A a : a # UpOf(w) /\ Holds(Line, a) => Holds(Line', a)
      /\ \A a, b : Follows(Line, a, b) => Follows(Line', a, b)
      /\ \A b : Follows(Line, UpOf(w), b) => Holds(Line', b)
  BY <1>1, <1>3, LineShorter DEF FollowInv, BasicInv
<1>5. Category'
  BY <1>2, <1>3, <1>4, EventSets, Distinct DEF FollowInv, Category
<1>6. Named'
  BY <1>3, EventSets DEF FollowInv, Named
<1>7. Rises'
  <2> SUFFICES ASSUME NEW j \in Ifaces, link'[j] = "running"
               PROVE  /\ Follows(Line', DnOf(j), UpOf(j))
                      /\ Served(j)' \/ Holds(Line', UpOf(j))
    BY DEF Rises
  <2>1. /\ Follows(Line, DnOf(j), UpOf(j))
        /\ Served(j) \/ Holds(Line, UpOf(j))
    BY <1>1 DEF FollowInv, Rises
  <2>2. CASE j # w
    BY <1>3, <1>4, <2>1, <2>2, Distinct DEF Served
  <2>3. CASE j = w
    BY <1>3, <1>4, <2>1, <2>3 DEF Served
  <2> QED BY <2>2, <2>3
<1>8. Falls'
  BY <1>1, <1>3, <1>4, Distinct DEF FollowInv, Falls
<1> QED BY <1>5, <1>6, <1>7, <1>8

\* The objects that are left when an interface is lost.
LEMMA LostObjects ==
  ASSUME NEW i, NEW c, Lost(i, c, FALSE), insts \subseteq Instance
  PROVE  /\ \A o \in insts' : (o \in insts /\ o.i # i)
                              \/ (o.i = i /\ ~o.is_active /\ o.cat # "WAN")
         /\ \A o \in insts : o.i # i => o \in insts'
         /\ cats' = c
<1>1. PICK no \in BOOLEAN : no = FALSE
  OBVIOUS
<1>2. \A o \in insts : LET p == handle_down_evt(o, no)
                       IN p.i = o.i /\ ~p.is_active /\ p.cat = o.cat
  BY GoingDown
<1>3. /\ cats' = c /\ \A o \in insts : o.i # i => o \in insts'
      /\ \A p \in insts' : \/ p \in insts /\ p.i # i
                           \/ \E o \in insts : o.i = i /\ o.cat # "WAN" /\ p = handle_down_evt(o, no)
  BY <1>1 DEF Lost
<1> QED BY <1>2, <1>3

LEMMA DnFollows ==
  ASSUME FollowInv, Process_external, NEW i \in Links, ext[1] = DnOf(i)
  PROVE  (Category /\ Named /\ Rises /\ Falls)'
<1>1. /\ int = <<>> /\ ext # <<>> /\ Handles(ext[1], Tail(ext), <<>>)
      /\ UNCHANGED <<link, file, decoded, thread, used>>
      /\ \A o \in insts : o.is_active /\ ~o.is_mode_switch
      /\ insts \subseteq Instance
  BY TakesExternal DEF FollowInv, BasicInv, Types
<1>2. Lost(i, cats, FALSE) /\ ext' = Tail(ext)
  BY <1>1, DnHandled DEF FollowInv
<1>3. /\ \A o \in insts' : (o \in insts /\ o.i # i) \/ (o.i = i /\ ~o.is_active /\ o.cat # "WAN")
      /\ \A o \in insts : o.i # i => o \in insts'
      /\ cats' = cats
  BY <1>1, <1>2, LostObjects
<1>4. /\ \A a : a # DnOf(i) /\ Holds(Line, a) => Holds(Line', a)
      /\ \A a, b : Follows(Line, a, b) => Follows(Line', a, b)
      /\ \A b : Follows(Line, DnOf(i), b) => Holds(Line', b)
  BY <1>1, <1>2, LineShorter DEF FollowInv, BasicInv
<1>5. Category'
  BY <1>3, <1>4, Distinct DEF FollowInv, Category
<1>6. Named'
  BY <1>3 DEF FollowInv, Named, Links
<1>7. Rises'
  <2> SUFFICES ASSUME NEW j \in Ifaces, link'[j] = "running"
               PROVE  /\ Follows(Line', DnOf(j), UpOf(j))
                      /\ Served(j)' \/ Holds(Line', UpOf(j))
    BY DEF Rises
  <2>1. /\ Follows(Line, DnOf(j), UpOf(j))
        /\ Served(j) \/ Holds(Line, UpOf(j))
    BY <1>1 DEF FollowInv, Rises
  <2>2. CASE j # i
    BY <1>3, <1>4, <2>1, <2>2, Distinct DEF Served
  <2>3. CASE j = i
    BY <1>4, <2>1, <2>3
  <2> QED BY <2>2, <2>3
<1>8. Falls'
  BY <1>1, <1>3, <1>4, Distinct DEF FollowInv, Falls
<1> QED BY <1>5, <1>6, <1>7, <1>8

LEMMA ApDnFollows ==
  ASSUME FollowInv, Process_external, NEW w \in Wlans, ext[1] = DnOf(w)
  PROVE  (Category /\ Named /\ Rises /\ Falls)'
<1>1. /\ int = <<>> /\ ext # <<>> /\ Handles(ext[1], Tail(ext), <<>>)
      /\ UNCHANGED <<link, file, decoded, thread, used>>
      /\ \A o \in insts : o.is_active /\ ~o.is_mode_switch
      /\ insts \subseteq Instance
  BY TakesExternal DEF FollowInv, BasicInv, Types
<1>2. cats \in [Ifaces -> Cats] /\ w \in Ifaces /\ w # usb
  BY IfacesAssumption DEF FollowInv, BasicInv, Types, Cats, Ifaces
<1>c. PICK c : c = [cats EXCEPT ![w] = IF \E o \in insts : o.i = w THEN "UNKNOWN" ELSE @]
  OBVIOUS
<1>3. /\ \A o \in insts' : (o \in insts /\ o.i # w) \/ (o.i = w /\ ~o.is_active /\ o.cat # "WAN")
      /\ \A o \in insts : o.i # w => o \in insts'
      /\ cats' = c /\ ext' = Tail(ext)
  <2>1. Lost(w, c, FALSE) /\ ext' = Tail(ext)
    BY <1>1, <1>c, ApDnHandled DEF FollowInv
  <2> QED BY <1>1, <2>1, LostObjects
<1>4. /\ \A a : a # DnOf(w) /\ Holds(Line, a) => Holds(Line', a)
      /\ \A a, b : Follows(Line, a, b) => Follows(Line', a, b)
      /\ \A b : Follows(Line, DnOf(w), b) => Holds(Line', b)
  BY <1>1, <1>3, LineShorter DEF FollowInv, BasicInv
<1>k. /\ c \in [Ifaces -> Cats] /\ \A j \in Ifaces : j # w => c[j] = cats[j]
      /\ c[w] # "WLAN"
  BY <1>2, <1>c DEF Cats, FollowInv, Named
<1>5. Category'
  BY <1>2, <1>3, <1>4, <1>k, EventSets, Distinct DEF FollowInv, Category
<1>6. Named'
  BY <1>3, <1>k, EventSets DEF FollowInv, Named
<1>7. Rises'
  <2> SUFFICES ASSUME NEW j \in Ifaces, link'[j] = "running"
               PROVE  /\ Follows(Line', DnOf(j), UpOf(j))
                      /\ Served(j)' \/ Holds(Line', UpOf(j))
    BY DEF Rises
  <2>1. /\ Follows(Line, DnOf(j), UpOf(j))
        /\ Served(j) \/ Holds(Line, UpOf(j))
    BY <1>1 DEF FollowInv, Rises
  <2>2. CASE j # w
    BY <1>3, <1>4, <1>k, <2>1, <2>2, Distinct DEF Served
  <2>3. CASE j = w
    BY <1>4, <2>1, <2>3
  <2> QED BY <2>2, <2>3
<1>8. Falls'
  BY <1>1, <1>3, <1>4, Distinct DEF FollowInv, Falls
<1> QED BY <1>5, <1>6, <1>7, <1>8

\* The file was edited: the USB object may have another category from now on.
LEMMA CfgFollows ==
  ASSUME FollowInv, Process_external, ext[1] = CfgChange
  PROVE  (Category /\ Named /\ Rises /\ Falls)'
<1>1. /\ int = <<>> /\ ext # <<>> /\ Handles(ext[1], Tail(ext), <<>>)
      /\ UNCHANGED <<link, file, decoded, thread, used>> /\ Types
      /\ \A o \in insts : o.is_active /\ ~o.is_mode_switch
      /\ insts \subseteq Instance
  BY TakesExternal DEF FollowInv, BasicInv, Types
<1>c. PICK c : c = Config(file)
  OBVIOUS
<1>2. /\ c[usb] = file
      /\ \A i \in Ifaces : i # usb => c[i] = IF i \in Wlans THEN "UNKNOWN" ELSE "WAN"
  BY <1>1, <1>c, Configured
<1>3. used.edits # 0 /\ used'.edits # 0
  <2>1. ext \in Seq(ExtEvent) /\ DOMAIN ext = 1 .. Len(ext) /\ 1 \in 1 .. Len(ext)
    BY <1>1 DEF Types
  <2> QED BY <1>1, <2>1 DEF FollowInv, BasicInv, Unedited, Holds
<1>4. \A i \in Ifaces : i # usb /\ i \notin Wlans => c[i] = cats[i]
  BY <1>2 DEF FollowInv, BasicInv, Kinds, TableKinds, CatsOf
<1>5. usb \in Ifaces /\ usb \notin Wlans
  BY IfacesAssumption DEF Ifaces
<1>6. CASE /\ Same(c)
           /\ \A o \in insts : o.i = usb => o.cat = file \/ (o.cat = "WAN" /\ o.mode = "Q6")
  <2>1. cats' = c /\ insts' = insts /\ ext' = Tail(ext)
    BY <1>6 DEF Same
  <2>2. /\ \A a : a # CfgChange /\ Holds(Line, a) => Holds(Line', a)
        /\ \A a, b : Follows(Line, a, b) => Follows(Line', a, b)
    BY <1>1, <2>1, LineShorter
  <2>3. Category'
    BY <1>2, <1>6, <2>1, <2>2, Distinct DEF FollowInv, Category
  <2>4. Named'
    BY <1>2, <1>5, <2>1, EventSets DEF Named
  <2>5. Rises'
    <3> SUFFICES ASSUME NEW j \in Ifaces, link'[j] = "running"
                 PROVE  /\ Follows(Line', DnOf(j), UpOf(j))
                        /\ Served(j)' \/ Holds(Line', UpOf(j))
      BY DEF Rises
    <3>1. /\ Follows(Line, DnOf(j), UpOf(j))
          /\ Served(j) \/ Holds(Line, UpOf(j))
      BY <1>1 DEF FollowInv, Rises
    <3>2. CASE Holds(Line, UpOf(j))
      BY <2>2, <3>1, <3>2, Distinct
    <3>3. CASE Served(j) /\ j # usb
      BY <1>4, <2>1, <2>2, <3>1, <3>3 DEF Served
    <3>4. CASE Served(j) /\ j = usb
      <4>1. PICK o \in insts : o.i = usb /\ o.is_active
        BY <3>4 DEF Served
      <4>2. CASE o.cat = file
        BY <1>2, <2>1, <2>2, <3>1, <3>4, <4>1, <4>2 DEF Served
      <4>3. CASE o.cat = "WAN" /\ o.mode = "Q6"
        <5>1. Holds(Line, DnOf(usb))
          BY <4>1, <4>3 DEF FollowInv, Category
        <5>2. Holds(Line, UpOf(usb))
          BY <3>1, <3>4, <5>1, Comes
        <5> QED BY <2>2, <3>1, <3>4, <5>2, Distinct
      <4> QED BY <1>6, <4>1, <4>2, <4>3
    <3> QED BY <3>1, <3>2, <3>3, <3>4
  <2>6. Falls'
    BY <1>1, <1>3, <2>1, <2>2, Distinct DEF FollowInv, Falls
  <2> QED BY <2>3, <2>4, <2>5, <2>6
<1>7. CASE /\ Lost(usb, c, TRUE)
           /\ \E o \in insts : /\ o.i = usb /\ o.cat # file
                               /\ IF o.cat = "WAN" THEN ext' = Append(Tail(ext), UpOf(usb))
                                                   ELSE ext' = Tail(ext)
  <2>0. PICK yes \in BOOLEAN : yes = TRUE
    OBVIOUS
  <2>1. PICK o \in insts : /\ o.i = usb
                           /\ IF o.cat = "WAN" THEN ext' = Append(Tail(ext), UpOf(usb))
                                               ELSE ext' = Tail(ext)
    BY <1>7
  <2>2. \A p \in insts : LET q == handle_down_evt(p, yes)
                         IN q.i = p.i /\ ~q.is_active /\ q.cat = p.cat /\ q.is_mode_switch = yes
    BY <1>1, GoingDown
  <2>3. /\ cats' = c /\ \A p \in insts : p.i # usb => p \in insts'
        /\ \A p \in insts' : \/ p \in insts /\ p.i # usb
                             \/ \E x \in insts : x.i = usb /\ x.cat # "WAN" /\ p = handle_down_evt(x, yes)
        /\ o.cat # "WAN" => handle_down_evt(o, yes) \in insts'
    BY <1>7, <2>0, <2>1 DEF Lost
  <2>4. /\ \A p \in insts' : (p \in insts /\ p.i # usb) \/ (p.i = usb /\ ~p.is_active /\ p.cat # "WAN")
        /\ o.cat # "WAN" => \E p \in insts' : p.i = usb /\ p.is_mode_switch
    <3>1. \A p \in insts' : (p \in insts /\ p.i # usb) \/ (p.i = usb /\ ~p.is_active /\ p.cat # "WAN")
      BY <2>2, <2>3
    <3>2. PICK q : q = handle_down_evt(o, yes)
      OBVIOUS
    <3>3. q.i = usb /\ q.is_mode_switch = yes
      BY <2>1, <2>2, <3>2
    <3>4. o.cat # "WAN" => q \in insts'
      BY <2>3, <3>2
    <3>5. q.is_mode_switch
      BY <2>0, <3>3
    <3> QED BY <3>1, <3>3, <3>4, <3>5
  <2>5. /\ \A a : a # CfgChange /\ Holds(Line, a) => Holds(Line', a)
        /\ \A a, b : a # UpOf(usb) /\ Follows(Line, a, b) => Follows(Line', a, b)
        /\ o.cat = "WAN" => Holds(Line', UpOf(usb))
    <3>1. UpOf(usb) \in ExtEvent /\ ext' \in {Tail(ext), Append(Tail(ext), UpOf(usb))}
      BY <1>5, <2>1, EventSets
    <3> QED BY <1>1, <2>1, <3>1, LineTaken
  <2>6. Category'
    BY <2>4, <2>5, Distinct DEF FollowInv, Category
  <2>7. Named'
    BY <1>2, <1>5, <2>3, EventSets DEF Named
  <2>8. Rises'
    <3> SUFFICES ASSUME NEW j \in Ifaces, link'[j] = "running"
                 PROVE  /\ Follows(Line', DnOf(j), UpOf(j))
                        /\ Served(j)' \/ Holds(Line', UpOf(j)) \/ \E p \in insts' : p.i = j /\ p.is_mode_switch
      BY DEF Rises
    <3>1. /\ Follows(Line, DnOf(j), UpOf(j))
          /\ Served(j) \/ Holds(Line, UpOf(j))
      BY <1>1 DEF FollowInv, Rises
    <3>2. Follows(Line', DnOf(j), UpOf(j))
      BY <2>5, <3>1, Distinct
    <3>3. CASE j # usb
      BY <1>4, <2>3, <2>5, <3>1, <3>2, <3>3, Distinct DEF Served
    <3>4. CASE j = usb
      BY <2>4, <2>5, <3>2, <3>4
    <3> QED BY <3>3, <3>4
  <2>9. Falls'
    BY <1>1, <1>3, <2>4, <2>5, Distinct DEF FollowInv, Falls
  <2> QED BY <2>6, <2>7, <2>8, <2>9
<1> QED BY <1>1, <1>6, <1>7, <1>c, CfgHandled DEF FollowInv

LEMMA ExternalFollows ==
  ASSUME FollowInv, Process_external
  PROVE  FollowInv'
<1>1. BasicInv'
  BY ExternalKeepsBasic DEF FollowInv
<1>2. \/ \E i \in Links : ext[1] = PreUp(i) \/ ext[1] = UpOf(i) \/ ext[1] = DnOf(i)
      \/ \E w \in Wlans : ext[1] = UpOf(w) \/ ext[1] = DnOf(w)
      \/ ext[1] = CfgChange
  BY TakesExternal DEF FollowInv, ExtEvent, NlEvent
<1>3. (Category /\ Named /\ Rises /\ Falls)'
  BY <1>2, PreUpFollows, UpFollows, DnFollows, ApUpFollows, ApDnFollows, CfgFollows
<1> QED BY <1>1, <1>3 DEF FollowInv

LEMMA InternalFollows ==
  ASSUME FollowInv, Process_internal
  PROVE  FollowInv'
<1>1. /\ UNCHANGED <<link, file, cats, decoded, thread, used>>
      /\ \A o : o \in insts' <=> o \in insts /\ o.is_active
      /\ ext' = IF \E o \in insts : o.is_mode_switch THEN Append(ext, UpOf(usb)) ELSE ext
  BY InternalHandled DEF FollowInv
<1>2. \A o \in insts : o.is_mode_switch => ~o.is_active /\ o.i = usb /\ used.edits # 0
  BY DEF FollowInv, BasicInv, Switching
<1>3. /\ \A a : Holds(Line, a) => Holds(Line', a)
      /\ \A a, b : a # UpOf(usb) /\ Follows(Line, a, b) => Follows(Line', a, b)
      /\ (\E o \in insts : o.is_mode_switch) => Holds(Line', UpOf(usb))
      /\ used.edits = 0 => Line' = Line
  <2>1. CASE \E o \in insts : o.is_mode_switch
    <3>1. ext' = Append(ext, UpOf(usb)) /\ decoded' = decoded /\ UpOf(usb) \in ExtEvent
      BY <1>1, <2>1, EventSets
    <3>2. used.edits # 0
      BY <1>2, <2>1
    <3> QED BY <3>1, <3>2, LinePosted DEF FollowInv, BasicInv
  <2>2. CASE ~ \E o \in insts : o.is_mode_switch
    <3>1. Line' = Line
      BY <1>1, <2>2 DEF Line
    <3> QED BY <2>2, <3>1
  <2> QED BY <2>1, <2>2
<1>4. BasicInv'
  BY InternalKeepsBasic DEF FollowInv
<1>5. Category'
  BY <1>1, <1>3, Distinct DEF FollowInv, Category
<1>6. Named'
  BY <1>1 DEF FollowInv, Named
<1>7. Rises'
  <2> SUFFICES ASSUME NEW j \in Ifaces, link'[j] = "running"
               PROVE  Follows(Line', DnOf(j), UpOf(j)) /\ (Served(j)' \/ Holds(Line', UpOf(j)))
    BY DEF Rises
  <2>1. /\ Follows(Line, DnOf(j), UpOf(j))
        /\ Served(j) \/ Holds(Line, UpOf(j)) \/ \E o \in insts : o.i = j /\ o.is_mode_switch
    BY <1>1 DEF FollowInv, Rises
  <2>2. Served(j) => Served(j)'
    BY <1>1 DEF Served
  <2> QED BY <1>2, <1>3, <2>1, <2>2, Distinct
<1>8. Falls'
  <2> SUFFICES ASSUME NEW j \in Ifaces, link'[j] # "running", j = usb => used'.edits = 0
               PROVE  /\ Follows(Line', UpOf(j), DnOf(j))
                      /\ j \in Links => Follows(Line', PreUp(j), DnOf(j))
                      /\ (\E o \in insts' : o.i = j /\ o.is_active) => Holds(Line', DnOf(j))
    BY DEF Falls
  <2>1. /\ Follows(Line, UpOf(j), DnOf(j))
        /\ j \in Links => Follows(Line, PreUp(j), DnOf(j))
        /\ (\E o \in insts : o.i = j /\ o.is_active) => Holds(Line, DnOf(j))
    BY <1>1 DEF FollowInv, Falls
  <2>2. CASE j = usb
    BY <1>1, <1>3, <2>1, <2>2
  <2>3. CASE j # usb
    BY <1>1, <1>3, <2>1, <2>3, Distinct
  <2> QED BY <2>2, <2>3
<1> QED BY <1>4, <1>5, <1>6, <1>7, <1>8 DEF FollowInv

LEMMA NetlinkFollows ==
  ASSUME FollowInv, netlink_posts
  PROVE  FollowInv'
<1>1. /\ UNCHANGED <<link, file, cats, insts, int, used>> /\ decoded # <<>>
      /\ ext' = Append(ext, decoded[1]) /\ decoded' = Tail(decoded) /\ decoded[1] \in NlEvent
  BY NetlinkPosted DEF FollowInv
<1>2. BasicInv'
  BY NetlinkKeepsBasic DEF FollowInv
<1>3. Line' = Line
  <2>1. /\ decoded \in Seq(ExtEvent) /\ ext \in Seq(ExtEvent) /\ decoded[1] \in ExtEvent
        /\ Tail(decoded) \in Seq(ExtEvent) /\ decoded = <<decoded[1]>> \o Tail(decoded)
    BY <1>1, EventSets, Parted DEF FollowInv, BasicInv, Types
  <2>2. Append(ext, decoded[1]) = ext \o <<decoded[1]>> /\ <<decoded[1]>> \in Seq(ExtEvent)
    BY <2>1, Appended
  <2>3. (ext \o <<decoded[1]>>) \o Tail(decoded) = ext \o (<<decoded[1]>> \o Tail(decoded))
    BY <2>1, <2>2
  <2> QED BY <1>1, <2>1, <2>2, <2>3 DEF Line
<1>4. (Category /\ Named /\ Rises /\ Falls)'
  BY <1>1, <1>3 DEF FollowInv, Category, Named, Rises, Falls, Served
<1> QED BY <1>2, <1>4 DEF FollowInv

\* The sequences a message is decoded into.
LEMMA DecodedEvents ==
  ASSUME NEW i \in Links
  PROVE  /\ \A a : Holds(<<PreUp(i), UpOf(i)>>, a) <=> a = PreUp(i) \/ a = UpOf(i)
         /\ \A a : Holds(<<UpOf(i)>>, a) <=> a = UpOf(i)
         /\ \A a : Holds(<<PreUp(i), DnOf(i)>>, a) <=> a = PreUp(i) \/ a = DnOf(i)
         /\ \A a : Holds(<<DnOf(i)>>, a) <=> a = DnOf(i)
         /\ \A a : Holds(<<DnOf(i), DnOf(i)>>, a) <=> a = DnOf(i)
         /\ Follows(<<PreUp(i), DnOf(i)>>, PreUp(i), DnOf(i))
         /\ \A q, a, b : ~Holds(q, a) => Follows(q, a, b)
<1>1. ASSUME NEW x, NEW y
      PROVE  \A a : Holds(<<x, y>>, a) <=> a = x \/ a = y
  <2>1. DOMAIN <<x, y>> = {1, 2} /\ <<x, y>>[1] = x /\ <<x, y>>[2] = y
    OBVIOUS
  <2> QED BY <2>1 DEF Holds
<1>2. ASSUME NEW x
      PROVE  \A a : Holds(<<x>>, a) <=> a = x
  <2>1. DOMAIN <<x>> = {1} /\ <<x>>[1] = x
    OBVIOUS
  <2> QED BY <2>1 DEF Holds
<1>3. ASSUME NEW x, NEW y, x # y
      PROVE  Follows(<<x, y>>, x, y)
  <2>1. DOMAIN <<x, y>> = {1, 2} /\ <<x, y>>[1] = x /\ <<x, y>>[2] = y
    OBVIOUS
  <2> QED BY <1>3, <2>1 DEF Follows
<1>4. \A q, a, b : ~Holds(q, a) => Follows(q, a, b)
  BY DEF Holds, Follows
<1>5. PreUp(i) # DnOf(i)
  BY Distinct
<1>6. Follows(<<PreUp(i), DnOf(i)>>, PreUp(i), DnOf(i))
  BY <1>3, <1>5
<1> QED BY <1>1, <1>2, <1>4, <1>6

LEMMA DecodeFollows ==
  ASSUME FollowInv, ~UpRunning, NEW i \in Links, NEW to \in {"down", "noCarrier", "running"},
         ipa_nl_decode(i, to)
  PROVE  FollowInv'
<1>1. /\ UNCHANGED <<file, cats, insts, ext, int>> /\ decoded = <<>> /\ i \in Ifaces
      /\ link' = [link EXCEPT ![i] = to] /\ link \in [Ifaces -> {"down", "noCarrier", "running"}]
      /\ used'.edits = used.edits /\ decoded' \in Seq(NlEvent)
      /\ decoded' \in {<<PreUp(i), UpOf(i)>>, <<UpOf(i)>>, <<PreUp(i), DnOf(i)>>, <<DnOf(i)>>,
                       <<DnOf(i), DnOf(i)>>}
      /\ decoded' = <<PreUp(i), UpOf(i)>> => to = "running" /\ i # usb
      /\ to = "running" => decoded' \in {<<PreUp(i), UpOf(i)>>, <<UpOf(i)>>}
      /\ to # "running" => decoded' \in {<<PreUp(i), DnOf(i)>>, <<DnOf(i)>>, <<DnOf(i), DnOf(i)>>}
  BY Decodes DEF FollowInv, BasicInv, Types, Links
<1>2. BasicInv'
  BY DecodeKeepsBasic DEF FollowInv
<1>3. /\ \A a : Holds(Line', a) <=> Holds(Line, a) \/ Holds(decoded', a)
      /\ \A a, b : Follows(Line', a, b)
                     <=> Follows(decoded', a, b) /\ (Follows(Line, a, b) \/ Holds(decoded', b))
  BY <1>1, LineDecoded DEF FollowInv, BasicInv
<1>4. /\ \A j : j # i => ~Holds(decoded', UpOf(j)) /\ ~Holds(decoded', DnOf(j)) /\ ~Holds(decoded', PreUp(j))
      /\ to = "running" => Holds(decoded', UpOf(i)) /\ ~Holds(decoded', DnOf(i))
      /\ to # "running" => Holds(decoded', DnOf(i)) /\ ~Holds(decoded', UpOf(i))
      /\ to # "running" => Follows(decoded', PreUp(i), DnOf(i))
      /\ i = usb => Follows(decoded', PreUp(i), DnOf(i))
      /\ \A a, b : ~Holds(decoded', a) => Follows(decoded', a, b)
  <2>1. CASE decoded' = <<PreUp(i), UpOf(i)>>
    BY <1>1, <2>1, DecodedEvents, Distinct
  <2>2. CASE decoded' = <<UpOf(i)>>
    BY <1>1, <2>2, DecodedEvents, Distinct
  <2>3. CASE decoded' = <<PreUp(i), DnOf(i)>>
    BY <1>1, <2>3, DecodedEvents, Distinct
  <2>4. CASE decoded' = <<DnOf(i)>>
    <3>1. to # "running" /\ \A a : Holds(decoded', a) <=> a = DnOf(i)
      BY <1>1, <2>4, DecodedEvents, Distinct
    <3> QED BY <3>1, DecodedEvents, Distinct
  <2>5. CASE decoded' = <<DnOf(i), DnOf(i)>>
    <3>1. to # "running" /\ \A a : Holds(decoded', a) <=> a = DnOf(i)
      BY <1>1, <2>5, DecodedEvents, Distinct
    <3> QED BY <3>1, DecodedEvents, Distinct
  <2> QED BY <1>1, <2>1, <2>2, <2>3, <2>4, <2>5
<1>5. Category'
  <2>1. Follows(decoded', PreUp(usb), DnOf(usb))
    BY <1>4
  <2> QED BY <1>1, <1>3, <2>1 DEF FollowInv, Category
<1>6. Named'
  BY <1>1 DEF FollowInv, Named
<1>7. Rises'
  <2> SUFFICES ASSUME NEW j \in Ifaces, link'[j] = "running"
               PROVE  /\ Follows(Line', DnOf(j), UpOf(j))
                      /\ \/ Served(j)' \/ Holds(Line', UpOf(j))
                         \/ \E o \in insts' : o.i = j /\ o.is_mode_switch
    BY DEF Rises
  <2>1. CASE j = i
    <3>1. to = "running"
      BY <1>1, <2>1
    <3> QED BY <1>3, <1>4, <2>1, <3>1
  <2>2. CASE j # i
    <3>1. link[j] = "running"
      BY <1>1, <2>2
    <3>2. Served(j)' <=> Served(j)
      BY <1>1 DEF Served
    <3> QED BY <1>1, <1>3, <1>4, <2>2, <3>1, <3>2 DEF FollowInv, Rises
  <2> QED BY <2>1, <2>2
<1>8. Falls'
  <2> SUFFICES ASSUME NEW j \in Ifaces, link'[j] # "running", j = usb => used'.edits = 0
               PROVE  /\ Follows(Line', UpOf(j), DnOf(j))
                      /\ j \in Links => Follows(Line', PreUp(j), DnOf(j))
                      /\ (\E o \in insts' : o.i = j /\ o.is_active) => Holds(Line', DnOf(j))
    BY DEF Falls
  <2>1. CASE j = i
    <3>1. to # "running"
      BY <1>1, <2>1
    <3> QED BY <1>3, <1>4, <2>1, <3>1
  <2>2. CASE j # i
    <3>1. link[j] # "running"
      BY <1>1, <2>2
    <3> QED BY <1>1, <1>3, <1>4, <2>2, <3>1 DEF FollowInv, Falls
  <2> QED BY <2>1, <2>2
<1> QED BY <1>2, <1>5, <1>6, <1>7, <1>8 DEF FollowInv

LEMMA NotifyFollows ==
  ASSUME FollowInv, NEW w \in Wlans, NEW to \in {"down", "running"}, ipa_driver_msg_notifier(w, to)
  PROVE  FollowInv'
<1>1. /\ UNCHANGED <<file, cats, insts, int, decoded>> /\ w \in Ifaces /\ w # usb /\ w \notin Links
      /\ link' = [link EXCEPT ![w] = to] /\ link \in [Ifaces -> {"down", "noCarrier", "running"}]
      /\ used'.edits = used.edits
      /\ ext' = Append(ext, IF to = "running" THEN UpOf(w) ELSE DnOf(w))
  BY Notified, IfacesAssumption DEF FollowInv, BasicInv, Types, Links, Ifaces
<1>2. BasicInv'
  BY NotifyKeepsBasic DEF FollowInv
<1>c. PICK c : c = IF to = "running" THEN UpOf(w) ELSE DnOf(w)
  OBVIOUS
<1>3. /\ \A a : Holds(Line', a) <=> Holds(Line, a) \/ a = c
      /\ \A a, b : a # c /\ Follows(Line, a, b) => Follows(Line', a, b)
      /\ \A a : a # c /\ ~Holds(decoded, a) => Follows(Line', a, c)
  <2>1. c \in ExtEvent /\ ext' = Append(ext, c) /\ decoded' = decoded
    BY <1>1, <1>c, EventSets
  <2> QED BY <2>1, LinePosted DEF FollowInv, BasicInv
<1>4. ~Holds(decoded, UpOf(w)) /\ ~Holds(decoded, DnOf(w))
  <2>1. UpOf(w) \notin NlEvent /\ DnOf(w) \notin NlEvent
    BY <1>1, Distinct DEF NlEvent
  <2>2. \A k \in DOMAIN decoded : decoded[k] \in NlEvent
    BY DEF FollowInv, BasicInv, Types
  <2> QED BY <2>1, <2>2 DEF Holds
<1>5. Category'
  BY <1>1, <1>3, <1>c, Distinct DEF FollowInv, Category
<1>6. Named'
  BY <1>1 DEF FollowInv, Named
<1>7. Rises'
  <2> SUFFICES ASSUME NEW j \in Ifaces, link'[j] = "running"
               PROVE  /\ Follows(Line', DnOf(j), UpOf(j))
                      /\ \/ Served(j)' \/ Holds(Line', UpOf(j))
                         \/ \E o \in insts' : o.i = j /\ o.is_mode_switch
    BY DEF Rises
  <2>1. CASE j = w
    <3>1. c = UpOf(w)
      BY <1>1, <1>c, <2>1
    <3> QED BY <1>3, <1>4, <2>1, <3>1, Distinct
  <2>2. CASE j # w
    <3>1. link[j] = "running"
      BY <1>1, <2>2
    <3>2. Served(j)' <=> Served(j)
      BY <1>1 DEF Served
    <3>3. DnOf(j) # c
      BY <1>c, <2>2, Distinct
    <3> QED BY <1>1, <1>3, <3>1, <3>2, <3>3 DEF FollowInv, Rises
  <2> QED BY <2>1, <2>2
<1>8. Falls'
  <2> SUFFICES ASSUME NEW j \in Ifaces, link'[j] # "running", j = usb => used'.edits = 0
               PROVE  /\ Follows(Line', UpOf(j), DnOf(j))
                      /\ j \in Links => Follows(Line', PreUp(j), DnOf(j))
                      /\ (\E o \in insts' : o.i = j /\ o.is_active) => Holds(Line', DnOf(j))
    BY DEF Falls
  <2>1. CASE j = w
    <3>1. c = DnOf(w)
      BY <1>1, <1>c, <2>1
    <3> QED BY <1>1, <1>3, <1>4, <2>1, <3>1, Distinct
  <2>2. CASE j # w
    <3>1. link[j] # "running"
      BY <1>1, <2>2
    <3>2. UpOf(j) # c /\ PreUp(j) # c
      BY <1>c, <2>2, Distinct
    <3> QED BY <1>1, <1>3, <3>1, <3>2 DEF FollowInv, Falls
  <2> QED BY <2>1, <2>2
<1> QED BY <1>2, <1>5, <1>6, <1>7, <1>8 DEF FollowInv

LEMMA EditFollows ==
  ASSUME FollowInv, firewall_monitor
  PROVE  FollowInv'
<1>1. /\ BasicInv' /\ UNCHANGED <<link, cats, insts, int, decoded>>
      /\ ext' = Append(ext, CfgChange) /\ used'.edits # 0
  BY EditKeepsBasic DEF FollowInv
<1>2. /\ \A a : Holds(Line, a) => Holds(Line', a)
      /\ \A a, b : a # CfgChange /\ Follows(Line, a, b) => Follows(Line', a, b)
  BY <1>1, EventSets, LinePosted DEF FollowInv, BasicInv
<1>3. Category'
  BY <1>1, <1>2, Distinct DEF FollowInv, Category
<1>4. Named'
  BY <1>1 DEF FollowInv, Named
<1>5. Rises'
  BY <1>1, <1>2, Distinct DEF FollowInv, Rises, Served
<1>6. Falls'
  BY <1>1, <1>2, Distinct DEF FollowInv, Falls
<1> QED BY <1>1, <1>3, <1>4, <1>5, <1>6 DEF FollowInv

LEMMA IdleFollows ==
  ASSUME FollowInv, Process_waits \/ UNCHANGED vars
  PROVE  FollowInv'
<1>1. UNCHANGED <<link, file, cats, insts, ext, int, decoded, used>>
  BY DEF Process_waits, vars
<1>2. BasicInv'
  BY IdleKeepsBasic DEF FollowInv
<1> QED BY <1>1, <1>2 DEF FollowInv, Category, Named, Rises, Falls, Served, Line

LEMMA InitFollows == Init => FollowInv
<1> SUFFICES ASSUME Init PROVE FollowInv
  OBVIOUS
<1>1. BasicInv
  BY InitBasic
<1>2. /\ insts = {} /\ link = [i \in Ifaces |-> "down"] /\ cats = Config(file)
      /\ ext = <<>> /\ decoded = <<>> /\ Types
  BY <1>1 DEF Init, BasicInv
<1>3. Line = <<>>
  BY <1>2 DEF Line
<1>4. \A a, b : Follows(Line, a, b)
  BY <1>3 DEF Follows
<1>5. Named
  <2>1. \A w \in Wlans : cats[w] = "UNKNOWN"
    BY <1>2, Configured, EventSets, IfacesAssumption
  <2> QED BY <2>1 DEF Named
<1>6. Category
  BY <1>2, <1>4 DEF Category
<1>7. Rises
  BY <1>2 DEF Rises
<1>8. Falls
  BY <1>2, <1>4 DEF Falls
<1> QED BY <1>1, <1>5, <1>6, <1>7, <1>8 DEF FollowInv

LEMMA NextFollows ==
  ASSUME ~UpRunning
  PROVE  FollowInv /\ [Next]_vars => FollowInv'
BY ExternalFollows, InternalFollows, NetlinkFollows, DecodeFollows, NotifyFollows, EditFollows,
   IdleFollows DEF Next, Process, Links

\* When all is handled, what is left agrees with the links.
LEMMA FollowImplies == FollowInv => ObjectsFollowLinks
<1> SUFFICES ASSUME FollowInv PROVE ObjectsFollowLinks
  OBVIOUS
<1>1. \A o, p \in insts : o.i = p.i => o = p
  BY DEF FollowInv, BasicInv, Unique
<1>2. ASSUME Quiet
      PROVE  /\ \A i \in Ifaces : link[i] = "running" => Served(i)
             /\ \A o \in insts : o.i # usb \/ used.edits = 0 => link[o.i] = "running"
  <2>1. Line = <<>>
    BY <1>2 DEF Quiet, Line
  <2>2. \A a : ~Holds(Line, a)
    BY <2>1 DEF Holds
  <2>3. \A o \in insts : o.is_active /\ ~o.is_mode_switch /\ o.i \in Ifaces
    BY <1>2 DEF Quiet, FollowInv, BasicInv, Types, Instance, Doomed, Switching
  <2>4. \A i \in Ifaces : link[i] = "running" => Served(i)
    BY <2>2, <2>3 DEF FollowInv, Rises
  <2>5. \A o \in insts : o.i # usb \/ used.edits = 0 => link[o.i] = "running"
    BY <2>2, <2>3 DEF FollowInv, Falls
  <2> QED BY <2>4, <2>5
<1> QED BY <1>1, <1>2 DEF ObjectsFollowLinks

-----------------------------------------------------------------------------
\* Whatever the interfaces, and however often their links and the configuration file change,
\* the event thread never sleeps on events: who posts also signals (MessageQueue, PostEvt).
THEOREM NeverAsleep == Spec => []NoLostWakeup
<1>1. Init => NoLostWakeup
  BY DEF Init, NoLostWakeup
<1>2. NoLostWakeup /\ [Next]_vars => NoLostWakeup'
  BY DEF NoLostWakeup, Next, vars, ipa_nl_decode, netlink_posts, ipa_driver_msg_notifier,
         firewall_monitor, Process, Process_internal, Process_external, Process_waits, Signalled,
         Handles
<1> QED BY <1>1, <1>2, PTL DEF Spec

\* Whatever the USB link does, every variable keeps its type, an interface has one object at
\* most, of a category it may have, and every object heeds its events but the one whose
\* deletion waits: at most one deletion waits, ahead of all other events.
THEOREM OneObjectEach == Spec => []BasicInv
BY InitBasic, NextBasic, PTL DEF Spec

\* Unless the USB link may come up with its carrier in one message, objects follow links: when
\* all events are handled, an interface that is up has a live object of its category, one
\* that is down has none.
THEOREM ObjectsFollow ==
  ASSUME ~UpRunning
  PROVE  Spec => []ObjectsFollowLinks
<1>1. FollowInv /\ [Next]_vars => FollowInv'
  BY NextFollows
<1> QED BY <1>1, InitFollows, FollowImplies, PTL DEF Spec

=============================================================================
