---------------------------- MODULE IpacmEvents ----------------------------
(***************************************************************************)
(* How IPACM's threads turn what the kernel says of an interface into an   *)
(* interface object: the threads that post events (IPACM_Netlink,          *)
(* IPACM_Main), the two queues and the thread that serves them             *)
(* (IPACM_CmdQueue, IPACM_EvtDispatcher), IPACM_IfaceManager, which makes  *)
(* the objects, and the objects, which delete themselves.                  *)
(*                                                                         *)
(* There is one USB interface, whose category the configuration file may   *)
(* change between LAN and WAN, modem interfaces, always WAN, and Wi-Fi     *)
(* interfaces, used as access points.  Callbacks run outside the lock, but *)
(* only the event thread runs them: an event is taken and handled in one   *)
(* step.                                                                   *)
(***************************************************************************)
EXTENDS Naturals, Sequences

CONSTANTS
  usb,          \* the USB interface
  Modems,       \* rmnet_data interfaces
  Wlans,        \* Wi-Fi interfaces
  MaxLinks,     \* bound on the changes of links
  MaxEdits,     \* bound on the changes of the configuration file
  UpRunning     \* the USB link may come up with its carrier, in one message

ASSUME IfacesAssumption == usb \notin Modems \cup Wlans /\ Modems \cap Wlans = {}
ASSUME BoundsAssumption == MaxLinks \in Nat /\ MaxEdits \in Nat /\ UpRunning \in BOOLEAN

VARIABLES
  link,     \* interface -> what the kernel last said of it
  file,     \* the category of the USB interface in IPACM_cfg.xml
  cats,     \* if_cat of iface_table
  insts,    \* iface_instances of the manager
  ext, int, \* the external and the internal queue
  decoded,  \* events of a netlink message not yet posted
  thread,   \* the event thread: "running", or "waiting" for the condition
  used      \* changes made: of links, and of the file

vars == <<link, file, cats, insts, ext, int, decoded, thread, used>>

Ifaces == {usb} \cup Modems \cup Wlans

Evt(event, i) == [event |-> event, i |-> i]
CfgChange     == Evt("CFG_CHANGE", usb)
External      == {"LINK_UP", "USB_LINK_UP", "LINK_DOWN", "AP_LINK_UP", "WLAN_LINK_DOWN", "CFG_CHANGE"}
Internal      == {"LAN_DELETE_SELF"}

\* mode is the type of a WAN object: Q6_WAN or ECM_WAN.
Instance == [i : Ifaces, cat : {"LAN", "WAN", "WLAN"}, mode : {"Q6", "ECM"},
             is_active : BOOLEAN, is_mode_switch : BOOLEAN]

\* What handling an event leaves: the table, the objects, and the events posted, at most one,
\* since it is about one interface, which has one object at most.
Left(c, s, posted) == [cats |-> c, insts |-> s, posted |-> posted]

-----------------------------------------------------------------------------
(* Posting *)

\* Mutant: the condition is not signalled.
Signalled_never == thread

\* pthread_cond_signal
Signalled == "running"

\* Mutant: a deletion is queued like any other event.
PostEvt_oneQueue(x, n, e) == ext' = Append(x, e) /\ int' = n

\* PostEvt, after x and n were left in the queues.
PostEvt(x, n, e) == IF e.event \in External THEN ext' = Append(x, e) /\ int' = n
                                            ELSE ext' = x /\ int' = Append(n, e)

\* RTM_NEWLINK: an interface that comes up without carrier is told up and down, one that
\* goes down is told so twice.  A modem interface comes up with its carrier.
News(i, to) ==
  IF to = "running"
  THEN IF link[i] = "down" THEN <<Evt("LINK_UP", i), Evt("USB_LINK_UP", i)>>
                           ELSE <<Evt("USB_LINK_UP", i)>>
  ELSE IF to = "noCarrier"
  THEN IF link[i] = "down" THEN <<Evt("LINK_UP", i), Evt("LINK_DOWN", i)>>
                           ELSE <<Evt("LINK_DOWN", i)>>
  ELSE <<Evt("LINK_DOWN", i), Evt("LINK_DOWN", i)>>

ChangesLink(i, to) ==
  /\ link[i] # to /\ used.links < MaxLinks
  /\ used' = [used EXCEPT !.links = @ + 1]
  /\ link' = [link EXCEPT ![i] = to]

ipa_nl_decode(i, to) ==
  /\ decoded = <<>> /\ ChangesLink(i, to)
  /\ i \in Modems => to # "noCarrier"
  /\ i = usb /\ link[i] = "down" /\ to = "running" => UpRunning
  /\ decoded' = News(i, to)
  /\ UNCHANGED <<file, cats, insts, ext, int, thread>>

netlink_posts ==
  /\ decoded # <<>>
  /\ PostEvt(ext, int, Head(decoded)) /\ decoded' = Tail(decoded) /\ thread' = Signalled
  /\ UNCHANGED <<link, file, cats, insts, used>>

\* An access point starts or stops.
ipa_driver_msg_notifier(w, to) ==
  /\ ChangesLink(w, to)
  /\ PostEvt(ext, int, Evt(IF to = "running" THEN "AP_LINK_UP" ELSE "WLAN_LINK_DOWN", w))
  /\ thread' = Signalled
  /\ UNCHANGED <<file, cats, insts, decoded>>

\* The file was edited.
firewall_monitor ==
  /\ used.edits < MaxEdits /\ used' = [used EXCEPT !.edits = @ + 1]
  /\ file' = IF file = "LAN" THEN "WAN" ELSE "LAN"
  /\ PostEvt(ext, int, CfgChange) /\ thread' = Signalled
  /\ UNCHANGED <<link, cats, insts, decoded>>

-----------------------------------------------------------------------------
(* The manager *)

\* IPACM_Config::Init
Config(usbCat) ==
  [i \in Ifaces |-> IF i = usb THEN usbCat ELSE IF i \in Modems THEN "WAN" ELSE "UNKNOWN"]

SearchInstance(i) == \E o \in insts : o.i = i

create_iface_instance(c, i, mode) ==
  IF SearchInstance(i) \/ c[i] = "UNKNOWN" THEN Left(c, insts, {})
  ELSE Left(c, insts \cup {[i |-> i, cat |-> c[i], mode |-> mode, is_active |-> TRUE,
                            is_mode_switch |-> FALSE]}, {})

\* event_callback of the manager, for the three events that bring an interface up.
link_up(i)     == IF cats[i] = "WAN" THEN create_iface_instance(cats, i, "Q6") ELSE Left(cats, insts, {})
usb_link_up(i) == create_iface_instance(cats, i, IF cats[i] = "WAN" THEN "ECM" ELSE "Q6")
ap_link_up(w)  ==
  IF cats[w] = "UNKNOWN" THEN create_iface_instance([cats EXCEPT ![w] = "WLAN"], w, "Q6")
  ELSE Left(cats, insts, {})

-----------------------------------------------------------------------------
(* The objects *)

\* handle_down_evt of a Lan or Wlan: from now on it heeds only its deletion.
handle_down_evt(o, switch) == [o EXCEPT !.is_active = FALSE, !.is_mode_switch = switch]

\* The objects "gone" lose their interface: a Wan is deleted in the callback, a Lan or Wlan
\* posts its deletion.
Down(c, gone, switch) ==
  LET dying == {o \in gone : o.cat # "WAN" /\ o.is_active}
  IN  Left(c, (insts \ {o \in gone : o.cat = "WAN" \/ o.is_active})
                 \cup {handle_down_evt(o, switch) : o \in dying},
           {Evt("LAN_DELETE_SELF", o.i) : o \in dying})

link_down(i)      == Down(cats, {o \in insts : o.i = i /\ o.cat # "WLAN"}, FALSE)
wlan_link_down(w) ==
  LET lost  == {o \in insts : o.i = w /\ o.cat = "WLAN"}
      heard == \E o \in insts : o.i = w /\ o.is_active
  IN  Down([cats EXCEPT ![w] = IF heard THEN "UNKNOWN" ELSE @], lost, FALSE)

\* Only a Lan and an ECM_WAN look whether their category has changed; the Wan posts the
\* link-up of its successor at once, the Lan when it is deleted.
cfg_change ==
  LET c == Config(file)
      changed == {o \in insts : /\ o.cat # c[o.i]
                                /\ o.cat = "LAN" \/ (o.cat = "WAN" /\ o.mode = "ECM")}
      left == Down(c, changed, TRUE)
  IN  [left EXCEPT !.posted = @ \cup {Evt("USB_LINK_UP", o.i) : o \in {p \in changed : p.cat = "WAN"}}]

Deleted(i) == {o \in insts : o.i = i /\ o.cat # "WAN"}

\* Mutant: the successor of a Lan that changes its category is forgotten.
lan_delete_self_only(i) == Left(cats, insts \ Deleted(i), {})

lan_delete_self(i) ==
  Left(cats, insts \ Deleted(i), {Evt("USB_LINK_UP", o.i) : o \in {p \in Deleted(i) : p.is_mode_switch}})

-----------------------------------------------------------------------------
(* The event thread: MessageQueue::Process and IPACM_EvtDispatcher::ProcessEvt *)

ProcessEvt(e) ==
  CASE e.event = "CFG_CHANGE"      -> cfg_change
    [] e.event = "LINK_UP"         -> link_up(e.i)
    [] e.event = "USB_LINK_UP"     -> usb_link_up(e.i)
    [] e.event = "AP_LINK_UP"      -> ap_link_up(e.i)
    [] e.event = "LINK_DOWN"       -> link_down(e.i)
    [] e.event = "WLAN_LINK_DOWN"  -> wlan_link_down(e.i)
    [] e.event = "LAN_DELETE_SELF" -> lan_delete_self(e.i)

Handles(e, x, n) ==
  LET left == ProcessEvt(e)
  IN  /\ cats' = left.cats /\ insts' = left.insts
      /\ IF left.posted = {} THEN ext' = x /\ int' = n ELSE \E p \in left.posted : PostEvt(x, n, p)
      /\ UNCHANGED <<link, file, decoded, thread, used>>

Process_internal == thread = "running" /\ int # <<>> /\ Handles(Head(int), ext, Tail(int))
Process_external ==
  thread = "running" /\ int = <<>> /\ ext # <<>> /\ Handles(Head(ext), Tail(ext), int)
Process_waits ==
  /\ thread = "running" /\ int = <<>> /\ ext = <<>> /\ thread' = "waiting"
  /\ UNCHANGED <<link, file, cats, insts, ext, int, decoded, used>>

Process == Process_internal \/ Process_external \/ Process_waits

-----------------------------------------------------------------------------
Init ==
  /\ link = [i \in Ifaces |-> "down"]
  /\ file \in {"LAN", "WAN"} /\ cats = Config(file)
  /\ insts = {} /\ ext = <<>> /\ int = <<>> /\ decoded = <<>>
  /\ thread = "running"
  /\ used = [links |-> 0, edits |-> 0]

Next ==
  \/ \E i \in Ifaces \ Wlans, to \in {"down", "noCarrier", "running"} : ipa_nl_decode(i, to)
  \/ netlink_posts
  \/ \E w \in Wlans, to \in {"down", "running"} : ipa_driver_msg_notifier(w, to)
  \/ firewall_monitor
  \/ Process

\* The event thread and the netlink thread run; nothing obliges the kernel or the user.
Spec == Init /\ [][Next]_vars /\ WF_vars(Process) /\ WF_vars(netlink_posts)

-----------------------------------------------------------------------------
(* Properties *)

EvtType == [event : External \cup Internal, i : Ifaces]

\* Every variable has its type, and each queue holds its own events.
TypeOK ==
  /\ link \in [Ifaces -> {"down", "noCarrier", "running"}]
  /\ file \in {"LAN", "WAN"} /\ cats \in [Ifaces -> {"LAN", "WAN", "WLAN", "UNKNOWN"}]
  /\ insts \subseteq Instance /\ decoded \in Seq(EvtType)
  /\ ext \in Seq([event : External, i : Ifaces]) /\ int \in Seq([event : Internal, i : Ifaces])
  /\ thread \in {"running", "waiting"}
  /\ used \in [links : 0 .. MaxLinks, edits : 0 .. MaxEdits]

Quiet == ext = <<>> /\ int = <<>> /\ decoded = <<>>

Served(i) ==
  \E o \in insts : o.i = i /\ o.is_active /\ (i \in Wlans \/ o.cat = cats[i])

\* When all events are handled, an interface that is up has a live object of its category,
\* however fast it went down and up again and however often its category changed: a
\* link-up is never swallowed because the object of before still stands.  Conversely an
\* interface that is down has none.  The successor of a category change may be announced
\* after the link went down, so there the USB interface is left out once the file was
\* edited.  At no time has an interface two objects, which would both program the hardware.
ObjectsFollowLinks ==
  /\ Quiet =>
       /\ \A i \in Ifaces : link[i] = "running" => Served(i)
       /\ \A o \in insts : o.i # usb \/ used.edits = 0 => link[o.i] = "running"
  /\ \A o, p \in insts : o.i = p.i => o = p

\* The thread never sleeps on events.
NoLostWakeup == thread = "waiting" => ext = <<>> /\ int = <<>>

\* An interface that is up gets its object, unless it goes down first.
UpIsServedAtLast == \A i \in Ifaces : link[i] = "running" ~> (Served(i) \/ link[i] # "running")

=============================================================================
