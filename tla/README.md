# Formal models of the NX510J device tree

TLA+ models of the programs in the device tree of the ZTE Nubia NX510J
(`android_device_zte_nx510j`): what they do, what is checked by TLC on small
instances, and what is proved by TLAPS for all. The tree holds two large
programs of its own and some small ones:

- **ipacm** and **ipanat** (`data-ipa-cfg-mgr/`): the daemon that programs the
  IPA packet hardware for tethering, and the library that keeps its NAT table;
- the **gps** HAL (`gps/`): the location engine between the Android framework
  and the modem;
- the lights HAL, the charger's board code, a recovery updater extension, and
  release scripts. Everything else is configuration.

## Inventory

| component | state it keeps | operations | hard behaviour | what makes it correct |
|---|---|---|---|---|
| IPA NAT library, `ipa_nat_drvi.c` | rule table, index table, their expansions, handle array | add rule, delete rule, create and delete table | the hardware reads while the driver writes; DMA requests may be refused; tables fill | every rule in force can be found after each write; a handle names its own rule; chains end |
| NatApp, `IPACM_Conntrack_NATApp.cpp` | cache of connections, temporary entries, sleeping clients | add, delete, suspend, resume, table up and down, refresh | two threads, no lock; cache outlives table | cache and table agree; what is closed or asleep is not offloaded |
| Conntrack listener and client | WAN address, NAT and other hosts, a station's peers | WAN up and down, neighbours, new and closed connections | events of several threads in any order | each connection of a NAT host is offloaded once, while it is open |
| Event queues and dispatcher | two queues, one lock, registrations | post, dequeue, dispatch | many posters, one reader; callbacks free registrations | no event lost or overtaken wrongly, no lost wake-up |
| Interface manager | list of interface objects | link up, object deleted, configuration change | objects delete themselves through events | one object per interface that is up, none for one that is down |
| Interface objects (Iface, Lan, Wlan, Wan) | addresses, clients, upstream, handles of rules | addresses, routes, clients, link down, firewall, software routing, mode switches | static state shared by several objects; handles kept beside the hardware | rules match the upstream, the clients and the firewall's file; nothing is left behind |
| `IPACM_Neighbor` | the address of each MAC, in a ring | neighbour and client events | what it derives goes to the tail of the queue | every client is listed with the address it has |
| `IPACM_LanToLan` | interfaces, peers, clients, counted contexts | interfaces and clients come and go, modes switch | contexts shared by peers; clients announced early | rules between two clients exist exactly while both can use them |
| AGPS machines, `loc_eng_agps.cpp` | four-state machine, its subscribers | subscribe, unsubscribe, granted, denied, released | clients and framework in any order; modem restart; busy data service with retries | who asked is answered; what nobody wants is closed |
| Network-initiated requests, `loc_eng_ni.cpp` | two sessions | request, user's answer, time-out, restart | three kinds of threads, reads outside the lock | one answer per request, and its own; sessions are given back |
| Location engine, adapters, `LocApiV02` | session, mode, engine status, event masks, configuration | start, stop, mode, delete, reports, update, inject, restart | calls cross the modem's reports and its crash | the modem does what the framework asked last |
| `loc_api_sync_req.c` | slots of waiting callers | send, wait, indication | indication before the wait; time-outs | every waiter gets its own indication |
| `LocTimer`, `LocHeap` | heap of timers, one kernel timer | start, stop, expire | stop racing expiry, three kinds of threads | a timer ends once; the soonest is armed |
| `MsgTask`, `LocThread`, `msg_q` | queues, threads | send, take, destroy | destruction by the own thread | messages are taken in order |
| Daemon connection, `loc_eng_dmn_conn*` | helper thread, pipes | request, release | start and end of threads | requests are served until the end |
| Lights HAL | three light states, one LED | set light | sources share a LED | the most important source is shown |
| `recovery_updater.c`, `healthd_board_msm.cpp`, `releasetools.py`, `KeyDisabler.java` | none | verify a version, charger, single files | string search | the search finds what is there |

Interactions: kernel messages reach ipacm in a netlink thread, a driver
notifier, a file monitor and conntrack threads. All of them post events; one
event thread dispatches to the manager, the interface objects, the neighbours,
the bridge and the conntrack listener, which calls NatApp, which calls the NAT
library; one more thread refreshes the time-outs of NatApp's connections. In
gps, the modem's callbacks, the framework's calls, timers and the daemon
connection all become messages of one message thread. It runs the AGPS
machines, the session, the configuration and the requests of the network; the
latter also have threads of their own.

`PROJECT.json` lists each component with its files and its status. `hazards`
there are the forty that matter most of what is hard to test, at the lines
where they bite; more are at the end of this file.

## Modules

| module | models | run |
|---|---|---|
| `IpaNat`, `MCIpaNat` | `ipa_nat_drvi.c`: adding and deleting rules | `IpaNat_rules`, `IpaNat_circle` |
| `NatService` | what a NAT table promises its user; `IpaNat` implements it | `IpaNat_rules` |
| `AgpsStates` | the transition functions of the AGPS state machine | |
| `AgpsNif` | ordinary and Wi-Fi connections: clients, message thread, framework | |
| `AgpsDs`, `MCAgps` | `AgpsNif` and the emergency machine with its data call | `Agps_clients` |
| `ConntrackNat`, `MCConntrackNat` | conntrack listener and client, NatApp | `CtNat_race` |
| `IpacmUpstream` | which WAN object is the upstream; uplink rules, NAT table, firewall in force | |
| `MCNatUplink` | the two above | `Nat_uplink` |
| `IpacmEvents` | event queues, dispatcher, interface manager, life of the objects | |
| `IpacmModem` | the firewall's file, the modem's filter list, a station's rules | |
| `MCIpacmEvents` | the two above | `Ipacm_events` |
| `IpacmClients`, `MCIpacmClients` | neighbours, client tables of Lan, Wlan and Wan, headers, client routes | `IpacmClients_tables` |
| `IpacmRules`, `MCIpacmRules` | an interface's own rules, counts, subnets, dependencies, software routing | `IpacmRules_pipes` |
| `IpacmBridge`, `MCIpacmBridge` | LAN-to-LAN bridge | `IpacmBridge_frames` |
| `LocNi` | network-initiated requests | |
| `LocTimer`, `LocHeap` | timers and their heap | |
| `SyncReq` | synchronous QMI requests | |
| `MCLocThreads` | the three above | `Loc_threads` |
| `LocSession` | sessions, modes, deletions, engine status, restart | |
| `LocConfig` | configuration, servers, locks, files, certificates | |
| `MCLocSession` | the two above | `LocSession_calls`, `LocSession_deletions` |
| `IpaNatProofs`, `AgpsProofs`, `ConntrackNatProofs`, `IpacmEventsProofs`, `IpacmRulesProofs`, `IpacmBridgeProofs`, `LocSessionProofs` | theorems about the modules they are named for | |
| `LocThreadsProofs` | theorems about `LocNi` and `SyncReq` | |

Every action is one handler or, where another thread or the hardware can look
in between, one stretch of it. Definitions keep the names of the code. Words
that end a name after an underscore and stand under a comment "Mutant" are
deliberately wrong variants: `PROJECT.json` pairs each checked property with
one that must violate it.

Components that share nothing are checked in one run: `MCLocThreads`,
`MCLocSession`, `MCAgps`, `MCNatUplink` and `MCIpacmEvents` have a rigid variable `part` that says which of
them a behaviour is about, and the others stay as they began. Modules with
several small instances choose one at the start and keep it (`setting` of
`ConntrackNat` and `IpacmClients`, `world` of the other IPACM modules). Where
a circumstance is known to break a property, it is named: the constant `Allowed`
(`CfgAllowed`) lists the circumstances let in, the runs set it to `{}`, and
setting it to any one of the names makes one of the run's properties fail. These
names and what goes wrong are given below, module by module; none of them is
contradicted by a document of the repository unless a line is quoted.

## The NAT table: IpaNat, NatService, IpaNatProofs

`ipa_nat_drvi.c` keeps an IPv4 NAT table in memory that the packet hardware
reads while the driver rewrites it. A base rule table is indexed by a hash of
the destination, an expansion table holds collisions as a chain; an index table
with its own expansion is chained under a hash of the source, and its nodes name
rules. Downlink packets follow the destination chain, uplink packets the source
chain.

| state | code |
|-------|------|
| `tbl` | `ipv4_rules_addr` and `ipv4_expn_rules_addr`, one index space as in the code; `dead` stands for protocol 0xFF |
| `indx`, `meta` | `index_table_addr` and `index_table_expn_addr`; `index_expn_table_meta` |
| `ruleIds` | `rule_id_array` |
| `held` | the handles the client (the NatApp cache) keeps |
| `op`, `pc` | the locals of the call in progress and its next write |
| `fails` | refused DMA ioctls, bounded by `MaxFail` |

Each write to the shared memory, by the CPU or by a DMA command, is a step of
its own, in the order of the code, so an invariant is checked at every moment
the hardware can look. The CPU's own writes of a deletion after its DMA batch
are one step: they touch fields the hardware does not read, entries already
unlinked, and back links. Calls do not overlap in the model: that is an
assumption. The library takes no lock, and `NatApp` calls it from two threads
without one, the event thread and the one that refreshes time-outs
(`IPACM_ConntrackClient.cpp:392`, then `IPACM_Conntrack_NATApp.cpp:515`, 473 and
274). What two overlapping calls do to the tables is not modelled, so all that is
shown here is about calls that follow one another. A flow is a model value; `DstBits` and `SrcBits` give the
bits its hashes use, so a configuration decides which flows collide.

- `IpaNat_rules`: three flows in one bucket of both tables (one through the rule
  that moves bucket 0 to the last bucket), four base and four expansion
  entries, one refused request at any point. All positions of both chains
  (alone, head, middle, last) and the dead head occur. Until a request is
  refused, every established rule is found after every write (`LiveRulesFound`),
  chains end, back links agree and nothing stays in use that no client owns
  (`ChainsAreSound`); a handle names its own flow's rule always
  (`HandlesNameTheirRule`). As a refinement to `NatService`, a rule comes into
  force in both directions with one write, is withdrawn uplink first and then
  downlink, and no write changes what is in force for another flow; a refusal is
  that service's `refused`, after which it promises nothing. A circle makes
  `generate_rule_spins` a search that never returns, so deadlock is not checked.
- `IpaNat_circle` (violation): after a refused enabling, a disabled entry stays
  linked, and the next addition chains it behind itself.

Three colliding flows give every pair of neighbours in a chain, a fourth adds
length but no position.

**Proved** for every table size, hash and number of refused requests
(`SizesAssumption`, `HashAssumption`): `TypeCorrect`, `HandlesAreExact`,
`HandleInvariant`. Neither `TypeOK` nor `HandlesNameTheirRule` is inductive:
a reused slot might name an entry in use, and an addition might pick an entry that a
slot names. `HandleInv` adds that taken slots name distinct entries that are
enabled and alive (but for the one a deletion works on), that an addition works
on an entry no slot names, and that the DMA batch of a deletion disables only
its own entry. `FreeSlotExists` counts: entries in use, other than the entries 0
of both halves, are fewer than slots, so `make_rule_hdl` never hands out the last
handle, which the parser would refuse.

**Proved**, for the same constants: `LiveRulesStayFound`,
`ChainsStaySound` and the refinement `TablesImplementService`. None of these
is inductive: that a rule is found says nothing of what the next call finds.
`ChainInv`, which holds while no request was refused, describes the tables at each point of
a call:

- `Chained`: the linked rules, and the linked nodes, are chains that start in the
  base half at the home of their entries, go on in the expansion half, and have
  exact links back. `Ranked`: some rank grows along every link, so no chain is a
  circle. An entry outside the chains leads nowhere.
- An addition links a rule before it is enabled, and a node after it was
  written; so what is linked depends on `pc`. From the command that bypasses an
  entry until the driver clears it, that entry is in use but in no chain
  (`GoneR`, `GoneI`), and the links back that still name it count as corrected.
- Rules and nodes name each other (`RulesNameNodes`, `NodesNameRules`), except
  while the head of an index chain holds its successor's rule and that
  successor is still linked (`IndexMoved`). Live rules and handles name each other (`Owned`).
- `Adding` and `Removing` tie the locals of the call (found entry, what it hangs
  from, remaining commands, positions) to the tables.

What the searches find follows: `Walk` is a recursive function, so `WalkExists`
shows that it is defined, `WalkEnds` counts (distinct entries cannot outnumber
the table), `Reached` takes the entry of least rank that a walk would
miss, and `WalkStays` keeps a walk in its chain. `ForceIsGranted` then gives what is in force
as a function of the calls alone (`Granted`), and each write becomes one step of
`NatService` or a stutter; after a refusal every step is its `Refuse`. `ChainInv` was
checked by TLC on small tables before it was proved.

## Connections for assistance data: AgpsStates, AgpsNif, AgpsDs, AgpsProofs

`AgpsStates` gives each transition of `AgpsReleasedState`, `AgpsPendingState`,
`AgpsAcquiredState` and `AgpsReleasingState` as a function of the machine (state
and subscriber list) to the new machine, the subscribers told, and the requests
sent. `AgpsNif` puts one machine between its actors: clients (the modem's
connections, or a Wi-Fi subscriber) that request and release, the message queue
(`msgs`), the framework that reads requests (`asked`) and opens, refuses, loses
or closes a connection (`conn`), and the restart of the modem, which drops all
subscribers. `conv` is the conversation as the client sees it, the history the
properties are about. `AgpsDs` adds the emergency machine `ds`, the data call
with its handle, the retry timer and the fall-back to the ordinary interface.

`Agps_clients` has three parts. "interface": two clients, two requests each, one
lost connection, one restart, for ordinary and Wi-Fi interfaces. "calls": two
emergency connections on one call that may fail or drop once. "retries": one
connection and a data service that is busy or refuses three times with one retry
allowed (`MaxRetries`, 4 in the code, only lengthens the chain). Nobody is
forgotten or held for nothing, the machine's open state is backed by the
framework, the call always has an owner, retries are bounded (`SoundAtAnyTime`);
every client is answered and the call ends when nobody wants it
(`AnsweredAndEnded`).

Fairness is weak fairness of the message thread, of the framework's reading and
the end of an opening, of the data service and of the timer: threads that are
always scheduled and services that always report. Clients, losses and restarts
are not fair. The runs may stop when bounds are used up, so deadlock is not
checked. Clients ask again only when their release is handled. A modem that goes
down once more before the first restart is handled stays away until the last of
them is (`LocEngUp`): its client is reopened by a message of its own
(`LocApiBase.cpp:212`), and it can ask for nothing before.

**Proved** in `AgpsProofs` for the interface by itself, with any number of clients,
requests, losses and restarts (`BoundsAssumption`): `InterfaceStaysSound`, which is
`SoundAtAnyTime` of the part "interface". None of the parts of `InterfaceIsSound` but the types is
inductive: what a client on the list may hear next depends on the messages on the way. `Inv`
says of each client (`Standing`, `Fit`) which combinations of its view, its place in the list
and its own messages in the queue occur, and (`Order`) that these messages are
there once, the request first, and none behind the news of a restart. `Backed`
follows the framework: a grant on the way has the connection or the notice of
its end behind it. For `IdleIsClosed`, `Single` says that a Wi-Fi interface has one
subscriber or is Released, and `Course` that the end of a connection is the last
heard of it until it is asked for again. `Joining` and `Leaving` say how these
orders in a queue outlive a message that is posted or taken; the `...Turn`
lemmas give each transition of `AgpsStates` as a state, a list, who is told and what is
sent. TLC checked `Inv` with two clients and three restarts, three being what showed
that a restart has to count the others (with fewer, a client could not ask in between).

**Proved** for the emergency machine, with any number of clients and any bounds on
failures, drops and retries: `EmergencyStaysSound` (one request each) and
`SoundInAllParts`, which is `SoundAtAnyTime` of the run. `DsInv` has three parts. `Announced`:
a call is reported once, and its end is the last heard of it. `CallFits`: the state of the
machine, the call, its handle and what is still to be heard of the call; this makes a
Released machine own no call, and an Acquired one have its call up or about to hear of
the end. `Waits`, client by client: who waits is active on the right list, or its request is
among the messages and no release of it is. `Went` says what a queue holds after a handler
took its head and posted the requests of those that fall back, `WaitsOn` and
`DsHandlerKeeps` what every handler owes to these, and the `...Tells` lemmas what a
transition of `AgpsStates` does. `Waits` does not hold of a client that asks a second time while its
old subscription is on the list (`loc_eng_agps.cpp:738`, see Findings), hence one request
each. The list is finite (`SubscribersAssumption`); its order is the relation
`order`, since what falls back is posted in that order, and `InOrder` is every sequence
that agrees with it. TLC checked `DsInv` on the run before it was proved.

Known limits: after a refused start the subscriber stays on the list of the
Released machine (`loc_eng_agps.cpp:279`); a Releasing machine that asks again
while the service is busy loses its client (line 563), so two clients and a busy
service are not run together; after a drop (385) a closed client is subscribed
to the ordinary interface.

## Offloaded connections: ConntrackNat, ConntrackNatProofs

`nat` is NatApp's cache, whether the table exists, and the rules the hardware
holds (`NatApp` calls the library; what the library does inside is `IpaNat`).
`temp` are its temporary entries; the listener's lists are hosts, others and a
station's peers. The environment is what the kernel tracks and has told of, and
what it has dropped but not yet told. `timer` says where the refreshing thread
is in a deletion. It runs beside the event thread without a lock, so each of its
stretches is a step and any handler may run between two of them:

| step | code (`IPACM_Conntrack_NATApp.cpp`) |
|------|------|
| `timer_refused` | the kernel refuses to refresh the connection of an enabled entry (468); `DeleteEntry` gets a pointer to the slot |
| `timer_finds` | the search for the first slot that reads like that one, and the test of `enabled` (263-272) |
| `timer_withdraws` | `ipa_nat_del_ipv4_rule`, for the handle read at the test or the one in the slot by then (274) |
| `timer_clears` | the `memset` of the slot, whatever it holds by then (286) |

`crossed` is a history: the event thread has changed the very entry that the
refreshing thread had found and not yet cleared, and the table has not been
deleted since. A handler is still one step between two of these; overlapping
writes to one entry, and two threads in the NAT library at once, are not
modelled. The conntrack threads are started by the first WAN-up or
neighbour as the code has it.

`Nat_uplink` has five settings of it. *Uplinks*: a connection
of a NAT host and one of another host (which gets a dummy rule), two public
addresses, the WAN coming and going. *Refreshed*: two connections of a NAT host,
and the refreshing thread. *Sleeping*: three
connections of two hosts, one of an ALG port; hosts sleep and wake while the WAN
stays up. *Staying*: the WAN may be a Wi-Fi station, whose connections are
offloaded only to peers it knows; host and peers stay; one connection is the
device's own. *Leaving*: the same with hosts and peers that go. The public addresses
are alike (`MCSymmetry`); *Refreshed* has no room for temporary entries, which the thread
does not look at. In all, unless the threads crossed, enabled
cache entries and hardware rules match one to one (`TableAgrees`); a closed
connection leaves nothing in the cache and, unless the threads crossed, nothing in
the hardware; none is there twice, and while
the WAN stays up open connections of known hosts that are awake are offloaded,
those asleep are not (`OffloadFollows`); entries of the cache leave only with
their connection (`CachedUntilClosed`).

`CtNat_race` (violation) is *Refreshed* with `ClosedHasNoRule`, what the comment of
`DeleteEntry` promises (line 253): the event thread enables or fills the
slot between the thread's test and its clearing, the clearing forgets a rule that is in
the hardware, and the close of that connection finds no entry to delete. So
`TableAgrees` and the claims about the hardware in `ClosedIsGone` leave out what follows
such a crossing, until the next deletion of the table makes an end of every rule.

What each part of a property asks for, and why not more:
- with the WAN falling, `AddTable` puts the rules of a sleeping host back
  (`IPACM_Conntrack_NATApp.cpp:156`, while 354 leaves them out), `CacheEntry` lets an ALG
  connection back in, and `ResetPwrSaveIf` without a table forgets connections;
- with the refreshing thread running, it may delete the entry that took the slot
  it had looked at, or the entry of an open connection that was replaced meanwhile:
  `CachedUntilClosed` is checked without it;
- a host that leaves and returns while the peer of its connection is not listed
  loses the entry that waited for the peer (`FlushTempEntries`), and a peer that leaves
  makes a hole in the list that hides later ones: connections are claimed for
  hosts and peers that stay;
- a peer's address flushes entries of hosts not known yet as NAT rules; the
  device's own connections are recognised by the WAN address of the moment.

`pub_ip_addr_pre`, which is never initialised, may start as any address. Two or
three connections fill the cache and the temporary entries. Not modelled: a
listener thread that ends when `nfct_catch` fails, a UDP thread that cannot be
created (the TCP one is then started again), the unlocked `GetInstance` of
`IPACM_ConntrackClient`, and the `CT_OPT` build.

**Proved** for any hosts, connections, addresses and sizes of the arrays
(`HostsAssumption`, `SizesAssumption`, `SettingsAssumption`, `NoneAssumption`:
addresses of different kinds differ, and an empty slot is told from an entry):
`TypeCorrect`, `TableAlwaysAgrees`, `ClosedStaysGone`. For the first two, `TableInv`
adds to the agreement of cache and hardware that the table exists exactly while
the WAN interface is up and under its address, and that the count of peers is the number
of slots taken; without it an entry could be enabled with no table. The loops of
`AddTable` and `ResetPwrSaveIf` are recursive functions, shown to exist and to keep the
agreement from one slot to the next. An entry whose rule the
refreshing thread has just deleted counts as one without a rule (`HasRule`), and `Grip`
says that, while the threads have not crossed, the thread holds the handle that is in the slot
it found. A deletion of the table ends a crossing, unless the thread is in the middle of one.
`ClosedStaysGone` is `ClosedIsGone`, the first
part of `OffloadFollows`: `GoneInv` says that every entry in the cache and among the temporary
ones is of a tracked connection under the address it is meant to have, that no
two are the same, and that the thread which will hear of its end is listening
(`HeardInv`). The rest of `OffloadFollows` depends on arrays that are large enough for the
connections, and `CachedUntilClosed` likewise: they stay with TLC.

## Events and interface objects: IpacmEvents, IpacmEventsProofs

`ext` and `int` are the two queues of `MessageQueue`, `thread` the event thread
(running, or waiting on the condition variable), `insts` the objects of
`IPACM_IfaceManager`, `cats` the categories of `iface_table`, `decoded` the events
of a netlink message still to be posted: two posts of one message are two
steps. Dequeueing and running the callbacks is one step, because only the event
thread touches what the callbacks read. The kernel changes links, a monitor
posts a change of the configuration file, the driver announces Wi-Fi.

Part "events" of `Ipacm_events`: a USB, a modem and a Wi-Fi interface, five link changes,
one edit of the category of the USB interface. Once queues are empty, an
interface that is up has one live object of its category, one that is down has
none (`ObjectsFollowLinks`); a wake-up is never lost (`NoLostWakeup`); an
interface that stays up is served at last (`UpIsServedAtLast`). An object that no
longer heeds events has its own deletion among the internal events, which go
first: that is why a link-up is not swallowed by the search for a duplicate. Five
changes let an interface go up, down and up while another one is in transit.

Fairness: the event thread and the netlink thread are scheduled.
`ObjectsFollowLinks` leaves the USB interface out once the file was edited, since
a re-posted link-up may come after the link-down. `UpRunning = FALSE`: a USB
backhaul that comes up with its carrier in one message becomes a `Q6_WAN`
(`IPACM_IfaceManager.cpp:107`). Left out are ODU, Ethernet, bridge and eMBMS
interfaces, netlink events of Wi-Fi, and the list of registrations.

**Proved** in `IpacmEventsProofs`, for any number of interfaces, link changes and
edits: `NeverAsleep` and `OneObjectEach` whatever happens, `ObjectsFollow` (the whole of
`ObjectsFollowLinks`) under `~UpRunning`, without which the category of the object is
wrong. `ObjectsFollowLinks` speaks of a moment when all is handled and is far from
inductive. `FollowInv` says instead what each event still to be handled is for: in
`Line`, the events posted followed by those decoded, a link-down of an interface
that is up is followed by a link-up (`Rises`), a link-up of one that is not is
followed by a link-down (`Falls`), an interface that is up and not served has
its link-up, or its successor's announcement, to come. `BasicInv` is why a link-up is
not swallowed: at most one deletion waits, an object that heeds nothing is the one
it is for, and internal events go first (`Doomed`). `Category` covers the window
between an edit and its event: a USB object of another category than the table's is a
`Q6_WAN` whose link goes down again. `Named` says that a Wi-Fi interface with a
category has an object. Each event's effect is first brought to one of three forms (`Made`,
`Lost`, `Same`); the lemmas on `Holds` and `Follows` do the rest.

## Clients and their routes: IpacmClients

The event thread takes one event at a time; what goes wrong is a matter of
their order, because what `IPACM_Neighbor` derives from an event goes to the tail
of the queue (`ext`), behind what is there already. `sta` is what the driver knows
of a MAC, `neigh` the ring of `neighbor_client`, `path` the three client tables
(Wi-Fi AP, Ethernet, and the uplink's own where that is a Wi-Fi station), the
rules and headers they keep in the hardware and the addresses NatApp was told;
`mcc` is `isMCC_Mode`, which the driver's thread sets beside the event thread.

`IpacmClients_tables` has eleven settings (4.4 million states):
two stations that share two addresses on an access point that goes down, with
and without the bridge; a station or an Ethernet host, or with fewer events both, with
addresses of both families while the WAN's prefix comes and goes; a station while the driver
switches between single- and multi-channel mode; peers of a station uplink while
default route, link and mode come and go; a client of each kind while the
hardware refuses one header; two hosts of an ODU as router or bridge, with and
without eMBMS. Symmetry exchanges the two stations and the two addresses of the
first setting, which no other uses.

- `RoutesAgree`: the handles a table keeps are the rules and headers the hardware
  has, each once; none is held for a client that is gone.
- `NatFollows`: the connection listener knows exactly the addresses the tables
  route.
- `TableFollows`: once all events are served, every client that is there is
  listed with the address the cache knows, no rule stays under a prefix that is
  gone or on the pipe of the other mode, and sleeping stations are as the driver
  said.

What the properties leave out, because the code does it so:
- an IPv6 deletion of an address the host does not have drops the last one
  (`IPACM_Lan.cpp:813`); the loop of `IPACM_Wlan.cpp:1938` moves no IPv6 rule;
- on Android nobody is registered for a mode switch
  (`IPACM_IfaceManager.cpp:357`, 405);
- `DEL_NEIGH` of an address a host used before removes the host; a full ring
  writes beyond its array (`IPACM_Neighbor.cpp:284`), where the model stops;
- the `power_save` flag stays with the slot (`IPACM_Wlan.cpp:1480`; the comment
  at 1173 says no rule is added while asleep); a station that gets its address
  asleep is not among NatApp's sleeping ones;
- a station uplink: peers ignore a switch while there is no default route (ghost
  `deaf`); of the IPv6 pair a switch moves the rule of the WAN table only, though
  the comment at `IPACM_Wan.cpp:5646` says it stays the exception's; an address is
  given to the listener before its route rule, against the comments at 5419 and
  5438; a refused IPv6 header leaves the IPv4 one behind;
- an ODU's headers name its first host for ever; with eMBMS a refused header is
  tried again and its rule left over, so refusals are not combined with an ODU.

Not modelled: refused routing rules, an access point or station that goes down
before it had an address, two entries of a MAC, the two-character index in header
names, the station's own address among the peers'.

## The upstream: IpacmUpstream

`x` holds the WAN objects in the order they were registered, the flags they share
(`wan_up`, `backhaul_is_sta_mode`, the list of tethered interfaces, the numbers of
modem PDNs), the downstreams with their uplink rules, and the NAT table.
An event is handled by every WAN object in order, and the internal events they
post are served before the next one. Part "uplink" of `Nat_uplink` has Android with two
modem interfaces, or with two downstreams, and Linux with a modem and a station, and two
versions of the firewall's file, which are alike.

- `UplinkFollows`: each downstream has exactly one uplink rule per family,
  to the upstream there is, or none.
- `FirewallInForce`: what was last installed is the file's present version.
- `RoutedIsServed`: once all is served, an upstream the kernel or netd names and
  that has its addresses is the active one; flags, list and NAT table agree.

`Allowed` may hold: *early* (named before its address is served,
`IPACM_Main.cpp:538`), *split* (only one family moves to a new upstream: the
default-gateway flag is one for both, `IPACM_Wan.cpp:4674` against the comment at 4564), *move*,
*lopsided* (an upstream without one of the families), *readdress*
(`IPACM_Wan.cpp:396`) and *header* (completing a header returns before routes that
waited for it, 1834 against the comment at 1838). An Android build with a station as upstream
never routes and is not a world. Assumed: the NAT library refuses a second table, and netd
names a pair once. Not modelled here: XLAT, eMBMS (see `IpacmModem`), the bridge mode, the
QMAP id, and the station's dummy IPv6 header (`IPACM_Wan.cpp:1440`, 6035), added with
each route and deleted only with the link.

## An interface's own rules: IpacmRules, IpacmRulesProofs

`obj` has the handles an object keeps, `hw` the rules of each kind the driver
has, `count` the number of filter rules per pipe, `table` the private subnets,
`rm` and `deps` the resource manager's users and its kernel dependencies,
`tethered` the pipes the modem was told of. A world says how many driver calls
may be refused; a handler that meets a refusal is given the call that was
refused and follows the code's error path.

- `NothingIsLeft`: an interface that is gone has left no rule, no count and no
  pipe behind. Left out are refused deletions (`DeleteRoutingHdl` reports them as
  done) and two installs refused half-way.
- `SubnetsFollow`: once its events are served, the table is the nets of the
  interfaces there are, and the rules of each object are those of the table.
- `DependenciesAgree`: a dependency is in the kernel exactly while a producer and
  a consumer use it.

`Allowed` may hold: *bare* (a link or software routing goes before there is an
address: the end of `handle_down_evt` is skipped, `IPACM_Lan.cpp:2489`,
`IPACM_Wlan.cpp:1541`), *shared* (two interfaces in one net), *overflow* (a
fourth net), *reload* (the file read again forgets the nets), *third* (eMBMS as
third user of the modem's consumer, which the count takes for the last). Bounds: `MAX_CLIENTS = 2` and
`MAX_NEWS = 2` waiting subnet events; both kinds of refusal happen at most once.
Not claimed, since the code does otherwise: `ecm0` without rx properties never
removes its dependency, `wlan0`/`wlan1` without them name a pipe no dependency has,
two access points share one pipe, `DelPrivateSubnet` moves addresses but not
masks (all nets have one mask here), `AddNatIfaces` is off by one at its limit.

**Proved** for all interfaces, nets and worlds: `TypeCorrect`; `DependenciesFollow`
(`DependenciesAgree`, if *third* is not allowed); `ListsFollow` (`SubnetsFollow`, if
*shared*, *overflow* and *reload* are not). These hypotheses are the circumstances
named above, which TLC shows to break the properties; the runs exclude them too.
The other circumstances may occur in the proved specification. `DependenciesAgree`
needs, for each side of each entry, that its mark is its use, and that the count of the
modem's users is the number of families routed (`DepInv`); `AddRmDepend` and
`DelRmDepends` then keep the relation `Follows` for any set of resources in use (`Adds`,
`Deletes`). `SubnetsFollow` says nothing while events wait: `NetInv` says that an
interface whose list is not the table's has been sent news of another interface,
that the nets in the table are those in use, and that no two interfaces have the
same. `NothingIsLeft` adds up counters over all interfaces and stays with TLC.

## The firewall: IpacmModem

The file is a sequence of tagged elements and `IPACM_Xml` reads it tag by tag, in
its order (`firewall` is what the file says); the rules of an entry are records of masked fields over small sets
(`ADDR_BITS = 2`), and tables are interpreted: the first rule that matches decides
a packet. `ModemDecides`: once its events are served, each packet that comes down
a PDN is decided by the modem's one list as the file says. `StationDecides`: the
same for a station's own pipe, with no rule left from before. The limit is the
code's name `QMI_IPA_MAX_FILTERS_V01` with 24 in place of 64: a longer list is
refused, the modem keeps the old one, and the property holds for lists it took.

`Allowed` may hold: *lopsided* (the file changes while one family is up: the
inactive one is configured too, the other may be ignored), *multicast* (the
copy an eMBMS object makes has the properties of whoever installs it; its object
hears of no change), *both* (a station with both families reads the file again
between deleting and configuring, and leaks the rule of fragments), *last*
(the list stays with the modem when the last PDN goes). At most `MAX_LEFT = 2`
rules of an earlier station are followed. A station never gets its default rules,
because `config_ip_type` marks the family before `init_fl_rule`, which then returns
(`IPACM_Iface.cpp:645`). Not modelled: ICMP codes, TOS and traffic class, SPI,
destination addresses, the sizes of arrays, the bridge mode.

## The bridge: IpacmBridge, IpacmBridgeProofs

Linux build only. `held` are the rules whose handles the controller keeps, `hw` a
bag of the rules in the hardware, `m_iface` its interfaces with their peers and
counted contexts, `cached` the clients announced too early, `queue` the internal
events. `BridgeIsIdeal` gives an abstract specification as a function of the
state of interfaces and clients: the hardware holds exactly the contexts, routing and filter rules
of pairs that may talk, once each, on the pipe of the mode. `ClientsAgree`: every client
announced is listed or was refused for want of room, and no other.

An interface object ends in two steps. `LinkDown` is `handle_down_evt`: it posts
IFACE_DOWN, frees `tx_prop` (`IPACM_Lan.cpp:2713`, `IPACM_Wlan.cpp:1758`), clears
`is_active` and posts LAN_DELETE_SELF; `active` are the interfaces before that, `alive`
those with an object. When the controller handles IFACE_DOWN it reads the header type of the
interface it takes down in `tx_prop` (`IPACM_LanToLan.cpp:727`, 748, 803), which
is freed memory by then. `PeersAreMutual` says how far this reaches: peers name each other, the
controller has only interfaces whose object exists, and one whose `tx_prop` is freed is the
one whose IFACE_DOWN comes next. So no other handler reads freed memory, and that
one reads it of no peer. What it finds there is `TypesRead`: what the memory held before, or with the
course *freed* any type of the network (a value beyond the array of counts is not modelled). The run
and the theorems leave *freed* out, so they rest on memory that keeps its contents between
two handlers of one thread; with it TLC finds `BridgeIsIdeal` violated: the
count of the wrong type is lowered and contexts stay in the hardware for an interface
that is gone.

An eth interface and two access points of one header type make the wired one
count two peers; two clients, a cache of one. `Allowed` may hold *guest* (a
later interface links with a guest access point, whose end skips its peers,
`IPACM_LanToLan.cpp:209`), *early* (a client that leaves before its interface is up
stays cached, 348), *bare* (an interface without an address goes and its cached
clients stay), *freed*. A refused driver call that ends `handle_down_evt` before it posts
IFACE_DOWN is not modelled here. A client refused for want of room is never tried again (ghost
`refused`).

**Proved** for any interfaces, header types, clients, cache size and worlds:
`Ideal` (`BridgeIsIdeal`) and `Mutual` (`PeersAreMutual`) whenever neither *guest* nor *freed*
is in `Allowed`, `Agree` (`ClientsAgree`, with the types) when none of the four is. The
assumptions are that interfaces and clients are finite in number, that the cache is
no longer than the list of clients, as 10 and 16 are, and that `Nobody` is no interface.

1. `Links`: an interface that may be bridged has all others of that kind as its peers, and
   its counts are the sizes of those sets. Under `Links` the promised rules are
   a union over interfaces (`RulesFor`, lemma `IdealIs`), which is what handlers
   change. Each handler keeps `Links` (`ComingLinks`, `LeavingLinks`,
   `ChangingLinks`).
2. The rules a handler installs are new, and with the old ones they are those of the new
   interfaces (`ComingCompletes`, `FamilyCompletes`, `OneClient`); those it removes are
   held, and without them the same is so (`LeavingLeaves`, `ClientGoes`). A count
   that becomes 0 or 1 says whether a shared rule has another peer (`CountTells`), so each
   is installed once: `held` and the bag `hw` stay equal.
3. `RulesInv` adds what the queue must promise: an interface that is up
   has an object with an address, active or to be taken down next (`UpAreAlive`), an IFACE_UP that waits is for such an object and
   would link only interfaces that may be bridged (`UpsInOrder`), an object that is to
   be deleted is not active and is taken down first (`DownBeforeEnd`), and a rule without the pipe of the mode has an event coming
   (`PipesInTime`).
4. `ClientsInv` says for `ClientsAgree` which events must wait when list and network differ
   (`KnownAreThere`, `ThereAreKnown`) and that no announcement waits before the end of its
   interface (`AddsInOrder`, `DelsInOrder`).

## Requests of the network: LocNi, LocThreadsProofs

The modem asks for the phone's position, the user is shown the request and
accepts or denies. There is an ordinary session and an emergency one.

| state | code |
|-------|------|
| `session` | `loc_eng_ni_session_s_type`; a request is its number, 0 is a NULL `rawRequest` |
| `thread` | `ni_thread_proc` of each request: waiting, holding the lock, ending, its message sent |
| `worker` | the message thread: idle, inside a request, inside a restart |
| `user` | `loc_eng_ni_respond` between finding the session and storing the answer |
| `said`, `answers`, `late` | histories: what the user said, what the modem heard, whether an answer was stored for a request already over |

The steps break where the code leaves or has not taken the session's lock: the
request's number is set after the session is taken, the restart frees a
request before it locks, the user's answer looks before it locks, the ending
thread clears the number after it unlocks. A wait may end by time-out at any time.
A request whose thread holds the lock blocks those who lock (`Locked`). A thread
that reads the request twice (lines 245 and 250) reads it once in the model.

Part "requests" of `Loc_threads`: two requests of any kind, two restarts, a user
who answers each at most once and at any time. A request in a session always has
its own thread to end it (`GuardedByThread`); the modem hears at most one answer
each (`OneAnswer`), though an old thread and a new one may wait in one session;
without a late answer or a restart, the answer is the user's own (`InTimeIsOwn`);
sessions are given back and requests answered (`EveryWaitEnds`). Two requests are
what it takes for threads to meet in a session or for both sessions to be taken;
the proofs have no bound. An answer stored after its request timed out leaves
`respRecvd` set and is given to the next request (`loc_eng_ni.cpp:401`, against the
comment at 235): the property leaves that case out.

Fairness: message thread, framework thread and each request's thread are
scheduled, and the time-out comes. A failing `pthread_create` is not modelled.

**Proved** for any number of requests and restarts (`BoundsAssumption`):
`TypeCorrect`, `AlwaysGuarded`, `AlwaysOneAnswer`, `AlwaysOwnInTime`. `OneAnswer` is not inductive:
a second thread might carry the same request, or take it after the answer. `NiInv`
adds (`OwnedOnce`) that at most one thread owns a request, that a request still in
its session has no answer and no owner but one that holds that session's lock,
and (`Numbered`) that requests not begun have left no trace and the one being
taken up has no thread yet. `OneSession` follows from `GuardedByThread`: no request is in
both sessions. A thread can take a request only without such an owner, since
an owner would hold the lock. `EmptyingKeeps` covers the restart and
the user's steps at once: they only empty sessions. For `InTimeIsOwn`,
`InTimeInv` follows the user's word through the flag of the session
(`FlagsTell`: a flag that is set is about the request in the session, and no thread
has just taken that one up), the framework's call (`UserTells`) and the thread that took the
answer (`ThreadsTell`). Liveness is model-checked.

## Timers: LocTimer, LocHeap

Clients start and stop timers (`mTimer`, `delegates`) and post to the message
thread, which keeps the heap node by node as `LocHeap.cpp` does, arms the one
kernel timer (`armed`) and runs callbacks; the poll thread turns an expiry into a
message. Each stretch between system calls is a step. The kernel timer is exact
while the ranking compares whole seconds, so a second is two ticks. Part "timers"
of `Loc_threads`: three clients, three timers, delays of half a second and a
second; clients and whole seconds are alike, so the first timer is c1's. A
delegate has one owner and is deleted once (`OneOwnerEach`); between the message
thread's messages the tree is a heap with right counts, holds what is running,
and a second no later than the soonest's is armed, or an expiry is on its way
(`SoonestIsArmed`); every timer fires or is stopped (`EveryWaitEnds`, with the two
threads and the clock fair).

An expiry that was already posted pops the first timer without looking at its
time (`LocTimer.cpp:367`, against the comments at 352 and 364): a timer may fire
early, and no property says otherwise. The branch that disarms for an empty tree
(288-294) is never reached. A client freed by another thread while its timer
expires is left out.

## Synchronous requests: SyncReq, LocThreadsProofs

Each call takes a slot, writes what it waits for, sends, waits and frees the slot;
the delivering thread looks through the slots; each step names the lock it
holds. Part "calls" of `Loc_threads`: three threads make three calls of two kinds
through two slots while the modem answers late, out of order or never. A buffer is
written only while its caller still waits (`BuffersAreLive`); a call that got a
slot and returns success has an answer of its kind, and its own if no other call
asked for that kind meanwhile (`AnswersFit`); every call returns
(`EveryWaitEnds`). With all slots taken a call sends nothing and returns success
(`loc_api_sync_req.c:500`): `AnswersFit` is about calls that got a slot. A second
indication goes to a call that was woken and has not run (line 209). Wake-ups
without a signal are left out: the code does not wait in a loop.

**Proved** for any number of slots, threads, calls and keys
(`SyncBoundsAssumption`, `KeysAssumption`: the mark of an empty slot is no key):
`SyncTypeCorrect`, `NeverADeadBuffer`, `AnswersAlwaysFit`. Neither property is
inductive, because what a slot holds follows from how far its call is. `SyncInv` adds
that relation place by place (`PlacesTell`: the slot has the caller's buffer
and key while it waits, a pending arrival is an answer, a woken call has one),
that numbers of calls differ and a slot without a buffer matches nothing
(`NumbersDiffer`), and that a key nobody else asked for has one call and only its
request with the modem (`CleanIsExclusive`). `SlotIsOwn` and
`OthersTell` carry the rest: a step of one thread touches only its own slot.

## Sessions: LocSession, LocSessionProofs

The framework's calls (`want`, `asked`) and the modem's indications (`wire`)
become messages of one queue (`queue`) of the message thread, and a report about the engine
passes it twice. `eng`, `api`, `conn` and `modem` are the state at the four levels of
the path: `loc_eng`, `LocApiV02`, the QMI client with its own opening, and the
modem, which may crash. Part "session" of `LocSession_calls` uses a session in
five ways: calls that cross crashes, refused requests, single-shot fixes,
deletions, measurements.

- `LastCallWins`: at rest, the modem runs a session exactly if the framework asked
  for one last, in the mode it asked for last.
- `SessionIsHeard`: while a session runs its events are registered, and the modem
  is left in peace when there is none.
- `DeletedOrWaiting`: of the kinds of data asked to be deleted, every one the modem
  was not told of since its last request waits in the engine's one place with an
  engine that is on, or was replaced there by a later request for another kind
  (`aid.overtaken`); none is lost in another way.
- `WantedIsServed`: a session asked for is begun at last, across crashes and
  reopenings, unless the modem refuses the session; the message thread, the callbacks
  and the opening are fair. An opening that fails or is only limited
  (`loc_api_v02_client.c:1807-1819`) is not modelled: every opening succeeds.

`LocSession_deletions` (violation) has two deletions and no crash: the second request
overwrites the first in `aiding_data_for_deletion` (`loc_eng.cpp:1301`), so when the engine
is off and all is handled the first kind is still there, though `loc.cpp:523` says
the deletion will happen then (`AskedIsDeleted`). `DeletedOrWaiting` is what remains.

`Allowed` may hold: *cross* (a stop meets the news of a crash,
`loc_eng.cpp:2857`), *hop* (a report about the engine of before a crash, queued a second time,
arrives after it), *deaf* (a crash while the client is registered without
callbacks, `loc_api_v02_client.c:1701`), *cleanup* (`loc_eng.cpp:1870`), *oldfix*,
*late* (reports and fixes of an earlier session meet a later one), *lull*
(measurements asked for with no session while the engine was reported on, or
while a fix on its way may end the single shot they are for: the mask stays as it
is, or is widened for no session, and nothing turns the report off). Also in the model and not claimed
otherwise: a refused mode returns success (`LocApiV02.cpp:434`), a refused stop leaves
the modem running, a refused start leaves `mInSession` set; a restart resets the mode
(`LocEngAdapter.cpp:351`) and forgets the measurement bit (`LocApiBase.cpp:97`);
masks only ever grow; a deletion sent to a crashed modem is lost. Bounds:
`QueueSize = 4`, `WireSize = 2`, the budgets of the worlds.

**Proved** for every world, bound and set `Allowed`: `TypesHold` and `AlwaysHeard`, which is
`SessionIsHeard`. A running session's mask is not inductive alone: the mask
the modem has is the one of the last registration, and registrations wait in the queue
or are made by a reopening. `HeardInv` adds that no session or engine is believed on
before the first opening (`OpenedFirst`), that the modem of an open client has the mask
the client means (`MaskIsMeant`), that a session's client has all events registered
(`SessionHasMask`), and that what the framework asked to measure is in the mask or waits
as a message (`MeasAsked`). The measured exceptions stay in the property: *forgot*
is the restart that forgets the measurement bit.

**Proved** for every world and bound with `Allowed = {}`: `LastCallHolds`, which is
`LastCallWins`, and `AskedWaits`, which is `DeletedOrWaiting`. Both speak only of a state
at rest; while messages wait, what holds is about their order, so the invariant is a
statement about two sequences of words (`posted` and `coming`, what the messages of
`queue` and `wire` say). `OrderInv`, which `InitOrder` and `NextOrder` prove inductive
beside `HeardInv`, says:

- `Reopens`: one crash at a time is on its way or being dealt with; the client's
  opening is followed at once by the news that the modem is back, and until that is
  handled no session runs.
- `Positions`: a fix belongs to the session of its time; no start and no report that
  the engine is on overtakes it.
- `Wish`: what the queue will make of `mNavigating` (starts, stops and restarts in
  their order) is what the framework wants, or a request was refused; a session that
  is started again is not stopped behind the restart.
- `Runs`, `Mode`: the modem has the session and the mode of the engine, and the mode
  asked for last is the engine's or the last one in the queue.
- `Told`: whatever says that the engine is on, in the queue, on the wire or with the
  framework, is followed by what says it is off, unless it is on and its end
  will be reported.
- `Deleting`: every kind due is in the queue, in the engine's place, or overtaken, unless
  a request went to a dead modem; what is in that place waits for an engine believed on.

Sequences are reasoned about with a few lemmas on words (`FirstTaken`, `Joined` and
their kin: what taking the first or adding others does to "before", "after" and "is
followed by"); `Touches` and `Same` say once that a step which takes and adds other
words leaves an order as it is, so each part of the invariant has one lemma for the steps
it is not about, and one case for each handler, call or event it is about. TLC checked
`HeardInv` and `OrderInv` in the five worlds of the run first. The
proof moved the model in two places: *lull* has the case of the fix on its way, and
`DeletedOrWaiting` excepts a modem that refused to stop (the run's worlds reach
neither). The code has no guard against the courses: with *cross*, *hop*,
*cleanup*, *oldfix*, *lull* or *late* alone in `Allowed`, TLC finds `LastCallWins`
violated in the run's worlds, and with *deaf* `WantedIsServed`, as the client stays
closed.

## Configuration: LocConfig

`gps_conf`, the server buffers and `update`, the framework's thread within
`loc_eng_configuration_update`, are written in place while the message thread
(`work`) handles messages and, after a start or a restart, reads the same places
and posts everything once more. The modem forgets its settings when it restarts;
engine lock and certificates are assumed to persist. Part "config" checks updates,
servers, locks, files and certificates, singly and with a restart.

- `ConfigArrives`: at rest, the modem has what was configured last.
- `DataArrives`: only whole files reach the modem, in order, and certificates go
  to the slots allowed.

`CfgAllowed` may hold: *race* (an update while the message thread reads), *revert*
(the restore of `loc_eng.cpp:2720` puts a measurement capability back), *mode*
(`SUPL_MODE` is read when handled, after the restore, 2742), *refused* (nothing is
retried), *unheard* (a lost answer sends the same part under the next number), *big*
(`len_injected` has 16 bits, `LocApiV02.cpp:1085`, while files to 100000 bytes are accepted),
*dns* (a name that is not found), *gone* (the lock is sent once, and lost if the
modem is down). Assumed: `loc_eng_agps_init` is done; an update's text repeats the file for
parameters other than the five. Data and APN requests do nothing in this `LocApi`,
and `LocEngExtPowerConfig` is never constructed.

## Findings

Three runs expect a violation. `IpaNat_circle`: a refused DMA request leads
to a circular chain, which the driver's own check says never happens. `CtNat_race`:
a closed connection keeps its rule in the hardware when two threads meet in one
entry. `LocSession_deletions`: a second deletion takes the place of the first.
Other disagreements of code and comments are quoted in the sections above. Seen
besides, without a model that covers them or depending on code outside the tree:

- `loc_eng_agps.cpp:738`: a connection that asks again while its old emergency
  subscription is inactive is dropped as already there; `:838`: the timer's
  thread walks the subscriber list without a lock; `loc_eng.cpp:2387`: an opening
  without APN leaves the machine Pending; `:2849`: a modem restart does not drop the
  emergency machine's subscribers.
- `IPACM_Conntrack_NATApp.cpp:367`: `AddEntry` enables a slot before it is filled,
  beside the refreshing thread; `:274`: a refused deletion wipes the entry.
- `IPACM_Config.cpp:297`: a new configuration empties the NAT interface list, and
  Wi-Fi objects do not put themselves back.
- `LocTimer.cpp:521`: `expire` reads its client without the lock;
  `LocThread.cpp:116`: a thread already finished counts as not created;
  `loc_eng_dmn_conn_thread_helper.c:251`: a failed receive ends the loop that says
  it will retry.

## Known hazards no property covers

The courses that `Allowed = {}` and `CfgAllowed = {}` keep out are modelled, and letting
one in makes a property fail, but no run lets it in: the hazards whose note in
`PROJECT.json` names such a course are described by the models and caught by no run
as they stand. The same holds where a note says that a setting leaves a circumstance out.
Besides those:

- `ipa_nat_drvi.c:898`: error paths of creating and deleting a table leave the
  cache valid with its memory unmapped; tables come and go outside the model.
- `ipa_nat_drvi.c:1291`: a refused link request is swallowed: the caller holds an
  exact handle of a rule the hardware never reaches.
- `loc_eng_agps.cpp:563`: see above; with two clients and a busy service nobody
  answers the second.
- `IPACM_ConntrackListener.cpp:746`: a dummy rule is stored under the public
  address of the moment and looked up under that of the close.
- `IPACM_EvtDispatcher.cpp:142`: a callback may free the nodes the dispatcher walks;
  what follows is undefined.
- `IPACM_Config.cpp:194`: `Init` forgets the kernel's index of an interface that is
  gone by then; the models name interfaces directly.
- `IPACM_IfaceManager.cpp:107`: see `UpRunning`.
- `loc_eng_ni.cpp:181`: a thread that cannot be created leaves its session taken.
- `LocTimer.cpp:367`, `IPACM_Neighbor.cpp:284`, `IPACM_Lan.cpp:813`,
  `IPACM_Lan.cpp:713` (the neighbour entry of an earlier address removes its
  host), `IPACM_Main.cpp:538`, `IPACM_Wan.cpp:396`, `IPACM_LanToLan.cpp:209` and
  `:348`, `IPACM_Lan.cpp:2489`, `IPACM_Config.h:275`, `IPACM_Iface.cpp:645`: the
  circumstances named in the sections above.

Others are covered by a property and left out of the list for its length: the
back links of a chain after deletions (`ipa_nat_drvi.c:1895`), full expansion
tables (1177), the last handle (534), subscribers that join a closing interface
(`loc_eng_agps.cpp:555`, 279), wiped cache entries and full caches
(`IPACM_Conntrack_NATApp.cpp:639`, 337, 153), duplicate link-ups
(`IPACM_IfaceManager.cpp:220`), a request's number cleared late
(`loc_eng_ni.cpp:260`), removal from the heap (`LocHeap.cpp:142`), an early
indication (`loc_api_sync_req.c:207`), a new prefix with old addresses queued
(`IPACM_Wlan.cpp:1106`), the mode set before its event (`IPACM_Main.cpp:591`),
overlapping upstreams (`IPACM_Wan.cpp:744`, 798, `IPACM_Lan.cpp:2493`, 1390),
pointers and cached clients of the bridge (`IPACM_LanToLan.cpp:767`, 321), events
kept after a stop (`LocApiV02.cpp:535`), and the station's rule of fragments
(`IPACM_Wan.cpp:3870`).

## Not modelled

- Generated QMI tables, logging, NMEA sentences and the wording of messages: text
  and tables without state. They are a third of the tree's C lines.
- Positions, satellites and measurements on their way up: converted, not kept.
- The daemon connection: one thread reading one pipe; its requests appear as
  those of a Wi-Fi client in `AgpsNif`. The end of threads and queues
  (`msg_q_destroy`, `LocThread`): these tasks never end.
- ipacm: statistics, cradle and bridge modes of the WAN, XLAT, DSCP and QMAP,
  the `CT_OPT` build, port forwarding, the list of registrations.
- Muting one session by a privacy-override request; wake locks; zero-power
  positions; loading of the lightweight LBS library.
- The lights HAL (three bits of sequential state under one lock, the rest are LED
  patterns), charger, recovery updater, key disabler: single reads and writes.
- Undefined behaviour after the use of freed memory: nothing could be said of what
  follows.

## Outside TLC's and TLAPS's reach

Liveness, `ENABLED` and the recursive heap stay with TLC. So do properties that count over sets without a bound
(`NothingIsLeft`), that depend on arrays that happen to be large enough
(`OffloadFollows` beyond its first part, `CachedUntilClosed`), or that fold over a
sequence of objects or of tags (`IpacmUpstream`, `IpacmModem`, `LocConfig`).

## Running

    tlc -workers 2 -config IpaNat_rules.cfg MCIpaNat.tla
    tlapm IpaNatProofs.tla

and so for the other modules whose name ends in `Proofs`. `PROJECT.json` names the
module of each configuration. `LocSession_calls` takes two and a half minutes on two
cores, `Nat_uplink` four, `Ipacm_events` and `Loc_threads` three, `IpacmRules_pipes`,
`IpacmClients_tables` and `Agps_clients` about two, the others less. Each proof module takes up to a few minutes.
