------------------------------ MODULE LocConfig ------------------------------
(***************************************************************************)
(* What the framework configures and hands over, and what of it reaches    *)
(* the modem: the parameters of gps.conf and their updates, the location   *)
(* servers, the engine lock, the XTRA file and the certificates            *)
(* (loc_eng.cpp, loc_eng_xtra.cpp, LocApiV02).  The framework's thread     *)
(* writes gps_conf and the buffers of servers in place and posts messages; *)
(* the engine's thread handles them and, after a start or a restart of the *)
(* modem, reads the same places and posts everything once more.  The modem *)
(* forgets its configuration when it restarts.                             *)
(***************************************************************************)
EXTENDS Naturals, Sequences, FiniteSets, SequencesExt

CONSTANTS
  Confs,        \* what gps.conf may be made to say
  SapConfs,     \* what sap.conf may say: usage, provider and the properties it gives
  Measures,     \* whether the modem reports measurements, one or both
  PartLen,      \* QMI_LOC_MAX_PREDICTED_ORBITS_PART_LEN
  LenLimit,     \* what an uint16_t counts up to: 2^16
  FileLens,     \* lengths of XTRA files
  WritableMask, \* AGPS_CERT_WRITABLE_MASK as a set of slots
  CertLists,    \* the lists of certificates the framework may install
  MaxCertLen,   \* AGPS_CERTIFICATE_MAX_LENGTH
  CfgWorlds,    \* what may happen at most, see Budget
  CfgAllowed    \* courses of events, of those named below, that may happen

\* A setting is unset or a sequence of its one value.
Unset == <<>>
AGPS_CERTIFICATE_MAX_SLOTS == 10
CertSlots == 0 .. AGPS_CERTIFICATE_MAX_SLOTS - 1
SuplModes == {"MSA", "MSB"}
CfgCourses == {"race", "revert", "mode", "refused", "unheard", "big", "dns", "gone"}

\* Parameters of gps.conf; those an update keeps; those it tells of, in its order.
Params  == {"SUPL_VER", "LPP_PROFILE", "A_GLONASS", "SUPL_MODE", "GPS_LOCK"}
Kept    == {"SUPL_VER", "LPP_PROFILE", "A_GLONASS", "GPS_LOCK"}
Changes == <<"SUPL_VER", "LPP_PROFILE", "A_GLONASS", "SUPL_MODE">>
Servers == {"SUPL_SERVER", "C2K_SERVER"}
Settings == {"SUPL_VER", "LPP_PROFILE", "A_GLONASS", "SENSOR_CONTROL", "SENSOR_PROPERTIES",
             "SENSOR_PERF", "XTRA_VERSION_CHECK", "SUPL_SERVER", "C2K_SERVER", "GPS_LOCK"}
Budget == [updates : Nat, servers : Nat, switches : Nat, files : Nat, certs : Nat, restarts : Nat,
           faults : Nat]

ASSUME CfgCoursesAssumption == CfgAllowed \subseteq CfgCourses
ASSUME CfgWorldsAssumption  == CfgWorlds \subseteq Budget
ASSUME CfgSizesAssumption   == /\ PartLen \in Nat \ {0} /\ LenLimit \in Nat \ {0}
                               /\ LenLimit % PartLen = 0 /\ FileLens \subseteq Nat \ {0}
                               /\ WritableMask \subseteq CertSlots /\ Measures \subseteq BOOLEAN

VARIABLES
  gps_conf,  \* that structure; CAPABILITIES is among it
  sap_conf,  \* that structure, read once
  hosts,     \* supl_host_buf and c2k_host_buf, Unset until set
  update,    \* the framework's thread in loc_eng_configuration_update: its copy (tmp) and the
             \* parameters it has still to tell of; none when it is elsewhere
  msgs,      \* the messages of the engine's thread
  work,      \* what that thread has still to do for the message it took, and the message it has
             \* composed and not posted; injected is len_injected
  mdm,       \* the modem: up; has, its settings; parts, of the file on its way, and orbits, of
             \* the file that is complete; slots, its certificates; measures
  ulp,       \* the capabilities the carrier allows, as ULP was told
  toldCaps,  \* the capabilities the framework was told
  given,     \* what the framework configured last: gps.conf, servers, lock, file and certificates
  spare      \* what may still happen

cfgVars == <<gps_conf, sap_conf, hosts, update, msgs, work, mdm, ulp, toldCaps, given, spare>>

NoUpdate == [at |-> "none", tmp |-> <<>>, todo |-> <<>>]
AtWork(jobs) == [jobs |-> jobs, hand |-> <<>>, injected |-> 0]
Idle(w)  == w.jobs = <<>> /\ w.hand = <<>>
Lost     == [k \in Settings |-> Unset]

\* What loc_eng_read_config finds is what the framework wants, until it says otherwise.
ConfigInit ==
  /\ gps_conf \in Confs /\ sap_conf \in SapConfs
  /\ hosts = [s \in Servers |-> Unset]
  /\ update = NoUpdate
  /\ msgs = <<[set |-> "INIT"]>> /\ work = AtWork(<<>>)
  /\ \E m \in Measures :
       mdm = [up |-> TRUE, has |-> Lost, total |-> 0, parts |-> <<>>, orbits |-> <<>>,
              slots |-> [s \in CertSlots |-> "none"], measures |-> m]
  /\ ulp = gps_conf.CAPABILITIES \ (SuplModes \ gps_conf.SUPL_MODE) /\ toldCaps = {}
  /\ given = [conf |-> gps_conf, hosts |-> hosts, lock |-> Unset, file |-> 0,
              slots |-> [s \in CertSlots |-> "none"]]
  /\ spare \in CfgWorlds

-----------------------------------------------------------------------------
(* The requests to the modem (LocApiV02).  A request to a modem that is    *)
(* down fails; one may be refused, or its answer be late: the caller does  *)
(* not look at the result of a setting.                                    *)

Fates == {"taken", "refused", "unheard"}
Taken(fate) == mdm.up /\ fate # "refused"
Heard(fate) == mdm.up /\ fate = "taken"
Ask(k, v, fate) == IF Taken(fate) THEN [mdm EXCEPT !.has[k] = <<v>>] ELSE mdm

suplVersion(v)  == IF v = 131072 THEN "2.0" ELSE "1.0"      \* 0x00020000
sensorUse(s)    == [usage    |-> IF s.usage = 1 THEN "disable" ELSE "enable",
                    provider |-> IF s.provider \in {1, 4} THEN "ssc" ELSE "native"]
xtraCheck(v)    == CASE v = 1 -> "auto" [] v = 2 -> "xtra2" [] v = 3 -> "xtra3" [] OTHER -> "disabled"
serverUrl(host) == IF host = "NONE" THEN "" ELSE host

setSUPLVersion(v, fate)         == Ask("SUPL_VER", suplVersion(v), fate)
setLPPConfig(v, fate)           == Ask("LPP_PROFILE", v, fate)
setAGLONASSProtocol(v, fate)    == Ask("A_GLONASS", v, fate)
setSensorControlConfig(v, fate) == Ask("SENSOR_CONTROL", sensorUse(v), fate)
setSensorProperties(v, fate)    == Ask("SENSOR_PROPERTIES", v, fate)
setSensorPerfControlConfig(v, fate) == Ask("SENSOR_PERF", v, fate)
setXtraVersionCheck(v, fate)    == Ask("XTRA_VERSION_CHECK", xtraCheck(v), fate)
setServer(k, v, fate)           == Ask(k, v, fate)
setGpsLock(v, fate)             == Ask("GPS_LOCK", v, fate)

\* One part of the file.  The modem begins anew with part 1 and has the file when it has
\* every part; what it makes of the parts is outside this code.
Part(len, n, w) ==
  LET n_left == len - w.injected
      size   == IF PartLen > n_left THEN n_left ELSE PartLen
  IN [k \in 1 .. size |-> <<len, w.injected + k>>]
TotalParts(len) == (len - 1) \div PartLen + 1
Accept(len, n, data) ==
  LET parts == [p \in {n} \cup (IF n = 1 THEN {} ELSE DOMAIN mdm.parts) |->
                  IF p = n THEN data ELSE mdm.parts[p]]
  IN IF DOMAIN parts = 1 .. TotalParts(len)
     THEN [mdm EXCEPT !.parts = <<>>, !.orbits = FlattenSeq([p \in 1 .. TotalParts(len) |-> parts[p]])]
     ELSE [mdm EXCEPT !.parts = parts]
setXtraData(len) == [n \in 1 .. TotalParts(len) |-> [do |-> "part", len |-> len, n |-> n]]

\* A plausible bug: a writable slot no certificate is left for keeps the one it has.
CertJobs_kept(certs, s) ==
  LET i == Cardinality({t \in WritableMask : t < s}) + 1
  IN IF s \in WritableMask /\ i <= Len(certs) THEN <<[do |-> "cert", slot |-> s, cert |-> certs[i]]>>
     ELSE <<>>

\* What a slot is to hold: each writable slot the next certificate, or none, which takes the
\* injection of something to delete.
CertJobs(certs, s) ==
  LET i == Cardinality({t \in WritableMask : t < s}) + 1
  IN IF s \notin WritableMask THEN <<>>
     ELSE IF i <= Len(certs) THEN <<[do |-> "cert", slot |-> s, cert |-> certs[i]]>>
     ELSE <<[do |-> "cert", slot |-> s, cert |-> "fake"], [do |-> "cert", slot |-> s, cert |-> "none"]>>
installAGpsCert(certs) == FlattenSeq([i \in 1 .. Cardinality(CertSlots) |-> CertJobs(certs, i - 1)])

-----------------------------------------------------------------------------
(* The engine's thread.                                                    *)

gnssConstellationConfig == mdm.measures
getCarrierCapabilities == gps_conf.CAPABILITIES \ (SuplModes \ gps_conf.SUPL_MODE)

Post(q, m) == Append(q, m)
ToPost(keys) == [i \in DOMAIN keys |-> [do |-> "post", key |-> keys[i]]]

\* What loc_eng_reinit sends.
ReinitKeys ==
  <<"CONSTELLATION", "SUPL_VER", "LPP_PROFILE", "SENSOR_CONTROL", "A_GLONASS">>
  \o (IF sap_conf.properties = {} THEN <<>> ELSE <<"SENSOR_PROPERTIES">>)
  \o <<"SENSOR_PERF", "XTRA_VERSION_CHECK">>
loc_eng_reinit      == ToPost(ReinitKeys)
\* A plausible bug: the second server is not given to a modem that restarted.
loc_eng_agps_reinit_supl ==
  ToPost(SelectSeq(<<"SUPL_SERVER">>, LAMBDA s : hosts[s] # Unset))
loc_eng_agps_reinit == ToPost(SelectSeq(<<"SUPL_SERVER", "C2K_SERVER">>, LAMBDA s : hosts[s] # Unset))

\* The value a message is made with.
Current(k) ==
  CASE k \in DOMAIN gps_conf -> gps_conf[k]
    [] k \in Servers -> IF k = "SUPL_SERVER" THEN serverUrl(Head(hosts[k])) ELSE Head(hosts[k])
    [] k = "SENSOR_CONTROL" -> [usage |-> sap_conf.usage, provider |-> sap_conf.provider]
    [] k = "SENSOR_PROPERTIES" -> sap_conf.properties
    [] k = "SENSOR_PERF" -> sap_conf.perf
    [] OTHER -> Unset

\* What proc() of a message asks of the modem.
Proc(m, fate) ==
  CASE m.set = "SUPL_VER" -> setSUPLVersion(m.to, fate)
    [] m.set = "LPP_PROFILE" -> setLPPConfig(m.to, fate)
    [] m.set = "A_GLONASS" -> setAGLONASSProtocol(m.to, fate)
    [] m.set = "SENSOR_CONTROL" -> setSensorControlConfig(m.to, fate)
    [] m.set = "SENSOR_PROPERTIES" -> setSensorProperties(m.to, fate)
    [] m.set = "SENSOR_PERF" -> setSensorPerfControlConfig(m.to, fate)
    [] m.set = "XTRA_VERSION_CHECK" -> setXtraVersionCheck(m.to, fate)
    [] m.set \in Servers -> setServer(m.set, m.to, fate)
    [] m.set = "GPS_LOCK" -> setGpsLock(m.to, fate)

\* What it takes a fault for a request not to be taken and heard; only some courses let that
\* happen to a setting, or keep a part's answer from being heard.
Befalls(fate, isSetting) ==
  \/ fate = "taken" /\ spare' = spare
  \/ /\ fate = "refused" /\ spare.faults > 0 /\ (isSetting => "refused" \in CfgAllowed)
     /\ spare' = [spare EXCEPT !.faults = @ - 1]
  \/ /\ fate = "unheard" /\ spare.faults > 0 /\ ~isSetting /\ "unheard" \in CfgAllowed
     /\ spare' = [spare EXCEPT !.faults = @ - 1]

Takes(kinds) == Idle(work) /\ msgs # <<>> /\ Head(msgs).set \in kinds /\ msgs' = Tail(msgs)

TakeSetting ==
  /\ Takes(Settings)
  /\ Head(msgs).set = "GPS_LOCK" => mdm.up \/ "gone" \in CfgAllowed
  /\ \E fate \in Fates : Befalls(fate, TRUE) /\ mdm' = Proc(Head(msgs), fate)
  /\ UNCHANGED <<gps_conf, sap_conf, hosts, update, work, ulp, toldCaps, given>>

\* LocEngSuplMode reads gps_conf when it is handled.
TakeSuplMode ==
  /\ Takes({"SUPL_MODE"})
  /\ ulp' = getCarrierCapabilities
  /\ UNCHANGED <<gps_conf, sap_conf, hosts, update, work, mdm, toldCaps, given, spare>>

TakeConstellation ==
  /\ Takes({"CONSTELLATION"})
  /\ "revert" \in CfgAllowed \/ update = NoUpdate
  /\ gps_conf' = [gps_conf EXCEPT !.CAPABILITIES =
                    IF gnssConstellationConfig THEN @ \cup {"MEASUREMENTS"} ELSE @]
  /\ UNCHANGED <<sap_conf, hosts, update, work, mdm, ulp, toldCaps, given, spare>>

TakeSetCapabilities ==
  /\ Takes({"CAPABILITIES"})
  /\ toldCaps' = gps_conf.CAPABILITIES
  /\ UNCHANGED <<gps_conf, sap_conf, hosts, update, work, mdm, ulp, given, spare>>

TakeInit ==
  /\ Takes({"INIT"})
  /\ work' = AtWork(loc_eng_reinit \o ToPost(<<"CAPABILITIES">>))
  /\ UNCHANGED <<gps_conf, sap_conf, hosts, update, mdm, ulp, toldCaps, given, spare>>

TakeEngineUp ==
  /\ Takes({"UP"})
  /\ work' = AtWork(loc_eng_reinit \o loc_eng_agps_reinit)
  /\ UNCHANGED <<gps_conf, sap_conf, hosts, update, mdm, ulp, toldCaps, given, spare>>

TakeData ==
  /\ Takes({"XTRA", "CERTS"})
  /\ work' = AtWork(IF Head(msgs).set = "XTRA" THEN setXtraData(Head(msgs).to)
                    ELSE installAGpsCert(Head(msgs).to))
  /\ UNCHANGED <<gps_conf, sap_conf, hosts, update, mdm, ulp, toldCaps, given, spare>>

Job == Head(work.jobs)
Doing(what) == work.hand = <<>> /\ work.jobs # <<>> /\ Job.do = what

\* A message is composed, from the values of the moment, and then posted.
Compose ==
  /\ Doing("post")
  /\ work' = [work EXCEPT !.jobs = Tail(@), !.hand = <<[set |-> Job.key, to |-> Current(Job.key)]>>]
  /\ UNCHANGED <<gps_conf, sap_conf, hosts, update, msgs, mdm, ulp, toldCaps, given, spare>>
PostComposed ==
  /\ work.hand # <<>>
  /\ msgs' = Post(msgs, Head(work.hand)) /\ work' = [work EXCEPT !.hand = <<>>]
  /\ UNCHANGED <<gps_conf, sap_conf, hosts, update, mdm, ulp, toldCaps, given, spare>>

\* A part whose answer does not say success is followed by the next, with the same data.
SendPart ==
  /\ Doing("part")
  /\ \E fate \in Fates :
       LET data == Part(Job.len, Job.n, work) IN
       /\ Befalls(fate, FALSE)
       /\ mdm' = IF Taken(fate) THEN Accept(Job.len, Job.n, data) ELSE mdm
       /\ work' = [work EXCEPT !.jobs = Tail(@),
                     !.injected = IF Heard(fate) THEN (@ + Len(data)) % LenLimit ELSE @]
  /\ UNCHANGED <<gps_conf, sap_conf, hosts, update, msgs, ulp, toldCaps, given>>

SendCert ==
  /\ Doing("cert")
  /\ mdm.up \/ "gone" \in CfgAllowed
  /\ \E fate \in Fates :
       /\ Befalls(fate, TRUE)
       /\ mdm' = IF Taken(fate) THEN [mdm EXCEPT !.slots[Job.slot] = Job.cert] ELSE mdm
  /\ work' = [work EXCEPT !.jobs = Tail(@)]
  /\ UNCHANGED <<gps_conf, sap_conf, hosts, update, msgs, ulp, toldCaps, given>>

-----------------------------------------------------------------------------
(* The framework's thread.                                                 *)

Calls(what) ==
  /\ update = NoUpdate
  /\ spare[what] > 0 /\ spare' = [spare EXCEPT ![what] = @ - 1]

\* The engine's thread holds no message of an older value of k.
NoneOlder(k) == "race" \in CfgAllowed \/ \A i \in DOMAIN work.hand : work.hand[i].set # k

\* The new text is parsed into gps_conf itself, a copy of which is kept.
loc_eng_configuration_update ==
  /\ Calls("updates")
  /\ \E new \in Confs :
       /\ \/ "mode" \in CfgAllowed \/ new.SUPL_MODE # gps_conf.SUPL_MODE
          \/ given.conf.SUPL_MODE = new.SUPL_MODE
       /\ LET conf == [p \in DOMAIN gps_conf |-> IF p \in Params THEN new[p] ELSE gps_conf[p]]
          IN /\ gps_conf' = conf
             /\ update' = [at |-> "telling", tmp |-> gps_conf,
                           todo |-> SelectSeq(Changes, LAMBDA p : conf[p] # gps_conf[p])]
             /\ given' = [given EXCEPT !.conf = conf]
  /\ UNCHANGED <<sap_conf, hosts, msgs, work, mdm, ulp, toldCaps>>

TellChange ==
  /\ update.todo # <<>> /\ NoneOlder(Head(update.todo))
  /\ msgs' = Post(msgs, [set |-> Head(update.todo), to |-> gps_conf[Head(update.todo)]])
  /\ update' = [update EXCEPT !.todo = Tail(@)]
  /\ UNCHANGED <<gps_conf, sap_conf, hosts, work, mdm, ulp, toldCaps, given, spare>>

\* All but what the update keeps is put back as it was when the copy was made.
RestoreConf ==
  /\ update.at = "telling" /\ update.todo = <<>>
  /\ "mode" \in CfgAllowed \/ \A i \in DOMAIN msgs : msgs[i].set # "SUPL_MODE"
  /\ gps_conf' = [p \in DOMAIN gps_conf |-> IF p \in Kept THEN gps_conf[p] ELSE update.tmp[p]]
  /\ update' = NoUpdate
  /\ UNCHANGED <<sap_conf, hosts, msgs, work, mdm, ulp, toldCaps, given, spare>>

\* The SUPL server goes by its name; another is looked up, which may fail: the framework is told.
loc_eng_set_server(s, host, found) ==
  IF s = "SUPL_SERVER" THEN Post(msgs, [set |-> s, to |-> serverUrl(host)])
  ELSE IF found THEN Post(msgs, [set |-> s, to |-> host])
  ELSE msgs
loc_eng_set_server_proxy(s, host) ==
  /\ Calls("servers") /\ NoneOlder(s)
  /\ \E found \in {TRUE, "dns" \notin CfgAllowed} :
       /\ msgs' = loc_eng_set_server(s, host, found)
       /\ given' = [given EXCEPT !.hosts[s] = IF s = "SUPL_SERVER" \/ found THEN <<host>> ELSE @]
  /\ hosts' = [hosts EXCEPT ![s] = <<host>>]
  /\ UNCHANGED <<gps_conf, sap_conf, update, work, mdm, ulp, toldCaps>>

\* loc_init unlocks the engine, loc_cleanup locks it as configured.
SwitchTo(lock) ==
  /\ Calls("switches")
  /\ msgs' = Post(msgs, [set |-> "GPS_LOCK", to |-> lock])
  /\ given' = [given EXCEPT !.lock = <<lock>>]
  /\ UNCHANGED <<gps_conf, sap_conf, hosts, update, work, mdm, ulp, toldCaps>>
loc_init    == given.lock # <<0>> /\ SwitchTo(0)
loc_cleanup == given.lock = <<0>> /\ SwitchTo(gps_conf.GPS_LOCK)

loc_eng_xtra_inject_data(len) ==
  /\ Calls("files") /\ (len <= LenLimit \/ "big" \in CfgAllowed)
  /\ msgs' = Post(msgs, [set |-> "XTRA", to |-> len])
  /\ given' = [given EXCEPT !.file = len]
  /\ UNCHANGED <<gps_conf, sap_conf, hosts, update, work, mdm, ulp, toldCaps>>

\* Too many certificates, or one too long: nothing is installed.
loc_eng_agps_install_certificates(certs, length) ==
  /\ Calls("certs")
  /\ IF certs = <<>> \/ Len(certs) > Cardinality(WritableMask) \/ length > MaxCertLen
     THEN UNCHANGED <<msgs, given>>
     ELSE /\ msgs' = Post(msgs, [set |-> "CERTS", to |-> certs])
          /\ given' = [given EXCEPT !.slots =
               [s \in CertSlots |-> IF s \notin WritableMask THEN @[s]
                                    ELSE LET i == Cardinality(WritableMask \cap 0 .. s)
                                         IN IF i <= Len(certs) THEN certs[i] ELSE "none"]]
  /\ UNCHANGED <<gps_conf, sap_conf, hosts, update, work, mdm, ulp, toldCaps>>

-----------------------------------------------------------------------------
(* The modem restarts, with its lock and certificates.                     *)

ModemDown ==
  /\ mdm.up /\ spare.restarts > 0
  /\ mdm' = [mdm EXCEPT !.up = FALSE, !.parts = <<>>, !.orbits = <<>>,
                        !.has = [k \in Settings |-> IF k = "GPS_LOCK" THEN @[k] ELSE Unset]]
  /\ spare' = [spare EXCEPT !.restarts = @ - 1]
  /\ UNCHANGED <<gps_conf, sap_conf, hosts, update, msgs, work, ulp, toldCaps, given>>

ModemUp ==
  /\ ~mdm.up
  /\ mdm' = [mdm EXCEPT !.up = TRUE] /\ msgs' = Post(msgs, [set |-> "UP"])
  /\ UNCHANGED <<gps_conf, sap_conf, hosts, update, work, ulp, toldCaps, given, spare>>

ConfigNext ==
  \/ TakeSetting \/ TakeSuplMode \/ TakeConstellation \/ TakeSetCapabilities
  \/ TakeInit \/ TakeEngineUp \/ TakeData
  \/ Compose \/ PostComposed \/ SendPart \/ SendCert
  \/ loc_eng_configuration_update \/ TellChange \/ RestoreConf
  \/ \E s \in Servers, host \in {"h1", "NONE"} : loc_eng_set_server_proxy(s, host)
  \/ loc_init \/ loc_cleanup
  \/ \E len \in FileLens : loc_eng_xtra_inject_data(len)
  \/ \E certs \in CertLists, length \in {1, MaxCertLen + 1} :
       loc_eng_agps_install_certificates(certs, length)
  \/ ModemDown \/ ModemUp

ConfigSpec == ConfigInit /\ [][ConfigNext]_cfgVars

-----------------------------------------------------------------------------
Settled == mdm.up /\ msgs = <<>> /\ Idle(work) /\ update = NoUpdate

Meant(k) ==
  CASE k = "SUPL_VER" -> <<suplVersion(given.conf.SUPL_VER)>>
    [] k \in {"LPP_PROFILE", "A_GLONASS"} -> <<given.conf[k]>>
    [] k = "SENSOR_CONTROL" -> <<sensorUse(sap_conf)>>
    [] k = "SENSOR_PROPERTIES" -> IF sap_conf.properties = {} THEN Unset ELSE <<sap_conf.properties>>
    [] k = "SENSOR_PERF" -> <<sap_conf.perf>>
    [] k = "XTRA_VERSION_CHECK" -> <<xtraCheck(given.conf.XTRA_VERSION_CHECK)>>
    [] k \in Servers -> IF k = "SUPL_SERVER" /\ given.hosts[k] # Unset THEN <<serverUrl(Head(given.hosts[k]))>>
                         ELSE given.hosts[k]
    [] k = "GPS_LOCK" -> given.lock

\* When everything has been handled the modem is configured as the framework said last, however
\* updates, calls, the configuration posted at the start and restarts of the modem crossed; ULP
\* knows what the carrier allows now, and the framework that the modem reports measurements.
ConfigArrives ==
  Settled =>
    /\ \A k \in Settings : mdm.has[k] = Meant(k)
    /\ ulp \cap SuplModes = given.conf.CAPABILITIES \cap given.conf.SUPL_MODE
    /\ ("MEASUREMENTS" \in toldCaps) = mdm.measures

\* A file the modem has every part of is a file as it was injected, whatever parts it refused
\* before; and when everything has been handled the certificates lie in the writable slots, in
\* their order, and nothing else does, however often some were installed.
DataArrives ==
  /\ mdm.orbits = <<>> \/ \E len \in FileLens : mdm.orbits = [k \in 1 .. len |-> <<len, k>>]
  /\ Settled => mdm.slots = given.slots

=============================================================================
