---------------------------- MODULE MCLocSession ----------------------------
(* Small instances of LocSession and LocConfig, which share the engine's   *)
(* thread and nothing this project asks about: a behaviour has one of them *)
(* only.  A session is used in five ways: calls that cross a crash,        *)
(* refused requests, single-shot fixes, and deletions or measurements      *)
(* beside the session.  The configuration is used in four: updates, the    *)
(* lock and servers, all of which cross a restart; files; certificates.    *)
EXTENDS LocSession, LocConfig

VARIABLE part

mcVars == <<vars, cfgVars, part>>

Nothing == [calls |-> 0, dels |-> 0, meas |-> 0, crashes |-> 0, refusals |-> 0, fixes |-> 0, single |-> FALSE]
MCWorlds == {[Nothing EXCEPT !.calls = 5, !.crashes = 2],
             [Nothing EXCEPT !.calls = 4, !.crashes = 1, !.refusals = 1],
             [Nothing EXCEPT !.calls = 4, !.fixes = 2, !.single = TRUE],
             [Nothing EXCEPT !.calls = 3, !.dels = 2, !.crashes = 1],
             [Nothing EXCEPT !.calls = 3, !.meas = 2, !.crashes = 1]}

\* Only deletions beside the session, and a modem that does not crash.
MCDeletions == {[Nothing EXCEPT !.calls = 2, !.dels = 2]}

NoEvent == [updates |-> 0, servers |-> 0, switches |-> 0, files |-> 0, certs |-> 0, restarts |-> 0,
            faults |-> 0]
MCCfgWorlds == {NoEvent, [NoEvent EXCEPT !.updates = 2],
                [NoEvent EXCEPT !.updates = 1, !.restarts = 1],
                [NoEvent EXCEPT !.servers = 2], [NoEvent EXCEPT !.servers = 1, !.restarts = 1],
                [NoEvent EXCEPT !.switches = 2, !.restarts = 1],
                [NoEvent EXCEPT !.files = 2, !.restarts = 1, !.faults = 1],
                [NoEvent EXCEPT !.certs = 2]}
MCQuiet == {NoEvent}
MCCertLists == {<<>>, <<"a">>, <<"b", "c">>, <<"a", "b", "c">>, <<"a", "b", "c", "a">>}

\* loc_default_parameters; the other texts change everything or one thing.
Default == [SUPL_VER |-> 65536, LPP_PROFILE |-> 0, A_GLONASS |-> 0, SUPL_MODE |-> SuplModes,
            GPS_LOCK |-> 0, CAPABILITIES |-> {"SCHEDULING", "MSB", "MSA"}, XTRA_VERSION_CHECK |-> 0]
Carrier == [Default EXCEPT !.SUPL_VER = 131072, !.LPP_PROFILE = 1, !.A_GLONASS = 1,
                           !.SUPL_MODE = {"MSA"}, !.GPS_LOCK = 3]
MCConfs == {Default, Carrier, [Carrier EXCEPT !.SUPL_MODE = SuplModes, !.LPP_PROFILE = 0]}
MCSapConfs == {[usage |-> 0, provider |-> 1, properties |-> {}, perf |-> "auto"],
               [usage |-> 1, provider |-> 2, properties |-> {"gyro"}, perf |-> "auto"]}

MCInit ==
  \/ part = "session" /\ Init /\ ConfigInit /\ spare = NoEvent
     /\ gps_conf = Default /\ sap_conf.usage = 0 /\ mdm.measures
  \/ part = "config" /\ ConfigInit
     /\ \/ spare = NoEvent
        \/ gps_conf = Default /\ sap_conf.usage = 1 /\ mdm.measures
     /\ Init /\ left = CHOOSE w \in Worlds : TRUE

Session(A) == part = "session" /\ A /\ UNCHANGED <<cfgVars, part>>
Config(A)  == part = "config" /\ A /\ UNCHANGED <<vars, part>>

MCNext == Session(Next) \/ Config(ConfigNext)
MCSpec == MCInit /\ [][MCNext]_mcVars
          /\ WF_mcVars(Session(Handle)) /\ WF_mcVars(Session(Deliver)) /\ WF_mcVars(Session(Return))
=============================================================================
