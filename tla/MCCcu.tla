------------------------------- MODULE MCCcu -------------------------------
(* An instance of Ccu for TLC. *)
EXTENDS Ccu, TLC

CONSTANTS c1, c2, i1, i2, s1, s2, k1, k2

-----------------------------------------------------------------------------
\* Three devices with a channel each, and one with a maintenance channel; C is
\* loaded from the start and only goes.
MCAddresses == {"A", "A0", "A1", "B", "B1", "C", "C1"}
MCDeviceOf == [a \in {"A", "A0", "A1"} |-> "A"] @@ [a \in {"B", "B1"} |-> "B"] @@
              [a \in {"C", "C1"} |-> "C"]
MCAddressesOf == "ta" :> {"A", "A0", "A1"} @@ "tb" :> {"B", "B1"} @@ "tc" :> {"C", "C1"}
MCMaintenance == "A" :> "A0"
MCTypeOf == [a \in {"A", "A0", "A1"} |-> "HM-LC-Bl1"] @@ [a \in {"B", "B1"} |-> "HmIP-PS"] @@
            [a \in {"C", "C1"} |-> "HmIP-BROLL-2"]
MCPrefix == "HM-LC-Bl1" :> "HM-" @@ "HmIP-PS" :> "HmIP-" @@ "HmIP-BROLL-2" :> "HmIP-"
MCMatches == "HM-LC-Bl1" :> <<"HM-LC-Bl1">> @@ "HmIP-PS" :> <<"HmIP-PS">> @@
             "HmIP-BROLL-2" :> <<"HmIP-BROLL">>

Par(type, write, internal, min, max, default) ==
  [type |-> type, write |-> write, internal |-> internal, min |-> min, max |-> max,
   spelled |-> FALSE, special |-> {9}, labels |-> <<"off", "on">>, default |-> default]
Spelled(type, min, max, default) ==
  [Par(type, TRUE, FALSE, min, max, default) EXCEPT !.spelled = TRUE]
Text(n)     == [type |-> "text", of |-> n]
HalfText(n) == [type |-> "fractionText", of |-> n]
AndHalf(n)  == [type |-> "fraction", of |-> n]
MCParamDesc ==
  "A" :> <<>> @@ "B" :> <<>> @@
  "A0" :> ("VALUES" :> ("UNREACH" :> Par("BOOL", FALSE, FALSE, 0, 1, Bool(FALSE)) @@
                        "STICKY"  :> Par("BOOL", TRUE, FALSE, 0, 1, Bool(FALSE)))) @@
  "A1" :> ("VALUES" :> ("STATE" :> Par("BOOL", TRUE, FALSE, 0, 1, Bool(FALSE)) @@
                        "LEVEL" :> Par("FLOAT", TRUE, FALSE, 0, 2, Real(0)) @@
                        "STOP"  :> Par("ACTION", TRUE, TRUE, 0, 1, Bool(FALSE)) @@
                        "TEXT"  :> Spelled("STRING", NoValue, NoValue, Label("")) @@
                        "MODE"  :> Par("ENUM", TRUE, FALSE, 0, 1, Label("on"))) @@
           "MASTER" :> ("TIME" :> Par("INTEGER", TRUE, FALSE, 0, 3, Integer(1)) @@
                        "WEIGHT" :> Spelled("FLOAT", 0, 2, Text(1))) @@
           "LINK"   :> ("PEER" :> Par("INTEGER", TRUE, FALSE, 0, 3, Integer(0)))) @@
  "B1" :> ("VALUES" :> ("STATE" :> Par("BOOL", FALSE, FALSE, 0, 1, Bool(FALSE)))) @@
  "C" :> <<>> @@
  "C1" :> ("VALUES" :> ("LEVEL" :> Par("FLOAT", TRUE, FALSE, 0, 2, Real(0)) @@
                        "LEVEL_2" :> Par("FLOAT", TRUE, FALSE, 0, 2, Real(0)) @@
                        "ACTIVITY_STATE" :> Par("INTEGER", FALSE, FALSE, 0, 3, Integer(0))) @@
           "MASTER" :> ("TIME" :> Par("INTEGER", TRUE, FALSE, 0, 3, Integer(1)) @@
                        "KIND" :> Par("ENUM", TRUE, FALSE, 0, 1, Label("on"))))

Put(a, kind, set) == [address |-> a, kind |-> kind, set |-> set]
MCPuts ==
  {Put("A1", "VALUES", "STATE" :> Bool(TRUE) @@ "STOP" :> Bool(TRUE)),
   Put("A1", "VALUES", "LEVEL" :> HalfText(-2) @@ "MODE" :> Text(1)),
   Put("A1", "VALUES", "LEVEL" :> Real(5) @@ "MODE" :> Label("off")),
   Put("A1", "MASTER", "TIME" :> AndHalf(2) @@ "WEIGHT" :> HalfText(3)),
   Put("A1", "LINK", "PEER" :> Integer(2)),
   Put("B1", "VALUES", "STATE" :> Bool(TRUE)),
   Put("C1", "VALUES", "LEVEL" :> Real(1) @@ "LEVEL_2" :> Real(2)),
   Put("C1", "MASTER", "TIME" :> Label("long") @@ "OLD" :> Integer(1)),
   Put("C1", "MASTER", "TIME" :> Integer(7) @@ "KIND" :> Label("off"))}
One(a, key, value) == [address |-> a, key |-> key, value |-> value]
Pair(key, n) == [key |-> key, level |-> Real(n)]
MCSets == {One("C1", "COMBINED_PARAMETER", <<Pair("L", 2), Pair("X", 1)>>),
           One("A1", "LEVEL", Integer(9)), One("A1", "TEXT", AndHalf(-1)),
           One("A0", "STICKY", Bool(FALSE))}
MCLinkSets == {"PEER" :> Integer(2)}

-----------------------------------------------------------------------------
\* What a client may know already: nothing, or an old version and a foreign device.
MCCopies == {<<>>, "A" :> 0 @@ "A1" :> 1 @@ "X" :> 1}
MCRelated == c1 :> {c1, c2} @@ c2 :> {c1, c2}

Rule(method, times, delay, then) ==
  [method |-> method, times |-> times, delay |-> delay, then |-> then]
MCRules == {Rule("*", -1, FALSE, "hang"), Rule("setValue", 1, TRUE, "call"),
            Rule("ping", 1, TRUE, "hang"), Rule("*", 2, FALSE, "fault")}

-----------------------------------------------------------------------------
Web(method, sid, second, arg) ==
  [method |-> method, sid |-> sid, second |-> second, arg |-> arg]
Plain(method, arg) == <<Web(method, i1, NoId, arg)>>
Script(fn, arg) == [fn |-> fn] @@ arg
MCSessionBodies ==
  {<<Web("Session.login", NoId, NoId, <<>>)>>, <<Web("login.cgi", NoId, NoId, <<>>)>>,
   <<Web("Session.logout", NoId, i1, <<>>), Web("Room.getAll", i1, NoId, <<>>)>>,
   <<Web("Session.renew", NoId, i1, <<>>)>>,
   <<Web("tarfile.cgi", i2, i1, <<>>)>>, <<Web("tarfile.cgi", NoId, NoId, <<>>)>>,
   <<Web("Room.getAll", NoId, i2, <<>>)>>}
MCStateBodies ==
  {Plain("SysVar.createBool", [name |-> "v", value |-> 1]),
   Plain("SysVar.set", [name |-> "v", value |-> 2]),
   Plain("SysVar.deleteSysVarByName", [name |-> "v"]),
   Plain("Program.execute", [id |-> 1000]),
   Plain("Program.setActive", [id |-> 1000, active |-> TRUE]),
   Plain("Device.setName", [address |-> "a1", name |-> "name"]),
   Plain("Device.listAllDetail", <<>>),
   Plain("cp_maintenance.cgi", <<>>), Plain("cp_security.cgi", <<>>),
   Plain("ReGa.runScript", Script("accept_device_in_inbox", [address |-> "A1"])),
   Plain("ReGa.runScript", Script("acknowledge_message", [id |-> 5000])),
   Plain("ReGa.runScript", Script("set_program_state", [id |-> 1000, active |-> FALSE])),
   Plain("ReGa.runScript", Script("State", [name |-> "v", value |-> 3])),
   Plain("ReGa.runScript", Script("set_system_variable", [name |-> "v", value |-> 4])),
   Plain("run-script.cgi", Script("create_backup_start", <<>>)),
   Plain("run-script.cgi", Script("create_backup_status", <<>>)),
   Plain("run-script.cgi", Script("trigger_firmware_update", <<>>))}
MCInterfaceBodies ==
  {Plain("Interface.setValue", One("A1", "STATE", Bool(TRUE))),
   Plain("Interface.getParamset", [address |-> "A1", key |-> "VALUES"]),
   Plain("Interface.putParamset", Put("A1", "VALUES", "MODE" :> Label("on"))),
   Plain("Interface.setLinkInfo", [sender |-> "A1", receiver |-> "B1", name |-> "web"]),
   Plain("Interface.suppressServiceMessages", [address |-> "A0", key |-> "UNREACH", on |-> TRUE]),
   Plain("Interface.init", [client |-> c1, on |-> TRUE]),
   Plain("Interface.init", [client |-> c1, on |-> FALSE])}
MCBodies == [session |-> MCSessionBodies, api |-> MCStateBodies, iface |-> MCInterfaceBodies]
MCPublic == {"Session.login"}
MCLevel ==
  [m \in {"Session.login", "Session.logout"} |-> "NONE"] @@
  [m \in {Head(body).method : body \in UNION Range(MCBodies)} |-> "GUEST"]
MCEndpoints ==
  {"tarfile.cgi", "run-script.cgi", "cp_maintenance.cgi", "cp_security.cgi", "login.cgi"}
MCUnguarded == {"login.cgi"}
MCNewTypes == "SysVar.createBool" :> "BOOL"

MCUpper == [a \in MCAddresses |-> a] @@ "a1" :> "A1"
MCBuiltin == <<[id |-> 39, name |-> "presence"]>>

-----------------------------------------------------------------------------
Config(interfaces, tls, web) ==
  [interfaces |-> interfaces, tls |-> tls, script |-> TRUE, bin |-> TRUE, web |-> web,
   discovery |-> web]
MCConfigs == {Config(<<"rf", "ip">>, TRUE, TRUE), Config(<<>>, TRUE, TRUE), Config(<<>>, FALSE, FALSE)}

-----------------------------------------------------------------------------
Budget(store, link, cat, fault, life, session, api, iface, state) ==
  [store |-> store, link |-> link, cat |-> cat, fault |-> fault, life |-> life,
   session |-> session, api |-> api, iface |-> iface, state |-> state, virtual |-> 0]
Virtual(n) == [Budget(0, 0, 0, 0, 0, 0, 0, 0, 0) EXCEPT !.virtual = n]

\* Slots of the web server, and of held calls, are interchangeable.
Sym == Permutations({s1, s2}) \cup Permutations({k1, k2})

\* One part alone and deep, then parts together.
MCBudgets ==
  {Budget(3, 0, 0, 0, 0, 0, 0, 0, 0), Budget(0, 2, 0, 0, 0, 0, 0, 0, 0),
   Budget(0, 0, 3, 0, 0, 0, 0, 0, 0), Budget(0, 0, 0, 3, 2, 0, 0, 0, 0),
   Budget(0, 0, 0, 0, 0, 3, 0, 0, 0), Budget(0, 0, 0, 0, 0, 0, 2, 0, 0),
   Budget(0, 0, 0, 0, 0, 0, 1, 0, 1), Budget(2, 0, 0, 0, 1, 0, 0, 0, 0),
   Budget(1, 0, 0, 0, 4, 0, 0, 0, 0), Budget(0, 0, 1, 0, 3, 0, 0, 0, 0),
   Budget(1, 0, 1, 0, 0, 0, 0, 0, 0), Budget(1, 1, 0, 0, 0, 0, 0, 1, 0),
   Budget(0, 0, 1, 0, 0, 0, 0, 1, 0), Virtual(4)}

\* For what happens at last.
MCLiveBudgets ==
  {Budget(0, 0, 0, 3, 2, 0, 0, 0, 0), Budget(0, 0, 2, 0, 0, 0, 0, 0, 0),
   Budget(0, 0, 1, 0, 3, 0, 0, 0, 0)}
=============================================================================
