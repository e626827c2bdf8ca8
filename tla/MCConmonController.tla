------------------------- MODULE MCConmonController --------------------------
(* TLC instances of ConmonController: what is typed, and what the C library reads of it. *)
EXTENDS ConmonController

\* For the 2^32 of a number of 32 bits; 1092676 is 44100 more.
MCWidth32 == 1048576

MCatoi(text) ==
  LET read == Literals \cup {<<"24", 24>>, <<"65535", 65535>>, <<"65537", 65537>>,
                             <<"70000", 70000>>, <<"-7", -7>>, <<"7", 7>>, <<"8", 8>>,
                             <<"1092676", MCWidth32 + 44100>>}
  IN  IF \E n \in read : n[1] = text THEN (CHOOSE n \in read : n[1] = text)[2] ELSE 0
MChex(text) == IF text \in {"0x1f", "1f"} THEN 31 ELSE 0
MCquad(text) ==
  CASE text = "10.0.0.1"     -> <<10, 0, 0, 1>>
    [] text = "255.255.0.255" -> <<255, 255, 0, 255>>
    [] text = "10.0.0.256"   -> <<10, 0, 0, 256>>
    [] text = "10.0.1.66051" -> <<10, 0, 1, 66051>>
    [] text = "10.0.256.1"   -> <<10, 0, 256, 1>>
    [] text = "0.0.0.0"      -> <<0, 0, 0, 0>>
    [] text = "10.0.1"       -> <<10, 0, 1>>
    [] OTHER                 -> <<>>
MCBegins(text, p) ==
  text = p \/ <<text, p>> \in {<<"truely", "true">>, <<"intern", "int">>, <<"0x1f", "0x">>,
                              <<"enabled", "enable">>, <<"softly", "soft">>, <<"redder", "red">>,
                              <<"inetd_enable", "inetd_e">>, <<"inetd_disable", "inetd_d">>,
                              <<"inetd_exit", "inetd_e">>, <<"inetd_d", "inetd_d">>}
\* Words that only begin with a key, or have another character than '=' behind it.
MCBehind(word, key) ==
  {t[3] : t \in {u \in {<<<<"threshold", "3">>, "thres", "old=3">>, <<<<"window", "3">>, "win", "ow=3">>,
                        <<<<"resets">>, "reset", "">>, <<<<"padding", "-6">>, "pad", "ing=-6">>,
                        <<<<"src:int">>, "src", "int">>, <<<<"modes", "soft">>, "mode", "=soft">>,
                        <<<<"mode:enable">>, "mode", "enable">>,
                        <<<<"valid", "0">>, "val", "d=0">>, <<<<"version">>, "vers", "on">>,
                        <<<<"domain:lan">>, "domain", "lan">>, <<<<"domains">>, "domain", "">>,
                        <<<<"ports", "1">>, "port", "=1">>, <<<<"paths", "lan">>, "path", "=lan">>,
                        <<<<"enabled:true">>, "enabled", "true">>} : u[1] = word /\ u[2] = key}}
MCScans(what, text) == <<what, text>> \in {<<"id", "0a:1">>, <<"uuid", "0a:0b">>}

MCNumerals  == {"1", "3", "65535"}
MCAddresses == {"10.0.0.1", "255.255.0.255"}
MCHexes     == {"0x1f"}
MCNames     == {"lan", "0a:1", "0a:0b"}
Written     == {<<48, 97, 65, 48>>, <<48, 120, 48, 97, 32, 48, 48>>, <<9, 97, 48, 97, 97>>,
                <<34, 97, 65, 34>>, <<39, 34, 48, 39>>}

-----------------------------------------------------------------------------
(* What is typed: for each command a few words at each place, right and wrong. *)

Bool      == {"true", "false", "truely", "no"}
Num       == {"1", "65537", ""}
Addr      == {"10.0.0.1", "10.0.1.66051", "10.0.256.1"}
\* All the texts of up to four characters that may make an identifier of two bytes.
IdTexts   == UNION {[1 .. n -> {48, 97, 120, 32, 34}] : n \in 0 .. 4}

Places(cmd) ==
  CASE cmd = "interface"    ->
         <<Plain({"1", "65537", "redundancy"}), Plain({"static", "dhcp", "ll", "true"}),
           Plain({"10.0.0.1", "0.0.0.0", "true"}), Plain({"255.255.0.255", "10.0.1"}),
           Plain(Addr), Plain({"10.0.0.1"}), Keyed("domain", {"lan", ""}) \cup Plain({"domain:lan", "domains"})>>
    [] cmd = "switch_vlan"  -> <<Keyed("id", Num) \cup Plain({"id"}), Plain({"more"})>>
    [] cmd = "upgrade"      -> <<Keyed("server", Addr \cup {"10.0.0.256"}),
                                Keyed("port", Num) \cup Keyed("ports", {"1"}),
                                Keyed("path", {"lan", ""}) \cup Keyed("paths", {"lan"}),
                                Plain({"more"})>>
    [] cmd = "clear_config" -> <<Plain({"keep_ip", "all", "query", "none"}), Plain({"all"})>>
    [] cmd = "gpio"         -> <<Plain({"query", "output"}) \cup Keyed("mask", {"0x1f"}),
                                Keyed("mask", {"0x1f", "1f"}) \cup Keyed("val", {"0x1f"}),
                                Keyed("val", {"0x1f"}) \cup Keyed("mask", {"0x1f"})>>
    [] cmd = "clocking"     ->
         <<Keyed("src", {"int", "intern", "x"}) \cup Keyed("subdomain", {"lan", ""})
             \cup UNION {Keyed(k, Bool) : k \in {"pref", "udelay", "enabled", "slave_only"}}
             \cup Plain({"reload", "src:int", "enabled:true"}),
           Keyed("pref", {"true"})>>
    [] cmd = "uclocking"    -> <<Keyed("enabled", Bool) \cup Plain({"reload"}), Plain({"more"})>>
    [] cmd = "name_id"      -> LET word == Keyed("name", {"lan", ""}) \cup Keyed("id", {"0a:1"})
                                             \cup Keyed("uuid", {"0a:0b", "0a:1"})
                               IN  <<word, word>>
    [] cmd = "igmp"         -> <<Keyed("vers", Num \cup {"3", "70000"}) \cup Plain({"version"}), Plain({"more"})>>
    [] cmd = "ifstats"      -> <<Plain({"clear", "more"})>>
    [] cmd = "srate"        -> <<Keyed("rate", {"44100", "48000", "192000", "1092676", "1", ""})>>
    [] cmd = "enc"          -> <<Keyed("enc", {"24", "pcm24", "raw32", "65537", "0", "x", ""})>>
    [] cmd = "pullup"       -> <<Keyed("val", {"0", "+0.1", "x"}) \cup Keyed("subdomain", {"lan"})
                                  \cup Keyed("valid", {"0"}),
                                Keyed("subdomain", {"lan", ""}) \cup Keyed("val", {"0"})>>
    [] cmd = "edk"          -> <<Keyed("rev", {"red", "redder"}) \cup Keyed("pad", {"0", "-6", "-7"})
                                   \cup Keyed("dig", {"tos", "red"}) \cup Keyed("src", {"async"})
                                   \cup Keyed("padding", {"-6"}),
                                Keyed("pad", {"-6"})>>
    [] cmd = "sysreset"     -> <<Keyed("mode", {"soft", "softly", "factory", "x"})
                                  \cup Keyed("modes", {"soft"})>>
    [] cmd = "access"       -> <<Keyed("mode", {"enable", "enabled", "inetd_enable",
                                               "inetd_disable", "inetd_exit", "inetd_d", "x"})
                                  \cup Plain({"mode:enable"})>>
    [] cmd = "errthres"     -> <<Keyed("thres", Num) \cup Keyed("threshold", {"3"}),
                                Keyed("win", {"3", "70000"}) \cup Keyed("window", {"3"}),
                                Keyed("reset", {"1", "65537"}) \cup Keyed("win", {"1"})
                                  \cup Plain({"resets"})>>
    [] cmd = "metering"     -> <<Keyed("rate", Num), Plain({"more"})>>
    [] cmd = "serial"       -> <<Keyed("index", {"1", ""}), Keyed("speed", {"3", ""}),
                                Keyed("bits", {"7", "8"}), Keyed("parity", {"odd", "x"}),
                                Keyed("stop", {"1", "0"})>>
    [] cmd = "haremote"     -> <<Keyed("mode", {"all", "none", "network_slot", "x"})>>
    [] cmd = "ptp_logging"  -> <<Keyed("enabled", Bool)>>
    [] cmd = "upgrade3"     ->
         <<Plain({"local", "query"}) \cup Keyed("tftp", {"10.0.0.1", "0.0.0.0", "lan"})
             \cup {<<"tftp", "255.255.0.255", n>> : n \in {"69", "x"}},
           Keyed("path", {"lan"}) \cup Keyed("len", {"1"}),
           Keyed("len", {"1"}) \cup Keyed("mf", {<<48, 97, 65, 48>>}),
           Keyed("model", Written \cup {<<48, 97>>}), Keyed("model", {<<34, 97, 65, 34>>})>>
    [] cmd \in {"master", "dante_ready", "identify"} -> <<Plain({"more"})>>
    [] OTHER                -> <<>>

\* All that the words of the places make, of any length up to all of them.
LinesOf(places) ==
  LET Upto[n \in 0 .. Len(places)] ==
        IF n = 0 THEN {<<>>}
        ELSE {Append(a, w) : a \in {b \in Upto[n - 1] : Len(b) = n - 1}, w \in places[n]}
               \cup Upto[n - 1]
  IN  Upto[Len(places)]

Typed(devices, cmd, lines) ==
  {[device |-> d, cmd |-> cmd, args |-> a] : d \in devices, a \in lines}

Handled == {"interface", "switch_vlan", "upgrade", "upgrade3", "clear_config", "gpio", "clocking",
            "uclocking", "name_id", "igmp", "ifstats", "srate", "enc", "pullup", "edk",
            "sysreset", "access", "errthres", "metering", "serial", "haremote", "ptp_logging"}

MCDevices == {"amp", "localhost", "broadcast"}

MCArgvs ==
  UNION {Typed({"amp"}, c, LinesOf(Places(c))) : c \in Handled}
    \cup UNION {Typed(MCDevices, c, LinesOf(Places(c))) :
                  c \in {"master", "dante_ready", "identify", "unheard", "ptp_logging"}}
    \cup Typed({"amp"}, "upgrade3",
               {<<<<"local">>, <<"path", "lan">>, <<"mf", t>>>> : t \in IdTexts})
    \cup Typed({"amp"}, "-d", {<<>>}) \cup Typed({"amp"}, "local", {<<>>})

AllLines == Controls \cup Listeners

=============================================================================
