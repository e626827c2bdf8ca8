---------------------------- MODULE ControlUsage -----------------------------
(***************************************************************************)
(* What the usage texts of conmon_audinate_controller.c promise, apart     *)
(* from the code that reads the words: which lines are right, and which    *)
(* setting a word asks for.                                                *)
(***************************************************************************)
EXTENDS ControlMessages

CONSTANTS
  Numerals,  \* texts of the numbers of 16 bits
  Addresses, \* texts of addresses, of which 0.0.0.0 is none
  Hexes,     \* texts of the form 0xXX
  Ids,       \* texts of identifiers
  Names      \* any other text

\* The numbers that the usage texts and the code name.
Literals ==
  {<<"0", 0>>, <<"1", 1>>, <<"2", 2>>, <<"3", 3>>, <<"69", 69>>,
   <<"44100", 44100>>, <<"48000", 48000>>, <<"88200", 88200>>, <<"96000", 96000>>,
   <<"176400", 176400>>, <<"192000", 192000>>,
   <<"-6", -6>>, <<"-12", -12>>, <<"-24", -24>>, <<"-48", -48>>, <<"pcm24", 0>>, <<"raw32", 0>>}

Unsigned8  == 0 .. 255
Unsigned16 == 0 .. 65535

IsAddress(v) == Len(v) = 4 /\ \A i \in 1 .. 4 : v[i] \in Unsigned8

\* The texts are what they are called, as the C library and parse_id64 read them.
ASSUME ReadingAssumption ==
  /\ \A l \in Literals : atoi(l[1]) = l[2]
  /\ \A t \in Numerals : t # "" /\ atoi(t) \in Unsigned16 /\ (t # "0" => atoi(t) # 0)
  /\ \A t \in Addresses : IsAddress(quad(t)) /\ quad(t) # NoAddress
  /\ \A t \in Hexes : Begins(t, "0x")
  /\ Begins("inetd_enable", "inetd_e") /\ Begins("inetd_disable", "inetd_d")
  /\ \A k \in PrefixKeys("clocking", 1) : Behind(<<"reload">>, k) = {}
  /\ \A t \in Ids : parse_id64(t) # Invalid
  /\ "" \notin Names

\* A line is a sequence of words of up to three texts.  A text begins with itself, and sscanf
\* reads at most four numbers of it.  The text of an identifier is given by its characters.
Line(args) ==
  /\ Len(args) \in Nat /\ args = [i \in 1 .. Len(args) |-> args[i]]
  /\ \A i \in DOMAIN args :
       /\ Len(args[i]) \in 1 .. 3
       /\ \A k \in 1 .. Len(args[i]) :
            /\ Begins(args[i][k], args[i][k])
            /\ IF k = 2 /\ args[i][1] \in IdKeys
                 THEN args[i][k] \in Seq(1 .. 255)
                 ELSE quad(args[i][k]) \in Seq(Int) /\ Len(quad(args[i][k])) <= 4

Keyed(key, texts) == {<<key, t>> : t \in texts}
Plain(texts) == {<<t>> : t \in texts}
One(words) == {<<w>> : w \in words}

\* The right lines, from the fourth word on, as the usage texts print them; up to two devices.
\* What a text has in brackets may be left out, but for the brackets around the names that a
\* subdomain may have.  That a command without words is a query the handlers print, not the texts.
Usage(cmd) ==
  CASE cmd = "interface" ->
         {<<>>} \cup (Plain({"redundancy"}) \X Plain(Bools))
           \cup (Plain(Numerals) \X Plain({"dhcp"}))
           \cup (Plain(Numerals) \X Plain({"ll", "ll_delay"}) \X Plain(Bools))
           \cup (Plain(Numerals) \X Plain({"static"}) \X Plain(Addresses) \X Plain(Addresses)
                   \X Plain(Addresses) \X Plain(Addresses) \X Keyed("domain", Names))
    [] cmd = "switch_vlan"   -> {<<>>} \cup One(Keyed("id", Numerals))
    [] cmd = "upgrade"       -> Keyed("server", Addresses) \X Keyed("port", Numerals)
                                  \X Keyed("path", Names)
    [] cmd = "upgrade3"      ->
         {<<<<"query">>>>}
           \cup {<<s, p>> \o l \o f \o m :
                   s \in Plain({"local"}) \cup Keyed("tftp", Addresses)
                           \cup {<<"tftp", a, n>> : a \in Addresses, n \in Numerals \ {"0"}},
                   p \in Keyed("path", Names), l \in {<<>>} \cup One(Keyed("len", Numerals)),
                   f \in {<<>>} \cup One(Keyed("mf", Ids)),
                   m \in {<<>>} \cup One(Keyed("model", Ids))}
    [] cmd = "clear_config"  -> {<<>>} \cup One(Plain({"keep_ip", "all", "query"}))
    [] cmd = "gpio"          -> {<<>>} \cup One(Plain({"query"}))
                                  \cup (Keyed("mask", Hexes) \X Keyed("val", Hexes))
                                  \cup (Plain({"output"}) \X Keyed("mask", Hexes)
                                          \X Keyed("val", Hexes))
    [] cmd = "clocking"      ->
         {<<>>} \cup One(Keyed("src", {"int", "bnc", "aes"}) \cup Keyed("subdomain", Names)
                           \cup Plain({"reload"})
                           \cup UNION {Keyed(k, Bools) :
                                         k \in {"pref", "udelay", "enabled", "slave_only"}})
    [] cmd = "uclocking"     -> {<<>>} \cup One(Keyed("enabled", Bools) \cup Plain({"reload"}))
    [] cmd = "igmp"          -> {<<>>} \cup One(Keyed("vers", {"1", "2", "3"}))
    [] cmd = "ifstats"       -> {<<>>} \cup One(Plain({"clear"}))
    [] cmd = "srate"         -> {<<>>} \cup One(Keyed("rate", {"44100", "48000", "88200",
                                                              "96000", "176400", "192000"}))
    [] cmd = "enc"           -> {<<>>} \cup One(Keyed("enc", Numerals \cup {"0", "pcm24",
                                                                                      "raw32"}))
    [] cmd = "pullup"        -> {<<>>} \cup (Keyed("val", {"0", "+4.1667", "+0.1", "-0.1", "-4.0"})
                                               \X Keyed("subdomain", Names))
    [] cmd = "edk"           ->
         {<<>>} \cup One(Keyed("rev", {"other", "red", "green"})
                           \cup Keyed("pad", {"0", "-6", "-12", "-24", "-48"})
                           \cup Keyed("dig", {"spdif", "aes", "tos"})
                           \cup Keyed("src", {"sync", "async"}))
    [] cmd = "sysreset"      -> One(Keyed("mode", {"soft", "factory"}))
    [] cmd = "access"        -> {<<>>} \cup One(Keyed("mode", {"enable", "disable", "inetd_enable",
                                                              "inetd_disable"}))
    [] cmd = "errthres"      -> {<<>>} \cup (Keyed("thres", Numerals) \X Keyed("win", Numerals)
                                               \X Keyed("reset", Numerals))
    [] cmd = "metering"      -> {<<>>} \cup One(Keyed("rate", Numerals))
    [] cmd = "serial"        ->
         {<<>>} \cup (Keyed("index", Numerals) \X Keyed("speed", Numerals)
                        \X Keyed("bits", {"7", "8"})
                        \X Keyed("parity", {"none", "odd", "even"})
                        \X Keyed("stop", {"0", "1", "2"}))
    [] cmd = "haremote"      -> {<<>>} \cup One(Keyed("mode", {"all", "none", "slot_db9",
                                                              "network_slot", "network_db9"}))
    [] cmd = "ptp_logging"   -> {<<>>} \cup One(Keyed("enabled", Bools))
    [] cmd = "name_id"       ->
         UNION {[1 .. n -> Keyed("name", Names) \cup Keyed("id", {t \in Names : Scans("id", t)})
                             \cup Keyed("uuid", {t \in Names : Scans("uuid", t)})] : n \in 0 .. 2}
    [] cmd \in Queries       -> {<<>>}
    [] OTHER                 -> {}

\* The lines that a usage text prints as right and the handler refuses: the words that
\* clear_config, gpio and name_id print in brackets are needed, reload is printed by the
\* handler of uclocking as one of clocking's, and 0 is an <n> that enc takes for no number.
Misprinted(cmd) ==
  CASE cmd = "clear_config" -> {<<>>}
    [] cmd = "gpio"         -> {<<>>} \cup (Keyed("mask", Hexes) \X Keyed("val", Hexes))
    [] cmd = "clocking"     -> {<<<<"reload">>>>}
    [] cmd = "enc"          -> {<<<<"enc", "0">>>>}
    [] cmd = "name_id"      -> {<<>>}
    [] OTHER                -> {}

-----------------------------------------------------------------------------
(* The setting that a word asks for. *)

NumberKeys  == {"index", "id", "port", "vers", "pad", "thres", "win", "reset", "speed", "bits",
                "stop", "len"}
AddressKeys == {"address", "netmask", "dns_server", "gateway", "server", "tftp"}

\* The words of a line, each with the name that the usage text gives it.
Named(cmd, args) ==
  CASE cmd = "interface" /\ Len(args) >= 4 ->
         {<<"static">>} \cup
         {<<<<"index", "", "address", "netmask", "dns_server", "gateway">>[i], args[i][1]>> :
            i \in DOMAIN args \ ({2} \cup 7 .. Len(args))}
         \cup {args[i] : i \in DOMAIN args \cap {7}}
    [] cmd = "interface" /\ Len(args) \in 2 .. 3 ->
         IF args[1] = <<"redundancy">> /\ args[2][1] \in Bools
           THEN {args[1], <<"BOOL", args[2][1]>>}
         ELSE {<<"index", args[1][1]>>, args[2]}
              \cup {<<"BOOL", args[i][1]>> : i \in DOMAIN args \cap {3}}
    [] cmd = "upgrade3" ->
         UNION {CASE args[i] \in Plain({"local", "query"}) -> {}
                  [] args[i][1] = "tftp" ->
                       {<<"tftp", args[i][2]>>,
                        <<"port", IF Len(args[i]) = 3 THEN args[i][3] ELSE "69">>}
                  [] OTHER -> {args[i]} : i \in DOMAIN args}
    [] cmd = "name_id" -> {<<i, args[i]>> : i \in DOMAIN args}
    [] OTHER -> {args[i] : i \in DOMAIN args}

\* What of the name of a value is compared with a text.
Compared(cmd, name) ==
  CASE cmd = "access" /\ name = "inetd_enable"  -> "inetd_e"
    [] cmd = "access" /\ name = "inetd_disable" -> "inetd_d"
    [] OTHER                                    -> name

\* The value of a setting means what the text of its word says.
Means(cmd, key, text, value) ==
  IF cmd = "name_id" THEN value = text
  ELSE CASE key \in NumberKeys \cup {"rate"} -> value = atoi(text)
         [] key \in AddressKeys             -> value = quad(text)
         [] key \in {"mask", "val"} /\ cmd = "gpio" -> value = hex(text)
         [] key \in IdKeys                  -> Writes(text, value)
         [] key = "enc"                     -> value = (CASE text = "pcm24" -> 24
                                                          [] text = "raw32" -> 4864
                                                          [] OTHER -> atoi(text))
         [] OTHER                           -> Begins(text, Compared(cmd, value))

\* A setting of a message is one that this word asks for.
AskedBy(cmd, word, setting) ==
  /\ Len(setting) = Len(word) /\ setting[1] = word[1]
  /\ Len(word) = 2 => Means(cmd, word[1], word[2], setting[2])

\* The setting whose word is not read: serial takes the whole of "index=val" for its number,
\* which makes it 0.
Unread(cmd) == IF cmd = "serial" THEN {"index"} ELSE {}

\* A message asks for all that a line does, and for no more, but for what is not read.
Asked(cmd, args, body) ==
  /\ \A w \in Named(cmd, args) : w[1] \in Unread(cmd) \/ \E s \in body : AskedBy(cmd, w, s)
  /\ \A s \in body : s[1] \in Unread(cmd) \/ \E w \in Named(cmd, args) : AskedBy(cmd, w, s)

\* What a setting is that no word has asked for.
IsDefault(cmd, setting) ==
  \/ cmd \in {"gpio", "upgrade"} /\ setting[1] \in {"mask", "val", "port"} /\ setting[2] = 0
  \/ cmd = "interface" /\ setting[1] \in {"dns_server", "gateway"} /\ setting[2] = NoAddress

\* A message sets nothing that no word of the line has asked for; the words are as Read has
\* them, or whole.
OnlyAsked(cmd, args, body) ==
  \A s \in body : \/ IsDefault(cmd, s)
                  \/ s[1] \in Unread(cmd)
                  \/ \E w \in Named(cmd, args) : AskedBy(cmd, w, s)

\* Every number of a line fits its setting, and the last byte of an address its byte; the
\* server of an upgrade3 is an address, for what inet_addr cannot read is taken for one.
Number16s(cmd) ==
  (NumberKeys \ {"pad", "speed", "bits", "stop", "len"}) \cup {"enc"}
    \cup (IF cmd = "metering" THEN {"rate"} ELSE {})

Fits(cmd, args) ==
  cmd = "name_id" \/
  \A w \in {v \in Named(cmd, args) : Len(v) = 2} :
    /\ w[1] \in Number16s(cmd) => atoi(w[2]) \in Unsigned16
    /\ cmd = "srate" => atoi(w[2]) \in 0 .. Width32 - 1
    /\ w[1] \in AddressKeys /\ Len(quad(w[2])) = 4 => quad(w[2])[4] \in Unsigned8
    /\ w[1] = "tftp" => IsAddress(quad(w[2]))

=============================================================================
