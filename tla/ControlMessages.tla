-------------------------- MODULE ControlMessages ---------------------------
(***************************************************************************)
(* What conmon_audinate_controller.c makes of its command line: parse_args *)
(* and the handlers of audinate_control_map, which build the body of a     *)
(* message.                                                                *)
(*                                                                         *)
(* A word of the command line is <<text>> or, written with a '=',          *)
(* <<key, text>>.  A body is the set of what the handler has set in it,    *)
(* each named as the usage text names it; the empty body is a query.  A    *)
(* handler is the set of the bodies that it builds of args, argv from its  *)
(* fourth word on, as Read has them: one body, or none when it prints its  *)
(* usage.                                                                  *)
(***************************************************************************)
EXTENDS Id64, FiniteSets

CONSTANTS
  atoi(_),      \* atoi, atol of a text: 0 if it is no number
  hex(_),       \* sscanf with %x of a text: 0 if it is no number
  quad(_),      \* sscanf with %d.%d.%d.%d of a text: what it has read, as many as it could
  Begins(_, _), \* strncmp: a text begins with another
  Behind(_, _), \* what follows a key that a word begins with, but for one character: {} if none
  Scans(_, _),  \* sscanf with the whole format of an instance id, of a uuid
  Width32       \* 2^32, more than TLC can count

ASSUME WidthAssumption == Width32 \in Nat /\ Width32 > 192000

U16(n) == n % 65536
U32(n) == n % Width32

Has(args, i, key) == i \in DOMAIN args /\ Len(args[i]) = 2 /\ args[i][1] = key
Text(args, i) == args[i][Len(args[i])]

When(condition, body) == IF condition THEN {body} ELSE {}
Query(args) == When(args = <<>>, {})

\* Word i has this key, and its text is, or begins with, one of the names.
Exactly(args, i, key, names) ==
  {{<<key, n>>} : n \in {m \in names : Has(args, i, key) /\ Text(args, i) = m}}
Choice(args, i, key, names) ==
  {{<<key, n>>} : n \in {m \in names : Has(args, i, key) /\ Begins(Text(args, i), m)}}
Number16(args, i, key) == {<<key, U16(atoi(Text(args, i)))>>}

Bools == {"true", "false"}

-----------------------------------------------------------------------------
(* Addresses are four bytes. *)

NoAddress == <<0, 0, 0, 0>>

\* Byte k of a number of 32 bits, and two bytes or-ed.
ByteOf(n, k) == (n \div 256 ^ k) % 256
Or(a, b) ==
  LET bit(k) == IF (a \div 2 ^ k) % 2 = 1 \/ (b \div 2 ^ k) % 2 = 1 THEN 2 ^ k ELSE 0
  IN  bit(0) + bit(1) + bit(2) + bit(3) + bit(4) + bit(5) + bit(6) + bit(7)

\* A bug in parse_address: it checks the second byte twice and not the third.
ParseAddressCheckingTwo(text) ==
  LET v == quad(text)
  IN  IF Len(v) < 4 \/ \E i \in 1 .. 2 : v[i] \notin 0 .. 255 THEN NoAddress
      ELSE <<Or(v[1], ByteOf(v[4], 3)), Or(v[2], Or(ByteOf(v[3], 1), ByteOf(v[4], 2))),
             Or(ByteOf(v[3], 0), ByteOf(v[4], 1)), ByteOf(v[4], 0)>>

\* The third byte is checked twice and the fourth never: what of it exceeds a byte is or-ed
\* into the others.
parse_address(text) ==
  LET v == quad(text)
  IN  IF Len(v) < 4 \/ \E i \in 1 .. 3 : v[i] \notin 0 .. 255 THEN NoAddress
      ELSE [i \in 1 .. 3 |-> Or(v[i], ByteOf(v[4], 4 - i))] \o <<ByteOf(v[4], 0)>>

\* inet_addr, of the C library, for a text in four parts: INADDR_NONE if it is no address.
inet_addr(text) ==
  LET v == quad(text)
  IN  IF Len(v) = 4 /\ \A i \in 1 .. 4 : v[i] \in 0 .. 255 THEN v ELSE <<255, 255, 255, 255>>

-----------------------------------------------------------------------------
(* The handlers, in the order of the source. *)

interface(args) ==
  LET index   == {<<"index", U16(atoi(args[1][1]))>>}
      address(i, name) ==
        {<<name, IF i \in DOMAIN args THEN parse_address(args[i][1]) ELSE NoAddress>>}
      static  == /\ Len(args) >= 4 /\ args[2] = <<"static">>
                 /\ parse_address(args[3][1]) # NoAddress
                 /\ parse_address(args[4][1]) # NoAddress
      domain  == IF Has(args, 7, "domain") /\ Text(args, 7) # ""
                   THEN {<<"domain", Text(args, 7)>>} ELSE {}
  IN  Query(args)
      \cup {{<<"redundancy">>, <<"BOOL", b>>} :
              b \in {c \in Bools : args = <<<<"redundancy">>, <<c>>>>}}
      \cup When(Len(args) = 2 /\ args[2] = <<"dhcp">>, index \cup {<<"dhcp">>})
      \cup {index \cup {<<h[1]>>, <<"BOOL", h[2]>>} :
              h \in {g \in {"ll", "ll_delay"} \X Bools :
                       Len(args) = 3 /\ args[2] = <<g[1]>> /\ args[3] = <<g[2]>>}}
      \cup When(static, index \cup {<<"static">>} \cup address(3, "address")
                          \cup address(4, "netmask") \cup address(5, "dns_server")
                          \cup address(6, "gateway") \cup domain)

switch_vlan(args) ==
  Query(args)
    \cup When(Len(args) = 1 /\ Has(args, 1, "id") /\ Text(args, 1) # "", Number16(args, 1, "id"))

upgrade(args) ==
  LET server == IF Has(args, 1, "server") THEN parse_address(Text(args, 1)) ELSE NoAddress
      port   == IF Has(args, 2, "port") THEN U16(atoi(Text(args, 2))) ELSE 0
  IN  When(Len(args) = 3 /\ Has(args, 3, "path") /\ server # NoAddress,
           {<<"server", server>>, <<"port", port>>, <<"path", Text(args, 3)>>})

clear_config(args) ==
  {{<<a>>} : a \in {b \in {"keep_ip", "all", "query"} : args = <<<<b>>>>}}

\* A query carries a mask and values of 0; so does an output whose words are not read.
gpio(args) ==
  LET value(i, key) == IF Has(args, i, key) /\ Begins(Text(args, i), "0x")
                         THEN hex(Text(args, i)) ELSE 0
  IN  When(args = <<<<"query">>>>, {<<"query">>})
      \cup When(Len(args) = 3 /\ args[1] = <<"output">>,
                {<<"output">>, <<"mask", value(2, "mask")>>, <<"val", value(3, "val")>>})

clocking(args) ==
  Query(args)
    \cup Choice(args, 1, "src", {"bnc", "aes", "int"})
    \cup Choice(args, 1, "pref", Bools) \cup Choice(args, 1, "udelay", Bools)
    \cup Choice(args, 1, "enabled", Bools) \cup Choice(args, 1, "slave_only", Bools)
    \cup When(Has(args, 1, "subdomain"), {<<"subdomain", Text(args, 1)>>})

uclocking(args) ==
  Query(args) \cup Exactly(args, 1, "enabled", Bools)
    \cup When(args # <<>> /\ args[1] = <<"reload">>, {<<"reload">>})

\* Any number of devices, each by one of three keys.
name_id(args) ==
  LET right(i) == \/ Has(args, i, "name") /\ Text(args, i) # ""
                  \/ Has(args, i, "id") /\ Scans("id", Text(args, i))
                  \/ Has(args, i, "uuid") /\ Scans("uuid", Text(args, i))
  IN  When(args # <<>> /\ \A i \in DOMAIN args : right(i), {<<i, args[i]>> : i \in DOMAIN args})

igmp(args) ==
  Query(args)
    \cup When(Has(args, 1, "vers") /\ U16(atoi(Text(args, 1))) \in 1 .. 3,
              Number16(args, 1, "vers"))

ifstats(args) == Query(args) \cup When(args # <<>> /\ args[1] = <<"clear">>, {<<"clear">>})

Rates == {44100, 48000, 88200, 96000, 176400, 192000}

srate(args) ==
  Query(args)
    \cup {{<<"rate", r>>} :
            r \in {q \in Rates : Has(args, 1, "rate") /\ U32(atoi(Text(args, 1))) = q}}

enc(args) ==
  LET n   == U16(atoi(Text(args, 1)))
      enc_of == CASE n # 0 -> n
                  [] Text(args, 1) = "pcm24" -> 24
                  [] Text(args, 1) = "raw32" -> 4864
                  [] OTHER -> 0
  IN  Query(args) \cup When(Has(args, 1, "enc") /\ enc_of # 0, {<<"enc", enc_of>>})

\* Two words; a key that is neither the first's nor the second's is not looked at.
pullup(args) ==
  LET values == {"0", "+4.1667", "+0.1", "-0.1", "-4.0"}
      val == IF Has(args, 1, "val") THEN Exactly(args, 1, "val", values) ELSE {{}}
      subdomain == IF Has(args, 2, "subdomain") THEN {<<"subdomain", Text(args, 2)>>} ELSE {}
  IN  Query(args) \cup {v \cup subdomain : v \in {w \in val : Len(args) = 2}}

edk(args) ==
  Query(args)
    \cup Choice(args, 1, "rev", {"other", "red", "green"})
    \cup {{<<"pad", db>>} :
            db \in {d \in {0, -6, -12, -24, -48} :
                      Has(args, 1, "pad") /\ atoi(Text(args, 1)) = d}}
    \cup Choice(args, 1, "dig", {"spdif", "aes", "tos"})
    \cup Choice(args, 1, "src", {"sync", "async"})

sysreset(args) == Choice(args, 1, "mode", {"soft", "factory"})

\* Of the last two names only the first seven letters are compared.
access(args) ==
  Query(args)
    \cup Choice(args, 1, "mode", {"enable", "disable"})
    \cup When(Has(args, 1, "mode") /\ Begins(Text(args, 1), "inetd_e"),
              {<<"mode", "inetd_enable">>})
    \cup When(Has(args, 1, "mode") /\ Begins(Text(args, 1), "inetd_d"),
              {<<"mode", "inetd_disable">>})

\* A bug in conmon_audinate_rx_error_threshold_control_handler: the window is read from the
\* word of the reset time.
ErrthresOffByOne(args) ==
  Query(args)
    \cup When(Has(args, 1, "thres") /\ Has(args, 2, "win") /\ Has(args, 3, "reset"),
              Number16(args, 1, "thres") \cup Number16(args, 3, "win")
                \cup Number16(args, 3, "reset"))

errthres(args) ==
  Query(args)
    \cup When(Has(args, 1, "thres") /\ Has(args, 2, "win") /\ Has(args, 3, "reset"),
              Number16(args, 1, "thres") \cup Number16(args, 2, "win")
                \cup Number16(args, 3, "reset"))

metering(args) ==
  Query(args)
    \cup When(Len(args) = 1 /\ Has(args, 1, "rate") /\ Text(args, 1) # "",
              Number16(args, 1, "rate"))

\* The index is atoi of the whole word and not of what follows its '=': always 0.
serial(args) ==
  LET keys == <<"index", "speed", "bits", "parity", "stop">>
      number(i) == {<<keys[i], atoi(Text(args, i))>>}
  IN  Query(args)
      \cup {{<<"index", 0>>, <<"parity", p>>} \cup number(2) \cup number(3) \cup number(5) :
              p \in {q \in {"none", "odd", "even"} :
                       /\ Len(args) = 5 /\ \A i \in 1 .. 5 : Has(args, i, keys[i])
                       /\ Text(args, 4) = q
                       /\ \A i \in {1, 2, 3, 5} : Text(args, i) # ""}}

haremote(args) ==
  Query(args)
    \cup {m \in Exactly(args, 1, "mode",
                        {"all", "none", "slot_db9", "network_slot", "network_db9"}) :
            Len(args) = 1}

ptp_logging(args) == Query(args) \cup Choice(args, 1, "enabled", Bools)

-----------------------------------------------------------------------------
(* upgrade3: a cursor over the words.  tftp=server:port is <<"tftp", server, port>>. *)

\* Where the file is: nothing for a local file, {} for no right source.
Source(args) ==
  LET port == IF Len(args[1]) = 3 THEN U16(atoi(args[1][3])) ELSE 69
      addr == inet_addr(args[1][2])
  IN  When(args # <<>> /\ args[1] = <<"local">>, {})
      \cup When(/\ args # <<>> /\ args[1][1] = "tftp" /\ Len(args[1]) > 1
                /\ port # 0 /\ addr # NoAddress,
                {<<"tftp", addr>>, <<"port", port>>})

IdKeys == {"mf", "model"}

\* The identifiers from word i on: the last one of a key is the one that counts.
LastIds(args, from) ==
  LET last(i, k) == Has(args, i, k) /\ \A n \in i + 1 .. Len(args) : ~Has(args, n, k)
  IN  UNION {{<<k, parse_id64(Text(args, i))>> : k \in {l \in IdKeys : last(i, l)}} :
               i \in from .. Len(args)}

\* All the words that are left are identifiers, which can be read.
IdsRead(args, from) ==
  \A i \in from .. Len(args) :
    \E k \in IdKeys : Has(args, i, k) /\ parse_id64(Text(args, i)) # Invalid

\* What there is before the library takes the source file, or refuses it.
SourceFile(args) ==
  {s \cup {<<"path", Text(args, 2)>>}
     \cup (IF Has(args, 3, "len") THEN {<<"len", atoi(Text(args, 3))>>} ELSE {}) :
     s \in {t \in Source(args) : Has(args, 2, "path")}}

upgrade3(args) ==
  LET rest == IF Has(args, 3, "len") THEN 4 ELSE 3
  IN  When(args = <<<<"query">>>>, {})
      \cup {s \cup LastIds(args, rest) : s \in {t \in SourceFile(args) : IdsRead(args, rest)}}

-----------------------------------------------------------------------------
(* parse_args. *)

\* The keys that word i may begin with: these are compared by strncmp, without the '='.
PrefixKeys(cmd, i) ==
  CASE cmd = "interface" /\ i = 7 -> {"domain"}
    [] cmd = "upgrade" /\ i <= 3  -> {<<"server", "port", "path">>[i]}
    [] cmd = "clocking" /\ i = 1  -> {"src", "pref", "udelay", "subdomain", "enabled", "slave_only"}
    [] cmd = "igmp" /\ i = 1      -> {"vers"}
    [] cmd = "pullup" /\ i <= 2   -> {<<"val", "subdomain">>[i]}
    [] cmd = "edk" /\ i = 1       -> {"rev", "pad", "dig", "src"}
    [] cmd \in {"sysreset", "access"} /\ i = 1 -> {"mode"}
    [] cmd = "errthres" /\ i <= 3 -> {<<"thres", "win", "reset">>[i]}
    [] cmd = "ptp_logging" /\ i = 1 -> {"enabled"}
    [] OTHER                      -> {}

\* The words as the handlers read them: threshold=5 is thres with the text old=5.
Read(cmd, args) ==
  LET found(i) == UNION {{<<k, t>> : t \in Behind(args[i], k)} : k \in PrefixKeys(cmd, i)}
      whole(i) == Len(args[i]) = 2 /\ args[i][1] \in PrefixKeys(cmd, i)
  IN  [i \in DOMAIN args |->
         IF whole(i) \/ found(i) = {} THEN args[i] ELSE CHOOSE w \in found(i) : TRUE]

\* The commands without a handler: their query is sent whatever else is typed.
Queries == {"master", "versions", "audio_interface", "manf_versions", "identify", "rxerrq",
            "routing_ready", "haremote_stats", "dante_ready", "clock_unmute"}

Bodies(cmd, args) ==
  CASE cmd \in Queries       -> {{}}
    [] cmd = "interface"     -> interface(args)
    [] cmd = "switch_vlan"   -> switch_vlan(args)
    [] cmd = "clocking"      -> clocking(args)
    [] cmd = "uclocking"     -> uclocking(args)
    [] cmd = "name_id"       -> name_id(args)
    [] cmd = "ifstats"       -> ifstats(args)
    [] cmd = "igmp"          -> igmp(args)
    [] cmd = "srate"         -> srate(args)
    [] cmd = "pullup"        -> pullup(args)
    [] cmd = "enc"           -> enc(args)
    [] cmd = "sysreset"      -> sysreset(args)
    [] cmd = "edk"           -> edk(args)
    [] cmd = "access"        -> access(args)
    [] cmd = "errthres"      -> errthres(args)
    [] cmd = "metering"      -> metering(args)
    [] cmd = "serial"        -> serial(args)
    [] cmd = "upgrade"       -> upgrade(args)
    [] cmd = "upgrade3"      -> upgrade3(args)
    [] cmd = "clear_config"  -> clear_config(args)
    [] cmd = "haremote"      -> haremote(args)
    [] cmd = "ptp_logging"   -> ptp_logging(args)
    [] cmd = "gpio"          -> gpio(args)
    [] OTHER                 -> {}

\* What is in the body, whose size is not set, when the library refuses the source file.
HalfBuilt == {<<"half-built">>}

\* What parse_args returns and has built.  The library may refuse a source file with the same
\* error as the handlers a wrong line, or with another.
Outcomes(cmd, args) ==
  LET done == {[result |-> "SUCCESS", body |-> b] : b \in Bodies(cmd, Read(cmd, args))}
  IN  (IF done = {} THEN {[result |-> "INVALIDPARAMETER", body |-> {}]} ELSE done)
      \cup (IF cmd = "upgrade3" /\ SourceFile(args) # {}
              THEN {[result |-> r, body |-> HalfBuilt] : r \in {"ERROR", "INVALIDPARAMETER"}}
              ELSE {})

=============================================================================
