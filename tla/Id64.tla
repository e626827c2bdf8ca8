------------------------------- MODULE Id64 ---------------------------------
(***************************************************************************)
(* The conversions of 64-bit identifiers in examples/conmon/dapi_io.c and  *)
(* parse_id64 of conmon_audinate_controller.c, which chooses among them.   *)
(* A text is the sequence of its character codes, without the final NUL;   *)
(* an identifier is a sequence of IdLen bytes.  A conversion that fails    *)
(* returns Invalid.                                                        *)
(***************************************************************************)
EXTENDS Integers, Sequences

CONSTANT IdLen  \* DANTE_ID64_LEN: 8

ASSUME IdAssumption == IdLen \in Nat \ {0}

Invalid == <<>>

Space       == 32
Zero        == 48
DoubleQuote == 34
SingleQuote == 39
isspace(c)  == c \in 9 .. 13 \cup {Space}

nibble_to_hexchar(n) == n + IF n <= 9 THEN 48 ELSE 97 - 10

\* 255 stands for a character that is no hexadecimal digit.
hexchar_to_nibble(c) ==
  CASE c \in 48 .. 57  -> c - 48
    [] c \in 97 .. 102 -> c - 97 + 10
    [] c \in 65 .. 70  -> c - 65 + 10
    [] OTHER           -> 255

\* The character at a place of a text; 0 is the NUL behind the last one.
CharAt(str, p) == IF p \in DOMAIN str THEN str[p] ELSE 0

\* The first place, from p on, where there is no white space.
drop_whitespace(str, p) ==
  CHOOSE q \in p .. Len(str) + 1 :
    ~isspace(CharAt(str, q)) /\ \A r \in p .. q - 1 : isspace(str[r])

dante_id64_to_str(id) ==
  [i \in 1 .. 2 * IdLen |->
     LET byte == id[(i + 1) \div 2]
     IN  nibble_to_hexchar(IF i % 2 = 1 THEN byte \div 16 ELSE byte % 16)]

\* Where the digits begin: after white space and a leading 0x.
DigitsFrom(str) ==
  LET p == drop_whitespace(str, 1)
  IN  IF CharAt(str, p) = Zero /\ CharAt(str, p + 1) \in {88, 120} THEN p + 2 ELSE p

\* A bug in dante_id64_from_hex: white space is not dropped between two bytes.
BytePlaceDropsNone(str) ==
  LET Place[i \in 1 .. IdLen] ==
        LET p == IF i = 1 THEN DigitsFrom(str) ELSE Place[i - 1] + 1
        IN  IF p > Len(str) THEN Len(str) + 1 ELSE p
  IN  Place

\* The place of the first digit of each byte: the loop over the bytes drops the white space
\* before a byte, never the one within it.
BytePlace(str) ==
  LET Place[i \in 1 .. IdLen] ==
        LET p == IF i = 1 THEN DigitsFrom(str) ELSE Place[i - 1] + 2
        IN  IF p > Len(str) THEN Len(str) + 1 ELSE drop_whitespace(str, p)
  IN  Place

dante_id64_from_hex(str) ==
  LET place   == BytePlace(str)
      high(i) == hexchar_to_nibble(CharAt(str, place[i]))
      low(i)  == hexchar_to_nibble(CharAt(str, place[i] + 1))
  IN  IF \A i \in 1 .. IdLen : high(i) < 16 /\ low(i) < 16
        THEN [i \in 1 .. IdLen |-> 16 * high(i) + low(i)]
        ELSE Invalid

dante_id64_from_ascii(str) == IF Len(str) < IdLen THEN Invalid ELSE SubSeq(str, 1, IdLen)

\* The first place, from p on, of a character, or 0.
find_char(str, p, ch) ==
  LET found == {q \in p .. Len(str) : str[q] = ch}
  IN  IF found = {} THEN 0 ELSE CHOOSE q \in found : \A r \in found : q <= r

\* In quotes an identifier is its own bytes, as many as it needs; otherwise it is hexadecimal.
parse_id64(str) ==
  IF CharAt(str, 1) \in {DoubleQuote, SingleQuote}
    THEN LET end == find_char(str, 2, str[1])
         IN  IF end # 0 /\ end - 2 >= IdLen THEN dante_id64_from_ascii(Tail(str)) ELSE Invalid
    ELSE dante_id64_from_hex(str)

-----------------------------------------------------------------------------
(* What an identifier's text means, apart from the code. *)

LowerCase(c) == IF c \in 65 .. 90 THEN c + 32 ELSE c

\* The end of a leading 0x, or 0: nothing but white space may come before it.
PrefixEnds(str) ==
  {0} \cup {z \in 2 .. Len(str) : /\ str[z - 1] = Zero /\ str[z] \in {88, 120}
                                 /\ \A p \in 1 .. z - 2 : isspace(str[p])}

\* The text writes the identifier: in quotes as it is, otherwise digit by digit as
\* dante_id64_to_str does, with or without 0x, in any case, and with nothing but white space
\* in front of a digit.
Writes(str, id) ==
  IF CharAt(str, 1) \in {DoubleQuote, SingleQuote}
    THEN SubSeq(str, 2, IdLen + 1) = id
    ELSE \E z \in PrefixEnds(str), at \in [1 .. 2 * IdLen -> DOMAIN str] :
           /\ z < at[1] /\ \A i \in 2 .. 2 * IdLen : at[i - 1] < at[i]
           /\ \A i \in 1 .. 2 * IdLen : LowerCase(str[at[i]]) = dante_id64_to_str(id)[i]
           /\ \A p \in z + 1 .. at[2 * IdLen] :
                isspace(str[p]) \/ \E i \in 1 .. 2 * IdLen : at[i] = p

=============================================================================
