------------------------- MODULE ControlUsageProofs -------------------------
(***************************************************************************)
(* Proofs about the words of conmon_audinate_controller.c: what dapi_io.c  *)
(* reads of an identifier is what its text writes; of any words, right or  *)
(* wrong, a handler builds nothing that they do not ask for; and of a line *)
(* that its usage text prints it builds all, or the line is misprinted and *)
(* it builds nothing.                                                      *)
(*                                                                         *)
(* There is a lemma for each handler, twice: <X>Asked for the former and   *)
(* <X>Heeded for the latter.  What the C library reads of a text is left   *)
(* open but for ReadingAssumption.                                         *)
(***************************************************************************)
EXTENDS ControlUsage, WellFoundedInduction, TLAPS

-----------------------------------------------------------------------------
(* Identifiers.  Induction is by the least counterexample. *)

LEMMA LeastExists ==
  ASSUME NEW S, S \subseteq Nat, S # {}
  PROVE  \E m \in S : \A k \in S : m <= k
<1>1. IsWellFoundedOn(OpToRel(<, Nat), Nat)
  BY NatLessThanWellFounded
<1>2. PICK m \in S : \A k \in S : ~ (<<k, m>> \in OpToRel(<, Nat))
  BY <1>1, WFMin
<1>3. \A k \in S : ~ (k < m)
  BY <1>2 DEF OpToRel
<1>4. m \in Nat /\ \A k \in S : k \in Nat
  OBVIOUS
<1> QED BY <1>3, <1>4

Chars == 1 .. 255

LEMMA DropsWhitespace ==
  ASSUME NEW str \in Seq(Chars), NEW p \in 1 .. Len(str) + 1
  PROVE  LET q == drop_whitespace(str, p)
         IN  /\ q \in p .. Len(str) + 1 /\ ~isspace(CharAt(str, q))
             /\ \A r \in p .. q - 1 : isspace(str[r])
<1> DEFINE S == {q \in p .. Len(str) + 1 : ~isspace(CharAt(str, q))}
<1>1. Len(str) + 1 \in S
  BY DEF CharAt, isspace, Space
<1>2. PICK q \in S : \A k \in S : q <= k
  <2>1. S \subseteq Nat /\ S # {}
    BY <1>1
  <2> HIDE DEF S
  <2> QED BY <2>1, LeastExists
<1>3. \A r \in p .. q - 1 : isspace(str[r])
  <2> SUFFICES ASSUME NEW r \in p .. q - 1, ~isspace(str[r]) PROVE FALSE
    OBVIOUS
  <2>1. r \in S /\ r < q
    BY DEF CharAt
  <2> QED BY <2>1, <1>2
<1>4. /\ q \in p .. Len(str) + 1 /\ ~isspace(CharAt(str, q))
      /\ \A r \in p .. q - 1 : isspace(str[r])
  BY <1>3
<1> QED BY <1>4 DEF drop_whitespace

Step(str, i, before) ==
  LET p == IF i = 1 THEN DigitsFrom(str) ELSE before + 2
  IN  IF p > Len(str) THEN Len(str) + 1 ELSE drop_whitespace(str, p)

LEMMA BytePlaceChoice ==
  ASSUME NEW str
  PROVE  BytePlace(str) = CHOOSE f : f = [i \in 1 .. IdLen |-> Step(str, i, f[i - 1])]
BY DEF BytePlace, Step

Recursion(str, n, f) == f = [i \in 1 .. n |-> Step(str, i, f[i - 1])]

LEMMA RecursionExists ==
  ASSUME NEW str, NEW n \in Nat
  PROVE  \E f : Recursion(str, n, f)
<1> DEFINE S == {m \in Nat : ~ \E f : Recursion(str, m, f)}
<1> SUFFICES ASSUME S # {} PROVE FALSE
  OBVIOUS
<1>1. PICK m \in S : \A k \in S : m <= k
  <2>1. S \subseteq Nat
    OBVIOUS
  <2> HIDE DEF S
  <2> QED BY <2>1, LeastExists
<1>2. m \in Nat /\ ~ \E f : Recursion(str, m, f)
  OBVIOUS
<1>3. m # 0
  <2>1. Recursion(str, 0, [i \in 1 .. 0 |-> 0])
    BY DEF Recursion
  <2> QED BY <2>1, <1>2
<1>4. PICK g : Recursion(str, m - 1, g)
  <2>1. m - 1 \in Nat /\ m - 1 \notin S
    BY <1>1, <1>2, <1>3
  <2> QED BY <2>1
<1> DEFINE f == [i \in 1 .. m |-> Step(str, i, g[i - 1])]
<1>5. \A i \in 2 .. m : f[i - 1] = g[i - 1]
  <2> SUFFICES ASSUME NEW i \in 2 .. m PROVE f[i - 1] = g[i - 1]
    OBVIOUS
  <2>1. i - 1 \in 1 .. m - 1 /\ i - 1 \in 1 .. m
    BY <1>2
  <2> QED BY <2>1, <1>4 DEF Recursion
<1>6. Step(str, 1, f[0]) = Step(str, 1, g[0])
  BY DEF Step
<1>7. f = [i \in 1 .. m |-> Step(str, i, f[i - 1])]
  <2>1. f = [i \in 1 .. m |-> Step(str, i, g[i - 1])]
    OBVIOUS
  <2> HIDE DEF f
  <2>2. ASSUME NEW i \in 1 .. m PROVE Step(str, i, g[i - 1]) = Step(str, i, f[i - 1])
    <3>1. CASE i = 1
      BY <1>6, <3>1
    <3>2. CASE i \in 2 .. m
      BY <1>5, <3>2
    <3> QED BY <1>2, <3>1, <3>2
  <2> QED BY <2>1, <2>2
<1> HIDE DEF f
<1> QED BY <1>2, <1>7 DEF Recursion

LEMMA BytePlaceRecursion ==
  ASSUME NEW str, NEW i \in 1 .. IdLen
  PROVE  BytePlace(str)[i] = Step(str, i, BytePlace(str)[i - 1])
<1>1. Recursion(str, IdLen, BytePlace(str))
  <2>1. \E f : Recursion(str, IdLen, f)
    BY RecursionExists, IdAssumption
  <2>2. BytePlace(str) = CHOOSE f : Recursion(str, IdLen, f)
    BY BytePlaceChoice DEF Recursion
  <2> QED BY <2>1, <2>2
<1> QED BY <1>1 DEF Recursion

LEMMA DigitsBegin ==
  ASSUME NEW str \in Seq(Chars)
  PROVE  /\ DigitsFrom(str) \in 1 .. Len(str) + 1
         /\ \E z \in PrefixEnds(str) :
              /\ z < DigitsFrom(str)
              /\ \A p \in z + 1 .. DigitsFrom(str) - 1 : isspace(str[p])
<1> DEFINE q == drop_whitespace(str, 1)
<1>1. /\ q \in 1 .. Len(str) + 1 /\ \A r \in 1 .. q - 1 : isspace(str[r])
  BY DropsWhitespace
<1> HIDE DEF q
<1>2. CASE CharAt(str, q) = Zero /\ CharAt(str, q + 1) \in {88, 120}
  <2>1. DigitsFrom(str) = q + 2
    BY <1>2 DEF DigitsFrom, q
  <2>2. q \in DOMAIN str /\ q + 1 \in DOMAIN str /\ str[q] = Zero /\ str[q + 1] \in {88, 120}
    BY <1>2 DEF CharAt, Zero
  <2>3. q + 1 \in PrefixEnds(str)
    BY <1>1, <2>2 DEF PrefixEnds
  <2> QED BY <1>1, <2>1, <2>2, <2>3
<1>3. CASE ~(CharAt(str, q) = Zero /\ CharAt(str, q + 1) \in {88, 120})
  <2>1. DigitsFrom(str) = q
    BY <1>3 DEF DigitsFrom, q
  <2>2. 0 \in PrefixEnds(str)
    BY DEF PrefixEnds
  <2> QED BY <1>1, <2>1, <2>2
<1> QED BY <1>2, <1>3

LEMMA StepPlaces ==
  ASSUME NEW str \in Seq(Chars), NEW i \in 1 .. IdLen, NEW before \in Nat,
         before > 0 \/ i = 1
  PROVE  LET p == IF i = 1 THEN DigitsFrom(str) ELSE before + 2
             q == Step(str, i, before)
         IN  /\ q \in 1 .. Len(str) + 1
             /\ q <= Len(str) => p <= q /\ \A r \in p .. q - 1 : isspace(str[r])
<1> DEFINE p == IF i = 1 THEN DigitsFrom(str) ELSE before + 2
<1>1. p \in Nat /\ p > 0
  BY DigitsBegin
<1> HIDE DEF p
<1>2. CASE p > Len(str)
  BY <1>1, <1>2 DEF Step, p
<1>3. CASE p <= Len(str)
  <2>1. Step(str, i, before) = drop_whitespace(str, p)
    BY <1>1, <1>3 DEF Step, p
  <2>2. p \in 1 .. Len(str) + 1
    BY <1>1, <1>3
  <2> QED BY <1>1, <2>1, <2>2, DropsWhitespace DEF p
<1> QED BY <1>1, <1>2, <1>3

LEMMA PlacesInText ==
  ASSUME NEW str \in Seq(Chars)
  PROVE  \A i \in 1 .. IdLen : BytePlace(str)[i] \in 1 .. Len(str) + 1
<1> DEFINE S == {i \in 1 .. IdLen : BytePlace(str)[i] \notin 1 .. Len(str) + 1}
<1> SUFFICES ASSUME S # {} PROVE FALSE
  OBVIOUS
<1>1. PICK m \in S : \A k \in S : m <= k
  <2>1. S \subseteq Nat
    BY IdAssumption
  <2> HIDE DEF S
  <2> QED BY <2>1, LeastExists
<1>2. m \in 1 .. IdLen /\ BytePlace(str)[m] = Step(str, m, BytePlace(str)[m - 1])
  BY BytePlaceRecursion
<1>3. CASE m = 1
  <2>1. Step(str, 1, BytePlace(str)[m - 1]) = Step(str, 1, 0)
    BY DEF Step
  <2> QED BY <1>2, <1>3, <2>1, StepPlaces
<1>4. CASE m # 1
  <2>1. m - 1 \in 1 .. IdLen /\ m - 1 \notin S
    BY <1>1, <1>2, <1>4, IdAssumption
  <2>2. BytePlace(str)[m - 1] \in 1 .. Len(str) + 1
    BY <2>1
  <2>3. BytePlace(str)[m - 1] \in Nat /\ BytePlace(str)[m - 1] > 0
    BY <2>2
  <2> QED BY <1>2, <2>3, StepPlaces
<1> QED BY <1>3, <1>4

LEMMA PlacesApart ==
  ASSUME NEW str \in Seq(Chars), NEW i \in 1 .. IdLen, BytePlace(str)[i] <= Len(str)
  PROVE  LET p == IF i = 1 THEN DigitsFrom(str) ELSE BytePlace(str)[i - 1] + 2
         IN  /\ p <= BytePlace(str)[i]
             /\ \A r \in p .. BytePlace(str)[i] - 1 : isspace(str[r])
<1>1. BytePlace(str)[i] = Step(str, i, BytePlace(str)[i - 1])
  BY BytePlaceRecursion
<1>2. CASE i = 1
  <2>1. BytePlace(str)[i] = Step(str, i, 0)
    BY <1>1, <1>2 DEF Step
  <2> QED BY <1>2, <2>1, StepPlaces
<1>3. CASE i # 1
  <2>1. i - 1 \in 1 .. IdLen
    BY <1>3, IdAssumption
  <2>2. BytePlace(str)[i - 1] \in 1 .. Len(str) + 1
    BY <2>1, PlacesInText
  <2>3. BytePlace(str)[i - 1] \in Nat /\ BytePlace(str)[i - 1] > 0
    BY <2>2
  <2> QED BY <1>1, <1>3, <2>3, StepPlaces
<1> QED BY <1>2, <1>3

Nibbles == 0 .. 15
Ids64 == [1 .. IdLen -> 0 .. 255]

LEMMA HexcharsOfNibbles ==
  /\ \A n \in Nibbles : /\ nibble_to_hexchar(n) \in 48 .. 57 \cup 97 .. 102
                        /\ hexchar_to_nibble(nibble_to_hexchar(n)) = n
  /\ \A c \in Nat : hexchar_to_nibble(c) < 16 =>
       /\ c > 0 /\ hexchar_to_nibble(c) \in Nibbles
       /\ nibble_to_hexchar(hexchar_to_nibble(c)) = LowerCase(c)
BY DEF nibble_to_hexchar, hexchar_to_nibble, LowerCase, Nibbles

LEMMA CharsOfTexts ==
  ASSUME NEW str \in Seq(Chars), NEW p \in Nat
  PROVE  CharAt(str, p) \in Nat
<1>1. CASE p \in DOMAIN str
  <2>1. str[p] \in Chars
    BY <1>1
  <2>2. \A c \in Chars : c \in Nat
    BY DEF Chars
  <2>3. str[p] \in Nat
    BY <2>1, <2>2
  <2> QED BY <1>1, <2>3 DEF CharAt
<1>2. CASE p \notin DOMAIN str
  BY <1>2 DEF CharAt
<1> QED BY <1>1, <1>2

LEMMA NibblesOfByte ==
  /\ \A h, l \in Nibbles : (16 * h + l) \div 16 = h /\ (16 * h + l) % 16 = l
  /\ \A b \in 0 .. 255 : /\ b \div 16 \in Nibbles /\ b % 16 \in Nibbles
                         /\ 16 * (b \div 16) + (b % 16) = b
BY DEF Nibbles

High(str, i) == hexchar_to_nibble(CharAt(str, BytePlace(str)[i]))
Low(str, i)  == hexchar_to_nibble(CharAt(str, BytePlace(str)[i] + 1))

LEMMA HexBytes ==
  ASSUME NEW str \in Seq(Chars), dante_id64_from_hex(str) # Invalid
  PROVE  /\ dante_id64_from_hex(str) = [i \in 1 .. IdLen |-> 16 * High(str, i) + Low(str, i)]
         /\ \A i \in 1 .. IdLen :
              LET p == BytePlace(str)[i]
              IN  /\ p \in 1 .. Len(str) - 1
                  /\ High(str, i) \in Nibbles /\ Low(str, i) \in Nibbles
                  /\ nibble_to_hexchar(High(str, i)) = LowerCase(str[p])
                  /\ nibble_to_hexchar(Low(str, i)) = LowerCase(str[p + 1])
<1>1. /\ \A i \in 1 .. IdLen : High(str, i) < 16 /\ Low(str, i) < 16
      /\ dante_id64_from_hex(str) = [i \in 1 .. IdLen |-> 16 * High(str, i) + Low(str, i)]
  BY DEF dante_id64_from_hex, High, Low
<1>2. ASSUME NEW i \in 1 .. IdLen
      PROVE  LET p == BytePlace(str)[i]
             IN  /\ p \in 1 .. Len(str) - 1
                 /\ High(str, i) \in Nibbles /\ Low(str, i) \in Nibbles
                 /\ nibble_to_hexchar(High(str, i)) = LowerCase(str[p])
                 /\ nibble_to_hexchar(Low(str, i)) = LowerCase(str[p + 1])
  <2> DEFINE p == BytePlace(str)[i]
  <2>1. p \in 1 .. Len(str) + 1
    BY PlacesInText
  <2>2. CharAt(str, p) \in Nat /\ CharAt(str, p + 1) \in Nat
    <3>1. p \in Nat /\ p + 1 \in Nat
      BY <2>1
    <3> HIDE DEF p
    <3> QED BY <3>1, CharsOfTexts
  <2>3. /\ hexchar_to_nibble(CharAt(str, p)) < 16
        /\ hexchar_to_nibble(CharAt(str, p + 1)) < 16
    BY <1>1 DEF High, Low
  <2> HIDE DEF p
  <2>4. CharAt(str, p) > 0 /\ CharAt(str, p + 1) > 0
    BY <2>2, <2>3, HexcharsOfNibbles
  <2>5. p \in 1 .. Len(str) - 1
    BY <2>1, <2>4 DEF CharAt
  <2>6. CharAt(str, p) = str[p] /\ CharAt(str, p + 1) = str[p + 1]
    BY <2>5 DEF CharAt
  <2>7. High(str, i) = hexchar_to_nibble(str[p]) /\ Low(str, i) = hexchar_to_nibble(str[p + 1])
    BY <2>6 DEF High, Low, p
  <2>8. str[p] \in Nat /\ str[p + 1] \in Nat
    BY <2>2, <2>6
  <2>9. hexchar_to_nibble(str[p]) < 16 /\ hexchar_to_nibble(str[p + 1]) < 16
    BY <2>3, <2>6
  <2> QED BY <2>5, <2>7, <2>8, <2>9, HexcharsOfNibbles DEF p
<1> QED BY <1>1, <1>2

LEMMA Halves == \A i \in 1 .. 2 * IdLen : \E j \in 1 .. IdLen : i = 2 * j - 1 \/ i = 2 * j
<1> SUFFICES ASSUME NEW i \in 1 .. 2 * IdLen
             PROVE  \E j \in 1 .. IdLen : i = 2 * j - 1 \/ i = 2 * j
  OBVIOUS
<1> DEFINE j == (i + 1) \div 2
<1>1. j \in 1 .. IdLen /\ (i = 2 * j - 1 \/ i = 2 * j)
  BY IdAssumption
<1> QED BY <1>1

LEMMA HexWrites ==
  ASSUME NEW str \in Seq(Chars), dante_id64_from_hex(str) # Invalid,
         CharAt(str, 1) \notin {DoubleQuote, SingleQuote}
  PROVE  Writes(str, dante_id64_from_hex(str))
<1> DEFINE id    == dante_id64_from_hex(str)
           B     == BytePlace(str)
           at    == [i \in 1 .. 2 * IdLen |-> B[(i + 1) \div 2] + IF i % 2 = 1 THEN 0 ELSE 1]
<1>1. \A i \in 1 .. IdLen : B[i] \in 1 .. Len(str) - 1
  BY HexBytes
<1>2. /\ B[1] >= DigitsFrom(str)
      /\ \A r \in DigitsFrom(str) .. B[1] - 1 : isspace(str[r])
  <2>1. 1 \in 1 .. IdLen
    BY IdAssumption
  <2>2. B[1] <= Len(str)
    BY <1>1, <2>1
  <2> QED BY <2>1, <2>2, PlacesApart
<1>3. \A i \in 2 .. IdLen :
        /\ B[i] >= B[i - 1] + 2
        /\ \A r \in B[i - 1] + 2 .. B[i] - 1 : isspace(str[r])
  <2> SUFFICES ASSUME NEW i \in 2 .. IdLen
               PROVE  /\ B[i] >= B[i - 1] + 2
                      /\ \A r \in B[i - 1] + 2 .. B[i] - 1 : isspace(str[r])
    OBVIOUS
  <2>1. i \in 1 .. IdLen /\ i # 1
    BY IdAssumption
  <2>2. B[i] <= Len(str)
    BY <1>1, <2>1
  <2> QED BY <2>1, <2>2, PlacesApart
<1>4. PICK z \in PrefixEnds(str) :
        /\ z < DigitsFrom(str)
        /\ \A p \in z + 1 .. DigitsFrom(str) - 1 : isspace(str[p])
  BY DigitsBegin
<1>z. z \in Nat
  BY <1>4 DEF PrefixEnds
<1>5. \A i \in 1 .. IdLen :
        /\ LowerCase(str[B[i]]) = dante_id64_to_str(id)[2 * i - 1]
        /\ LowerCase(str[B[i] + 1]) = dante_id64_to_str(id)[2 * i]
  <2> SUFFICES ASSUME NEW i \in 1 .. IdLen
               PROVE  /\ LowerCase(str[B[i]]) = dante_id64_to_str(id)[2 * i - 1]
                      /\ LowerCase(str[B[i] + 1]) = dante_id64_to_str(id)[2 * i]
    OBVIOUS
  <2>1. /\ id[i] = 16 * High(str, i) + Low(str, i)
        /\ High(str, i) \in Nibbles /\ Low(str, i) \in Nibbles
        /\ nibble_to_hexchar(High(str, i)) = LowerCase(str[B[i]])
        /\ nibble_to_hexchar(Low(str, i)) = LowerCase(str[B[i] + 1])
    BY HexBytes
  <2>2. id[i] \div 16 = High(str, i) /\ id[i] % 16 = Low(str, i)
    BY <2>1, NibblesOfByte
  <2>3. /\ 2 * i - 1 \in 1 .. 2 * IdLen /\ (2 * i - 1 + 1) \div 2 = i /\ (2 * i - 1) % 2 = 1
        /\ 2 * i \in 1 .. 2 * IdLen /\ (2 * i + 1) \div 2 = i /\ (2 * i) % 2 # 1
    BY IdAssumption
  <2> HIDE DEF id
  <2>4. /\ dante_id64_to_str(id)[2 * i - 1] = nibble_to_hexchar(id[i] \div 16)
        /\ dante_id64_to_str(id)[2 * i] = nibble_to_hexchar(id[i] % 16)
    BY <2>3 DEF dante_id64_to_str
  <2> QED BY <2>1, <2>2, <2>4
<1>6. \A i \in 1 .. 2 * IdLen : \E j \in 1 .. IdLen : i = 2 * j - 1 \/ i = 2 * j
  BY Halves
<1> HIDE DEF id, B
<1>7. \A j \in 1 .. IdLen : at[2 * j - 1] = B[j] /\ at[2 * j] = B[j] + 1
  <2> SUFFICES ASSUME NEW j \in 1 .. IdLen PROVE at[2 * j - 1] = B[j] /\ at[2 * j] = B[j] + 1
    OBVIOUS
  <2>1. /\ 2 * j - 1 \in 1 .. 2 * IdLen /\ (2 * j - 1 + 1) \div 2 = j /\ (2 * j - 1) % 2 = 1
        /\ 2 * j \in 1 .. 2 * IdLen /\ (2 * j + 1) \div 2 = j /\ (2 * j) % 2 # 1
    BY IdAssumption
  <2>2. B[j] \in Nat
    BY <1>1
  <2> QED BY <2>1, <2>2
<1>8. at \in [1 .. 2 * IdLen -> DOMAIN str]
  <2> SUFFICES ASSUME NEW i \in 1 .. 2 * IdLen PROVE at[i] \in DOMAIN str
    OBVIOUS
  <2>1. PICK j \in 1 .. IdLen : i = 2 * j - 1 \/ i = 2 * j
    BY <1>6
  <2>2. B[j] \in DOMAIN str /\ B[j] + 1 \in DOMAIN str
    BY <1>1
  <2> QED BY <1>7, <2>1, <2>2
<1> HIDE DEF at
<1>9. z < at[1]
  <2>1. at[1] = B[1] /\ B[1] \in Nat
    BY <1>1, <1>7, IdAssumption
  <2> QED BY <1>2, <1>4, <1>z, <2>1, DigitsBegin
<1>10. ASSUME NEW i \in 2 .. 2 * IdLen PROVE at[i - 1] < at[i]
  <2>0. i \in 1 .. 2 * IdLen
    BY IdAssumption
  <2>1. PICK j \in 1 .. IdLen : i = 2 * j - 1 \/ i = 2 * j
    BY <1>6, <2>0
  <2>2. CASE i = 2 * j
    BY <1>1, <1>7, <2>2
  <2>3. CASE i = 2 * j - 1
    <3>1. j - 1 \in 1 .. IdLen /\ j \in 2 .. IdLen /\ i - 1 = 2 * (j - 1)
      BY <2>3, IdAssumption
    <3>2. at[i - 1] = B[j - 1] + 1 /\ at[i] = B[j]
      BY <1>7, <2>3, <3>1
    <3> QED BY <1>1, <1>3, <3>1, <3>2
  <2> QED BY <2>1, <2>2, <2>3
<1>11. ASSUME NEW i \in 1 .. 2 * IdLen PROVE LowerCase(str[at[i]]) = dante_id64_to_str(id)[i]
  <2>1. PICK j \in 1 .. IdLen : i = 2 * j - 1 \/ i = 2 * j
    BY <1>6
  <2> QED BY <1>5, <1>7, <2>1
<1>12. ASSUME NEW p \in z + 1 .. at[2 * IdLen]
       PROVE  isspace(str[p]) \/ \E i \in 1 .. 2 * IdLen : at[i] = p
  <2> DEFINE S == {k \in 1 .. IdLen : p <= B[k] + 1}
  <2>1. IdLen \in S
    BY <1>7, IdAssumption
  <2>2. PICK k \in S : \A n \in S : k <= n
    <3>1. S \subseteq Nat /\ S # {}
      BY <2>1, IdAssumption
    <3> HIDE DEF S
    <3> QED BY <3>1, LeastExists
  <2>3. k \in 1 .. IdLen /\ p <= B[k] + 1 /\ B[k] \in Nat /\ p \in Nat
    BY <1>1, <1>z
  <2>4. /\ 2 * k - 1 \in 1 .. 2 * IdLen /\ at[2 * k - 1] = B[k]
        /\ 2 * k \in 1 .. 2 * IdLen /\ at[2 * k] = B[k] + 1
    BY <1>7, <2>3, IdAssumption
  <2>5. CASE p \in B[k] .. B[k] + 1
    BY <2>3, <2>4, <2>5
  <2>6. CASE p < B[k] /\ k = 1
    BY <1>2, <1>4, <1>z, <2>3, <2>6, DigitsBegin
  <2>7. CASE p < B[k] /\ k # 1
    <3>1. k - 1 \in 1 .. IdLen /\ k - 1 \notin S /\ k \in 2 .. IdLen
      BY <2>2, <2>3, <2>7, IdAssumption
    <3>2. p >= B[k - 1] + 2
      BY <1>1, <2>3, <3>1
    <3> QED BY <1>1, <1>3, <2>3, <2>7, <3>1, <3>2
  <2> QED BY <2>3, <2>5, <2>6, <2>7
<1> QED BY <1>8, <1>9, <1>10, <1>11, <1>12 DEF Writes, id

\* The bytes that parse_id64 reads of a text are those that the text writes, in quotes or digit by
\* digit: none is skipped, taken twice, or taken from behind the text.
THEOREM ParsedIdIsWritten ==
  ASSUME NEW str \in Seq(Chars), parse_id64(str) # Invalid
  PROVE  Writes(str, parse_id64(str))
<1>1. CASE CharAt(str, 1) \notin {DoubleQuote, SingleQuote}
  BY <1>1, HexWrites DEF parse_id64
<1>2. CASE CharAt(str, 1) \in {DoubleQuote, SingleQuote}
  <2>1. parse_id64(str) = dante_id64_from_ascii(Tail(str))
    BY <1>2 DEF parse_id64
  <2>a. ~(Len(Tail(str)) < IdLen)
    BY <2>1 DEF dante_id64_from_ascii
  <2>2. str # <<>>
    BY <1>2 DEF CharAt, DoubleQuote, SingleQuote
  <2>3. SubSeq(Tail(str), 1, IdLen) = SubSeq(str, 2, IdLen + 1)
    BY <2>a, <2>2, IdAssumption
  <2> QED BY <1>2, <2>1, <2>a, <2>3, IdAssumption DEF Writes, dante_id64_from_ascii
<1> QED BY <1>1, <1>2

LEMMA TextOfId ==
  ASSUME NEW id \in Ids64
  PROVE  LET str == dante_id64_to_str(id)
         IN  /\ str \in Seq(Chars) /\ Len(str) = 2 * IdLen
             /\ \A i \in 1 .. 2 * IdLen : str[i] \in 48 .. 57 \cup 97 .. 102
             /\ \A i \in 1 .. IdLen : /\ str[2 * i - 1] = nibble_to_hexchar(id[i] \div 16)
                                    /\ str[2 * i] = nibble_to_hexchar(id[i] % 16)
<1> DEFINE str == dante_id64_to_str(id)
<1>1. ASSUME NEW i \in 1 .. IdLen
      PROVE  /\ str[2 * i - 1] = nibble_to_hexchar(id[i] \div 16)
             /\ str[2 * i] = nibble_to_hexchar(id[i] % 16)
             /\ str[2 * i - 1] \in 48 .. 57 \cup 97 .. 102
             /\ str[2 * i] \in 48 .. 57 \cup 97 .. 102
  <2>1. /\ 2 * i - 1 \in 1 .. 2 * IdLen /\ (2 * i - 1 + 1) \div 2 = i /\ (2 * i - 1) % 2 = 1
        /\ 2 * i \in 1 .. 2 * IdLen /\ (2 * i + 1) \div 2 = i /\ (2 * i) % 2 # 1
    BY IdAssumption
  <2>2. /\ str[2 * i - 1] = nibble_to_hexchar(id[i] \div 16)
        /\ str[2 * i] = nibble_to_hexchar(id[i] % 16)
    BY <2>1 DEF dante_id64_to_str
  <2>3. id[i] \in 0 .. 255
    BY DEF Ids64
  <2>4. id[i] \div 16 \in Nibbles /\ id[i] % 16 \in Nibbles
    BY <2>3, NibblesOfByte
  <2> HIDE DEF str
  <2> QED BY <2>2, <2>4, HexcharsOfNibbles
<1>2. ASSUME NEW i \in 1 .. 2 * IdLen PROVE str[i] \in 48 .. 57 \cup 97 .. 102
  <2>1. PICK j \in 1 .. IdLen : i = 2 * j - 1 \/ i = 2 * j
    BY Halves
  <2> HIDE DEF str
  <2> QED BY <1>1, <2>1
<1>3. str = [i \in 1 .. 2 * IdLen |-> str[i]]
  BY DEF dante_id64_to_str
<1> HIDE DEF str
<1>4. \A i \in 1 .. 2 * IdLen : str[i] \in Chars
  BY <1>2 DEF Chars
<1>5. str \in [1 .. 2 * IdLen -> Chars] /\ 2 * IdLen \in Nat
  BY <1>3, <1>4, IdAssumption
<1>6. str \in Seq(Chars) /\ Len(str) = 2 * IdLen
  BY <1>5
<1> QED BY <1>1, <1>2, <1>6 DEF str

LEMMA NothingToDrop ==
  ASSUME NEW str \in Seq(Chars), NEW p \in 1 .. Len(str), ~isspace(str[p])
  PROVE  drop_whitespace(str, p) = p
<1> DEFINE q == drop_whitespace(str, p)
<1>1. p \in 1 .. Len(str) + 1
  OBVIOUS
<1>2. q \in p .. Len(str) + 1 /\ \A r \in p .. q - 1 : isspace(str[r])
  BY <1>1, DropsWhitespace
<1> HIDE DEF q
<1>3. q > p => p \in p .. q - 1
  BY <1>1, <1>2
<1>4. q = p
  BY <1>2, <1>3
<1> QED BY <1>4 DEF q

\* What dante_id64_to_str writes of an identifier is read back by parse_id64, whatever its length.
THEOREM IdsReadBack ==
  ASSUME NEW id \in Ids64
  PROVE  parse_id64(dante_id64_to_str(id)) = id
<1> DEFINE str == dante_id64_to_str(id)
<1>1. /\ str \in Seq(Chars) /\ Len(str) = 2 * IdLen
      /\ \A i \in 1 .. 2 * IdLen : str[i] \in 48 .. 57 \cup 97 .. 102
      /\ \A i \in 1 .. IdLen : /\ str[2 * i - 1] = nibble_to_hexchar(id[i] \div 16)
                             /\ str[2 * i] = nibble_to_hexchar(id[i] % 16)
  BY TextOfId
<1> HIDE DEF str
<1>2. \A i \in 1 .. 2 * IdLen : ~isspace(str[i]) /\ CharAt(str, i) = str[i]
  <2> SUFFICES ASSUME NEW i \in 1 .. 2 * IdLen
               PROVE  ~isspace(str[i]) /\ CharAt(str, i) = str[i]
    OBVIOUS
  <2>1. str[i] \in 48 .. 57 \cup 97 .. 102
    BY <1>1
  <2>2. ~isspace(str[i])
    BY <2>1 DEF isspace, Space
  <2>3. CharAt(str, i) = str[i]
    BY <1>1 DEF CharAt
  <2> QED BY <2>2, <2>3
<1>3. ASSUME NEW i \in 1 .. 2 * IdLen PROVE drop_whitespace(str, i) = i
  BY <1>1, <1>2, NothingToDrop
<1>4. DigitsFrom(str) = 1
  <2>1. 1 \in 1 .. 2 * IdLen /\ 2 \in 1 .. 2 * IdLen
    BY IdAssumption
  <2>2. CharAt(str, 1 + 1) \notin {88, 120}
    BY <1>1, <1>2, <2>1
  <2> QED BY <1>3, <2>1, <2>2 DEF DigitsFrom
<1>5. \A i \in 1 .. IdLen : BytePlace(str)[i] = 2 * i - 1
  <2> DEFINE S == {i \in 1 .. IdLen : BytePlace(str)[i] # 2 * i - 1}
  <2> SUFFICES ASSUME S # {} PROVE FALSE
    OBVIOUS
  <2>1. PICK m \in S : \A k \in S : m <= k
    <3>1. S \subseteq Nat
      BY IdAssumption
    <3> HIDE DEF S
    <3> QED BY <3>1, LeastExists
  <2>2. m \in 1 .. IdLen /\ BytePlace(str)[m] = Step(str, m, BytePlace(str)[m - 1])
    BY BytePlaceRecursion
  <2>3. 2 * m - 1 \in 1 .. 2 * IdLen
    BY <2>2, IdAssumption
  <2>4. m = 1 \/ BytePlace(str)[m - 1] = 2 * (m - 1) - 1
    <3>1. m # 1 => m - 1 \in 1 .. IdLen /\ m - 1 \notin S
      BY <2>1, <2>2, IdAssumption
    <3> QED BY <3>1
  <2>5. Step(str, m, BytePlace(str)[m - 1]) = 2 * m - 1
    <3>1. CASE m = 1
      BY <1>1, <1>3, <1>4, <2>3, <3>1 DEF Step
    <3>2. CASE m # 1
      <4>1. BytePlace(str)[m - 1] + 2 = 2 * m - 1
        BY <2>2, <2>4, <3>2
      <4> QED BY <1>1, <1>3, <2>3, <3>2, <4>1 DEF Step
    <3> QED BY <3>1, <3>2
  <2> QED BY <2>2, <2>5
<1>6. ASSUME NEW i \in 1 .. IdLen
      PROVE  High(str, i) = id[i] \div 16 /\ Low(str, i) = id[i] % 16
  <2>1. id[i] \in 0 .. 255
    BY DEF Ids64
  <2>2. id[i] \div 16 \in Nibbles /\ id[i] % 16 \in Nibbles
    BY <2>1, NibblesOfByte
  <2>3. 2 * i - 1 \in 1 .. 2 * IdLen /\ 2 * i \in 1 .. 2 * IdLen /\ 2 * i - 1 + 1 = 2 * i
    BY IdAssumption
  <2>4. /\ CharAt(str, BytePlace(str)[i]) = nibble_to_hexchar(id[i] \div 16)
        /\ CharAt(str, BytePlace(str)[i] + 1) = nibble_to_hexchar(id[i] % 16)
    BY <1>1, <1>2, <1>5, <2>3
  <2> QED BY <2>2, <2>4, HexcharsOfNibbles DEF High, Low
<1>7. dante_id64_from_hex(str) = id
  <2>1. \A i \in 1 .. IdLen : /\ High(str, i) < 16 /\ Low(str, i) < 16
                            /\ 16 * High(str, i) + Low(str, i) = id[i]
    <3> SUFFICES ASSUME NEW i \in 1 .. IdLen
                 PROVE  /\ High(str, i) < 16 /\ Low(str, i) < 16
                        /\ 16 * High(str, i) + Low(str, i) = id[i]
      OBVIOUS
    <3>1. id[i] \in 0 .. 255
      BY DEF Ids64
    <3>2. /\ id[i] \div 16 \in Nibbles /\ id[i] % 16 \in Nibbles
          /\ 16 * (id[i] \div 16) + (id[i] % 16) = id[i]
      BY <3>1, NibblesOfByte
    <3> QED BY <1>6, <3>2 DEF Nibbles
  <2>2. dante_id64_from_hex(str) = [i \in 1 .. IdLen |-> 16 * High(str, i) + Low(str, i)]
    BY <2>1 DEF dante_id64_from_hex, High, Low
  <2> QED BY <2>1, <2>2 DEF Ids64
<1>8. CharAt(str, 1) \notin {DoubleQuote, SingleQuote}
  <2>1. 1 \in 1 .. 2 * IdLen
    BY IdAssumption
  <2>2. CharAt(str, 1) \in 48 .. 57 \cup 97 .. 102
    BY <1>1, <1>2, <2>1
  <2> QED BY <2>2 DEF DoubleQuote, SingleQuote
<1> QED BY <1>7, <1>8 DEF parse_id64, str

-----------------------------------------------------------------------------
(* What a word asks for. *)

LEMMA SixteenBits ==
  ASSUME NEW n \in Unsigned16
  PROVE  U16(n) = n
<1>1. n \in Int /\ 0 <= n /\ n < 65536
  BY SMTT(60) DEF Unsigned16
<1>2. n % 65536 = n
  BY <1>1, SMTT(60)
<1> QED BY <1>2 DEF U16

LEMMA LiteralRead ==
  ASSUME NEW text, NEW n, <<text, n>> \in Literals
  PROVE  atoi(text) = n
<1>1. atoi(<<text, n>>[1]) = <<text, n>>[2]
  BY ReadingAssumption
<1> QED BY <1>1

LEMMA LineIsSequence ==
  ASSUME NEW args, Line(args)
  PROVE  /\ Len(args) \in Nat /\ DOMAIN args = 1 .. Len(args)
         /\ args # <<>> => 1 \in DOMAIN args
<1>1. Len(args) \in Nat /\ args = [i \in 1 .. Len(args) |-> args[i]]
  BY DEF Line
<1>2. DOMAIN args = 1 .. Len(args)
  BY <1>1
<1>3. CASE Len(args) = 0
  <2>1. args = [i \in 1 .. 0 |-> args[i]]
    BY <1>1, <1>3
  <2>2. args = <<>>
    BY <2>1
  <2> QED BY <1>1, <1>2, <2>2
<1> QED BY <1>1, <1>2, <1>3

\* A word with a key is read by its text.
LEMMA TextIsSecond ==
  ASSUME NEW args, NEW i, NEW key, Has(args, i, key)
  PROVE  i \in DOMAIN args /\ Len(args[i]) = 2 /\ args[i][1] = key /\ Text(args, i) = args[i][2]
<1>1. i \in DOMAIN args /\ Len(args[i]) = 2 /\ args[i][1] = key
  BY DEF Has
<1>2. Text(args, i) = args[i][Len(args[i])]
  BY DEF Text
<1> QED BY <1>1, <1>2

PlainKeys == {"domain", "path", "src", "pref", "udelay", "enabled", "slave_only", "subdomain",
              "val", "rev", "dig", "mode", "parity"}

\* A setting is asked for by its word when it means what the text says.
LEMMA MeaningAsked ==
  ASSUME NEW cmd, NEW args, NEW i, NEW key, NEW v, Has(args, i, key),
         Means(cmd, key, Text(args, i), v)
  PROVE  i \in DOMAIN args /\ AskedBy(cmd, args[i], <<key, v>>)
<1>1. i \in DOMAIN args /\ Len(args[i]) = 2 /\ args[i][1] = key /\ Text(args, i) = args[i][2]
  BY TextIsSecond
<1>2. Len(<<key, v>>) = 2 /\ <<key, v>>[1] = key /\ <<key, v>>[2] = v
  OBVIOUS
<1> QED BY <1>1, <1>2 DEF AskedBy

LEMMA TextAsked ==
  ASSUME NEW cmd, cmd \notin {"name_id", "gpio", "access"}, NEW args, NEW i, NEW key \in PlainKeys,
         Has(args, i, key), NEW v, Begins(Text(args, i), v)
  PROVE  i \in DOMAIN args /\ AskedBy(cmd, args[i], <<key, v>>)
<1>1. Means(cmd, key, Text(args, i), v)
  BY DEF Means, PlainKeys, NumberKeys, AddressKeys, IdKeys, Compared
<1> QED BY <1>1, MeaningAsked

LEMMA NumberAsked ==
  ASSUME NEW cmd, cmd # "name_id", NEW args, NEW i, NEW key \in NumberKeys \cup {"rate"},
         Has(args, i, key)
  PROVE  i \in DOMAIN args /\ AskedBy(cmd, args[i], <<key, atoi(Text(args, i))>>)
<1>1. Means(cmd, key, Text(args, i), atoi(Text(args, i)))
  BY DEF Means, NumberKeys, AddressKeys, IdKeys
<1> QED BY <1>1, MeaningAsked

\* A word by itself asks for what it says.
LEMMA WordAsked ==
  ASSUME NEW cmd, NEW args, NEW i, NEW key, args[i] = <<key>>
  PROVE  AskedBy(cmd, args[i], <<key>>)
BY DEF AskedBy

\* The commands whose words are called in the code what the usage text calls them.
AsTyped(cmd) == cmd \notin {"interface", "upgrade3", "name_id"}

LEMMA WordsNamed ==
  ASSUME NEW cmd, AsTyped(cmd), NEW args
  PROVE  Named(cmd, args) = {args[i] : i \in DOMAIN args}
BY DEF Named, AsTyped

\* A line whose numbers fit: a number of 16 bits is the one that is written.
LEMMA NumberFits ==
  ASSUME NEW cmd, AsTyped(cmd), NEW args, Fits(cmd, args),
         NEW i, NEW key \in Number16s(cmd), Has(args, i, key)
  PROVE  U16(atoi(Text(args, i))) = atoi(Text(args, i)) /\ atoi(Text(args, i)) \in Unsigned16
<1>1. i \in DOMAIN args /\ Len(args[i]) = 2 /\ args[i][1] = key /\ Text(args, i) = args[i][2]
  BY TextIsSecond
<1>2. args[i] \in {v \in Named(cmd, args) : Len(v) = 2}
  BY <1>1, WordsNamed
<1>3. atoi(Text(args, i)) \in Unsigned16
  <2>1. args[i][1] \in Number16s(cmd)
    BY <1>1
  <2>2. \A w \in {v \in Named(cmd, args) : Len(v) = 2} :
          w[1] \in Number16s(cmd) => atoi(w[2]) \in Unsigned16
    BY DEF Fits, AsTyped
  <2>3. atoi(args[i][2]) \in Unsigned16
    BY <1>2, <2>1, <2>2
  <2> QED BY <1>1, <2>3
<1>4. U16(atoi(Text(args, i))) = atoi(Text(args, i))
  BY <1>3, SixteenBits
<1> QED BY <1>3, <1>4

\* And so is one of 32 bits.
LEMMA ThirtyTwoBits ==
  ASSUME NEW n \in 0 .. Width32 - 1
  PROVE  U32(n) = n
<1>1. Width32 \in Nat /\ Width32 > 0 /\ n \in Int /\ 0 <= n /\ n < Width32
  BY WidthAssumption
<1>2. n % Width32 = n
  BY <1>1, SMTT(60)
<1> QED BY <1>2 DEF U32

LEMMA RateFits ==
  ASSUME NEW args, Fits("srate", args), NEW i, NEW key, Has(args, i, key)
  PROVE  U32(atoi(Text(args, i))) = atoi(Text(args, i))
<1>1. i \in DOMAIN args /\ Len(args[i]) = 2 /\ Text(args, i) = args[i][2]
  BY TextIsSecond
<1>2. args[i] \in {v \in Named("srate", args) : Len(v) = 2}
  BY <1>1, WordsNamed DEF AsTyped
<1>3. atoi(args[i][2]) \in 0 .. Width32 - 1
  BY <1>2 DEF Fits
<1> QED BY <1>1, <1>3, ThirtyTwoBits

LEMMA BeginsItself ==
  ASSUME NEW args, Line(args), NEW i, NEW key, Has(args, i, key)
  PROVE  Begins(Text(args, i), Text(args, i))
<1>1. i \in DOMAIN args /\ Len(args[i]) = 2 /\ Text(args, i) = args[i][2]
  BY TextIsSecond
<1>2. 2 \in 1 .. Len(args[i])
  BY <1>1
<1> QED BY <1>1, <1>2 DEF Line

-----------------------------------------------------------------------------
(* What a body sets. *)

LEMMA NothingSet == ASSUME NEW cmd, NEW args PROVE OnlyAsked(cmd, args, {})
BY DEF OnlyAsked

LEMMA TogetherSet ==
  ASSUME NEW cmd, NEW args, NEW b, NEW c, OnlyAsked(cmd, args, b), OnlyAsked(cmd, args, c)
  PROVE  OnlyAsked(cmd, args, b \cup c)
BY DEF OnlyAsked

LEMMA SettingSet ==
  ASSUME NEW cmd, AsTyped(cmd), NEW args, NEW i \in DOMAIN args,
         NEW s, AskedBy(cmd, args[i], s)
  PROVE  OnlyAsked(cmd, args, {s})
BY WordsNamed DEF OnlyAsked

LEMMA TextSet ==
  ASSUME NEW cmd, AsTyped(cmd), cmd \notin {"gpio", "access"}, NEW args, NEW i, NEW key \in PlainKeys,
         Has(args, i, key), NEW v, Begins(Text(args, i), v)
  PROVE  OnlyAsked(cmd, args, {<<key, v>>})
BY TextAsked, SettingSet DEF AsTyped

LEMMA WordSet ==
  ASSUME NEW cmd, AsTyped(cmd), NEW args, NEW i \in DOMAIN args, NEW key, args[i] = <<key>>
  PROVE  OnlyAsked(cmd, args, {<<key>>})
BY WordAsked, SettingSet

LEMMA NumberSet ==
  ASSUME NEW cmd, AsTyped(cmd), NEW args, NEW i, NEW key \in NumberKeys \cup {"rate"},
         Has(args, i, key)
  PROVE  OnlyAsked(cmd, args, {<<key, atoi(Text(args, i))>>})
BY NumberAsked, SettingSet DEF AsTyped

LEMMA Number16Set ==
  ASSUME NEW cmd, AsTyped(cmd), NEW args, Fits(cmd, args), NEW i,
         NEW key \in (NumberKeys \cup {"rate"}) \cap Number16s(cmd), Has(args, i, key)
  PROVE  OnlyAsked(cmd, args, Number16(args, i, key))
<1>1. Number16(args, i, key) = {<<key, atoi(Text(args, i))>>}
  <2>1. key \in Number16s(cmd)
    OBVIOUS
  <2>2. U16(atoi(Text(args, i))) = atoi(Text(args, i))
    BY <2>1, NumberFits
  <2> QED BY <2>2 DEF Number16
<1> QED BY <1>1, NumberSet

LEMMA ChoiceSet ==
  ASSUME NEW cmd, AsTyped(cmd), cmd \notin {"gpio", "access"}, NEW args, NEW i,
         NEW key \in PlainKeys, NEW names, NEW body \in Choice(args, i, key, names)
  PROVE  OnlyAsked(cmd, args, body)
<1>1. PICK n \in names : Has(args, i, key) /\ Begins(Text(args, i), n) /\ body = {<<key, n>>}
  BY DEF Choice
<1> QED BY <1>1, TextSet

LEMMA ExactlySet ==
  ASSUME NEW cmd, AsTyped(cmd), cmd \notin {"gpio", "access"}, NEW args, Line(args), NEW i,
         NEW key \in PlainKeys, NEW names, NEW body \in Exactly(args, i, key, names)
  PROVE  OnlyAsked(cmd, args, body)
<1>1. PICK n \in names : Has(args, i, key) /\ Text(args, i) = n /\ body = {<<key, n>>}
  BY DEF Exactly
<1>2. Begins(Text(args, i), n)
  BY <1>1, BeginsItself
<1> QED BY <1>1, <1>2, TextSet

LEMMA QuerySet ==
  ASSUME NEW cmd, NEW args, NEW body \in Query(args)
  PROVE  OnlyAsked(cmd, args, body)
BY NothingSet DEF Query, When

LEMMA WordWhen ==
  ASSUME NEW cmd, AsTyped(cmd), NEW args, Line(args), NEW key,
         NEW body \in When(args # <<>> /\ args[1] = <<key>>, {<<key>>})
  PROVE  OnlyAsked(cmd, args, body)
<1>1. args # <<>> /\ args[1] = <<key>> /\ body = {<<key>>}
  BY DEF When
<1>2. 1 \in DOMAIN args
  BY <1>1, LineIsSequence
<1> QED BY <1>1, <1>2, WordSet

-----------------------------------------------------------------------------
(* Each handler sets only what the words ask for. *)

LEMMA SwitchVlanAsked ==
  ASSUME NEW args, Line(args), Fits("switch_vlan", args), NEW body \in switch_vlan(args)
  PROVE  OnlyAsked("switch_vlan", args, body)
<1>1. CASE body \in Query(args)
  BY <1>1, QuerySet
<1>2. CASE Has(args, 1, "id") /\ body = Number16(args, 1, "id")
  <2>1. "id" \in (NumberKeys \cup {"rate"}) \cap Number16s("switch_vlan")
    BY DEF NumberKeys, Number16s
  <2> QED BY <1>2, <2>1, Number16Set DEF AsTyped
<1> QED BY <1>1, <1>2 DEF switch_vlan, When

LEMMA ClearConfigAsked ==
  ASSUME NEW args, Line(args), NEW body \in clear_config(args)
  PROVE  OnlyAsked("clear_config", args, body)
<1>1. PICK a : args = <<<<a>>>> /\ body = {<<a>>}
  BY DEF clear_config
<1>2. 1 \in DOMAIN args /\ args[1] = <<a>>
  BY <1>1
<1> QED BY <1>1, <1>2, WordSet DEF AsTyped

LEMMA ClockingAsked ==
  ASSUME NEW args, Line(args), NEW body \in clocking(args)
  PROVE  OnlyAsked("clocking", args, body)
<1> USE DEF AsTyped, PlainKeys
<1>1. CASE body \in Query(args)
  BY <1>1, QuerySet
<1>2. CASE body \in Choice(args, 1, "src", {"bnc", "aes", "int"})
  BY <1>2, ChoiceSet
<1>3. CASE \/ body \in Choice(args, 1, "pref", Bools)
           \/ body \in Choice(args, 1, "udelay", Bools)
           \/ body \in Choice(args, 1, "enabled", Bools)
           \/ body \in Choice(args, 1, "slave_only", Bools)
  BY <1>3, ChoiceSet
<1>4. CASE body \in When(Has(args, 1, "subdomain"), {<<"subdomain", Text(args, 1)>>})
  BY <1>4, BeginsItself, TextSet DEF When
<1> QED BY <1>1, <1>2, <1>3, <1>4 DEF clocking

LEMMA UclockingAsked ==
  ASSUME NEW args, Line(args), NEW body \in uclocking(args)
  PROVE  OnlyAsked("uclocking", args, body)
<1> USE DEF AsTyped, PlainKeys
<1>1. CASE body \in Query(args)
  BY <1>1, QuerySet
<1>2. CASE body \in Exactly(args, 1, "enabled", Bools)
  BY <1>2, ExactlySet
<1>3. CASE body \in When(args # <<>> /\ args[1] = <<"reload">>, {<<"reload">>})
  BY <1>3, WordWhen
<1> QED BY <1>1, <1>2, <1>3 DEF uclocking

LEMMA IgmpAsked ==
  ASSUME NEW args, Line(args), Fits("igmp", args), NEW body \in igmp(args)
  PROVE  OnlyAsked("igmp", args, body)
<1>1. CASE body \in Query(args)
  BY <1>1, QuerySet
<1>2. CASE Has(args, 1, "vers") /\ body = Number16(args, 1, "vers")
  <2>1. "vers" \in (NumberKeys \cup {"rate"}) \cap Number16s("igmp")
    BY DEF NumberKeys, Number16s
  <2> QED BY <1>2, <2>1, Number16Set DEF AsTyped
<1> QED BY <1>1, <1>2 DEF igmp, When

LEMMA IfstatsAsked ==
  ASSUME NEW args, Line(args), NEW body \in ifstats(args)
  PROVE  OnlyAsked("ifstats", args, body)
<1>1. CASE body \in Query(args)
  BY <1>1, QuerySet
<1>2. CASE body \in When(args # <<>> /\ args[1] = <<"clear">>, {<<"clear">>})
  BY <1>2, WordWhen DEF AsTyped
<1> QED BY <1>1, <1>2 DEF ifstats

LEMMA SrateAsked ==
  ASSUME NEW args, Line(args), Fits("srate", args), NEW body \in srate(args)
  PROVE  OnlyAsked("srate", args, body)
<1>1. CASE body \in Query(args)
  BY <1>1, QuerySet
<1>2. CASE Has(args, 1, "rate") /\ body = {<<"rate", U32(atoi(Text(args, 1)))>>}
  <2>1. U32(atoi(Text(args, 1))) = atoi(Text(args, 1))
    BY <1>2, RateFits
  <2> QED BY <1>2, <2>1, NumberSet DEF AsTyped
<1> QED BY <1>1, <1>2 DEF srate

LEMMA PullupAsked ==
  ASSUME NEW args, Line(args), NEW body \in pullup(args)
  PROVE  OnlyAsked("pullup", args, body)
<1> USE DEF AsTyped, PlainKeys
<1>1. CASE body \in Query(args)
  BY <1>1, QuerySet
<1> DEFINE values == {"0", "+4.1667", "+0.1", "-0.1", "-4.0"}
           subdomain == IF Has(args, 2, "subdomain") THEN {<<"subdomain", Text(args, 2)>>} ELSE {}
<1>2. ASSUME NEW v \in (IF Has(args, 1, "val") THEN Exactly(args, 1, "val", values) ELSE {{}}),
             body = v \cup subdomain
      PROVE  OnlyAsked("pullup", args, body)
  <2>1. OnlyAsked("pullup", args, v)
    BY <1>2, ExactlySet, NothingSet
  <2>2. OnlyAsked("pullup", args, subdomain)
    BY BeginsItself, TextSet, NothingSet
  <2> QED BY <1>2, <2>1, <2>2, TogetherSet
<1> QED BY <1>1, <1>2 DEF pullup

LEMMA EdkAsked ==
  ASSUME NEW args, Line(args), NEW body \in edk(args)
  PROVE  OnlyAsked("edk", args, body)
<1> USE DEF AsTyped, PlainKeys
<1>1. CASE body \in Query(args)
  BY <1>1, QuerySet
<1>2. CASE \/ body \in Choice(args, 1, "rev", {"other", "red", "green"})
           \/ body \in Choice(args, 1, "dig", {"spdif", "aes", "tos"})
           \/ body \in Choice(args, 1, "src", {"sync", "async"})
  BY <1>2, ChoiceSet
<1>3. CASE Has(args, 1, "pad") /\ body = {<<"pad", atoi(Text(args, 1))>>}
  BY <1>3, NumberSet DEF NumberKeys
<1> QED BY <1>1, <1>2, <1>3 DEF edk

LEMMA ModeAsked ==
  ASSUME NEW args, Line(args)
  PROVE  /\ \A body \in sysreset(args) : OnlyAsked("sysreset", args, body)
         /\ \A body \in access(args) : OnlyAsked("access", args, body)
         /\ \A body \in haremote(args) : OnlyAsked("haremote", args, body)
         /\ \A body \in ptp_logging(args) : OnlyAsked("ptp_logging", args, body)
<1> USE DEF AsTyped, PlainKeys
<1>1. \A body \in sysreset(args) : OnlyAsked("sysreset", args, body)
  BY ChoiceSet DEF sysreset
<1>2. \A body \in access(args) : OnlyAsked("access", args, body)
  <2>1. ASSUME NEW text, NEW mode, Begins(text, Compared("access", mode)),
               Has(args, 1, "mode"), Text(args, 1) = text
        PROVE  OnlyAsked("access", args, {<<"mode", mode>>})
    <3>1. Means("access", "mode", text, mode)
      BY <2>1 DEF Means, NumberKeys, AddressKeys, IdKeys
    <3> QED BY <2>1, <3>1, MeaningAsked, SettingSet
  <2>2. /\ Compared("access", "enable") = "enable" /\ Compared("access", "disable") = "disable"
        /\ Compared("access", "inetd_enable") = "inetd_e"
        /\ Compared("access", "inetd_disable") = "inetd_d"
    BY DEF Compared
  <2>3. \A body \in Choice(args, 1, "mode", {"enable", "disable"}) : OnlyAsked("access", args, body)
    BY <2>1, <2>2 DEF Choice
  <2>4. ASSUME Has(args, 1, "mode")
        PROVE  /\ Begins(Text(args, 1), "inetd_e") =>
                    OnlyAsked("access", args, {<<"mode", "inetd_enable">>})
               /\ Begins(Text(args, 1), "inetd_d") =>
                    OnlyAsked("access", args, {<<"mode", "inetd_disable">>})
    BY <2>1, <2>2, <2>4
  <2> QED BY <2>3, <2>4, QuerySet DEF access, When
<1>3. \A body \in haremote(args) : OnlyAsked("haremote", args, body)
  BY QuerySet, ExactlySet DEF haremote
<1>4. \A body \in ptp_logging(args) : OnlyAsked("ptp_logging", args, body)
  BY QuerySet, ChoiceSet DEF ptp_logging
<1> QED BY <1>1, <1>2, <1>3, <1>4

LEMMA ErrthresAsked ==
  ASSUME NEW args, Line(args), Fits("errthres", args), NEW body \in errthres(args)
  PROVE  OnlyAsked("errthres", args, body)
<1>1. CASE body \in Query(args)
  BY <1>1, QuerySet
<1>2. CASE /\ Has(args, 1, "thres") /\ Has(args, 2, "win") /\ Has(args, 3, "reset")
           /\ body = Number16(args, 1, "thres") \cup Number16(args, 2, "win")
                       \cup Number16(args, 3, "reset")
  <2>1. {"thres", "win", "reset"} \subseteq (NumberKeys \cup {"rate"}) \cap Number16s("errthres")
    BY DEF NumberKeys, Number16s
  <2>2. /\ OnlyAsked("errthres", args, Number16(args, 1, "thres"))
        /\ OnlyAsked("errthres", args, Number16(args, 2, "win"))
        /\ OnlyAsked("errthres", args, Number16(args, 3, "reset"))
    BY <1>2, <2>1, Number16Set DEF AsTyped
  <2> QED BY <1>2, <2>2, TogetherSet
<1> QED BY <1>1, <1>2 DEF errthres, When

LEMMA MeteringAsked ==
  ASSUME NEW args, Line(args), Fits("metering", args), NEW body \in metering(args)
  PROVE  OnlyAsked("metering", args, body)
<1>1. CASE body \in Query(args)
  BY <1>1, QuerySet
<1>2. CASE Has(args, 1, "rate") /\ body = Number16(args, 1, "rate")
  <2>1. "rate" \in (NumberKeys \cup {"rate"}) \cap Number16s("metering")
    BY DEF NumberKeys, Number16s
  <2> QED BY <1>2, <2>1, Number16Set DEF AsTyped
<1> QED BY <1>1, <1>2 DEF metering, When

LEMMA EncAsked ==
  ASSUME NEW args, Line(args), Fits("enc", args), NEW body \in enc(args)
  PROVE  OnlyAsked("enc", args, body)
<1>1. CASE body \in Query(args)
  BY <1>1, QuerySet
<1> DEFINE text == Text(args, 1)
           of == CASE text = "pcm24" -> 24 [] text = "raw32" -> 4864 [] OTHER -> atoi(text)
<1>2. CASE Has(args, 1, "enc") /\ body \notin Query(args)
  <2>0. "enc" \in Number16s("enc") /\ AsTyped("enc")
    BY DEF Number16s, AsTyped
  <2>1. U16(atoi(text)) = atoi(text)
    <3>1. Has(args, 1, "enc")
      BY <1>2
    <3>2. U16(atoi(Text(args, 1))) = atoi(Text(args, 1))
      BY <2>0, <3>1, NumberFits
    <3> QED BY <3>2
  <2>2. atoi("pcm24") = 0 /\ atoi("raw32") = 0
    BY LiteralRead DEF Literals
  <2>3. body = {<<"enc", of>>}
    <3> HIDE DEF text
    <3>1. CASE text = "pcm24"
      BY <1>2, <2>1, <2>2, <3>1 DEF enc, When, text
    <3>2. CASE text = "raw32"
      BY <1>2, <2>1, <2>2, <3>2 DEF enc, When, text
    <3>3. CASE text \notin {"pcm24", "raw32"}
      BY <1>2, <2>1, <3>3 DEF enc, When, text
    <3> QED BY <3>1, <3>2, <3>3
  <2>4. Means("enc", "enc", text, of)
    BY DEF Means, NumberKeys, AddressKeys, IdKeys
  <2>5. 1 \in DOMAIN args /\ AskedBy("enc", args[1], <<"enc", of>>)
    BY <1>2, <2>4, MeaningAsked
  <2> HIDE DEF of
  <2> QED BY <2>3, <2>5, SettingSet DEF AsTyped
<1> QED BY <1>1, <1>2 DEF enc, When

LEMMA SerialAsked ==
  ASSUME NEW args, Line(args), NEW body \in serial(args)
  PROVE  OnlyAsked("serial", args, body)
<1> USE DEF AsTyped, PlainKeys, NumberKeys
<1>1. CASE body \in Query(args)
  BY <1>1, QuerySet
<1> DEFINE number(i, key) == {<<key, atoi(Text(args, i))>>}
<1>2. CASE /\ Has(args, 2, "speed") /\ Has(args, 3, "bits") /\ Has(args, 4, "parity")
           /\ Has(args, 5, "stop")
           /\ body = {<<"index", 0>>} \cup {<<"parity", Text(args, 4)>>}
                       \cup number(2, "speed") \cup number(3, "bits") \cup number(5, "stop")
  <2>1. OnlyAsked("serial", args, {<<"index", 0>>})
    BY DEF OnlyAsked, Unread
  <2>2. OnlyAsked("serial", args, {<<"parity", Text(args, 4)>>})
    BY <1>2, BeginsItself, TextSet
  <2>3. /\ OnlyAsked("serial", args, number(2, "speed"))
        /\ OnlyAsked("serial", args, number(3, "bits"))
        /\ OnlyAsked("serial", args, number(5, "stop"))
    BY <1>2, NumberSet
  <2> QED BY <1>2, <2>1, <2>2, <2>3, TogetherSet
<1>3. CASE body \notin Query(args)
  <2> DEFINE keys == <<"index", "speed", "bits", "parity", "stop">>
  <2>1. /\ \A i \in 1 .. 5 : Has(args, i, keys[i])
        /\ \E p : /\ Text(args, 4) = p
                 /\ body = {<<"index", 0>>, <<"parity", p>>} \cup number(2, keys[2])
                             \cup number(3, keys[3]) \cup number(5, keys[5])
    BY <1>3 DEF serial
  <2>2. /\ Has(args, 2, keys[2]) /\ Has(args, 3, keys[3]) /\ Has(args, 4, keys[4])
        /\ Has(args, 5, keys[5])
    BY <2>1
  <2>3. keys[2] = "speed" /\ keys[3] = "bits" /\ keys[4] = "parity" /\ keys[5] = "stop"
    OBVIOUS
  <2> HIDE DEF keys
  <2>4. body = {<<"index", 0>>, <<"parity", Text(args, 4)>>} \cup number(2, "speed")
                 \cup number(3, "bits") \cup number(5, "stop")
    BY <2>1, <2>3
  <2> QED BY <1>2, <2>2, <2>3, <2>4
<1> QED BY <1>1, <1>3

LEMMA GpioAsked ==
  ASSUME NEW args, Line(args), NEW body \in gpio(args)
  PROVE  OnlyAsked("gpio", args, body)
<1> USE DEF AsTyped
<1> DEFINE value(i, key) == IF Has(args, i, key) /\ Begins(Text(args, i), "0x")
                              THEN hex(Text(args, i)) ELSE 0
<1>1. CASE args = <<<<"query">>>> /\ body = {<<"query">>}
  <2>1. 1 \in DOMAIN args /\ args[1] = <<"query">>
    BY <1>1
  <2> QED BY <1>1, <2>1, WordSet
<1>2. CASE /\ Len(args) = 3 /\ args[1] = <<"output">>
           /\ body = {<<"output">>} \cup {<<"mask", value(2, "mask")>>}
                       \cup {<<"val", value(3, "val")>>}
  <2>1. OnlyAsked("gpio", args, {<<"output">>})
    <3>1. 1 \in DOMAIN args
      <4>1. args # <<>>
        BY <1>2
      <4> QED BY <4>1, LineIsSequence
    <3> QED BY <1>2, <3>1, WordSet
  <2>2. ASSUME NEW i, NEW key \in {"mask", "val"}
        PROVE  OnlyAsked("gpio", args, {<<key, value(i, key)>>})
    <3>1. CASE Has(args, i, key) /\ value(i, key) = hex(Text(args, i))
      <4>1. Means("gpio", key, Text(args, i), hex(Text(args, i)))
        BY DEF Means, NumberKeys, AddressKeys, IdKeys
      <4> QED BY <3>1, <4>1, MeaningAsked, SettingSet
    <3>2. CASE value(i, key) = 0
      BY <3>2 DEF OnlyAsked, IsDefault
    <3> QED BY <3>1, <3>2
  <2>3. /\ OnlyAsked("gpio", args, {<<"mask", value(2, "mask")>>})
        /\ OnlyAsked("gpio", args, {<<"val", value(3, "val")>>})
    BY <2>2
  <2> HIDE DEF value
  <2> QED BY <1>2, <2>1, <2>3, TogetherSet
<1> QED BY <1>1, <1>2 DEF gpio, When

LEMMA NameIdAsked ==
  ASSUME NEW args, Line(args), NEW body \in name_id(args)
  PROVE  OnlyAsked("name_id", args, body)
<1>1. body = {<<i, args[i]>> : i \in DOMAIN args}
  BY DEF name_id, When
<1>2. Named("name_id", args) = {<<i, args[i]>> : i \in DOMAIN args}
  BY DEF Named
<1>3. ASSUME NEW i \in DOMAIN args
      PROVE  AskedBy("name_id", <<i, args[i]>>, <<i, args[i]>>)
  BY DEF AskedBy, Means
<1> QED BY <1>1, <1>2, <1>3 DEF OnlyAsked

-----------------------------------------------------------------------------
(* Addresses: one that fits and that parse_address does not refuse is read as it is written. *)

LEMMA PowersOfTwo ==
  /\ 2 ^ 0 = 1 /\ 2 ^ 1 = 2 /\ 2 ^ 2 = 4 /\ 2 ^ 3 = 8
  /\ 2 ^ 4 = 16 /\ 2 ^ 5 = 32 /\ 2 ^ 6 = 64 /\ 2 ^ 7 = 128
OBVIOUS

LEMMA PowersOfByte == 256 ^ 0 = 1 /\ 256 ^ 1 = 256 /\ 256 ^ 2 = 65536 /\ 256 ^ 3 = 16777216
OBVIOUS

\* What fits into a byte leaves the other bytes alone.
LEMMA ByteByItself ==
  ASSUME NEW n \in Unsigned8
  PROVE  ByteOf(n, 3) = 0 /\ ByteOf(n, 2) = 0 /\ ByteOf(n, 1) = 0 /\ ByteOf(n, 0) = n
BY PowersOfByte DEF ByteOf, Unsigned8

LEMMA OrNothing ==
  ASSUME NEW a \in Unsigned8
  PROVE  Or(a, 0) = a
<1> DEFINE bit(k) == IF (a \div k) % 2 = 1 THEN k ELSE 0
<1>1. bit(1) + bit(2) + bit(4) + bit(8) + bit(16) + bit(32) + bit(64) + bit(128) = a
  BY DEF Unsigned8
<1>2. Or(a, 0) = bit(1) + bit(2) + bit(4) + bit(8) + bit(16) + bit(32) + bit(64) + bit(128)
  BY PowersOfTwo DEF Or, Unsigned8
<1> QED BY <1>1, <1>2

\* parse_address, of what sscanf has read.
OfQuad(v) ==
  IF Len(v) < 4 \/ \E i \in 1 .. 3 : v[i] \notin 0 .. 255 THEN NoAddress
  ELSE [i \in 1 .. 3 |-> Or(v[i], ByteOf(v[4], 4 - i))] \o <<ByteOf(v[4], 0)>>

LEMMA AddressQuad ==
  ASSUME NEW v \in Seq(Int), IsAddress(v)
  PROVE  OfQuad(v) = v
<1>1. Len(v) = 4 /\ \A i \in 1 .. 4 : v[i] \in Unsigned8
  BY DEF IsAddress
<1>2. \A i \in 1 .. 3 : ByteOf(v[4], 4 - i) = 0
  <2>1. /\ ByteOf(v[4], 4 - 1) = 0 /\ ByteOf(v[4], 4 - 2) = 0 /\ ByteOf(v[4], 4 - 3) = 0
    BY <1>1, ByteByItself
  <2> QED BY <2>1
<1>3. \A i \in 1 .. 3 : Or(v[i], ByteOf(v[4], 4 - i)) = v[i]
  BY <1>1, <1>2, OrNothing
<1>4. ByteOf(v[4], 0) = v[4]
  BY <1>1, ByteByItself
<1>5. [i \in 1 .. 3 |-> Or(v[i], ByteOf(v[4], 4 - i))] = [i \in 1 .. 3 |-> v[i]]
  BY <1>3
<1>6. OfQuad(v) = [i \in 1 .. 3 |-> v[i]] \o <<v[4]>>
  <2>1. ~(Len(v) < 4 \/ \E i \in 1 .. 3 : v[i] \notin 0 .. 255)
    BY <1>1 DEF Unsigned8
  <2> QED BY <2>1, <1>4, <1>5 DEF OfQuad
<1>7. [i \in 1 .. 3 |-> v[i]] \o <<v[4]>> = v
  <2>1. [i \in 1 .. 3 |-> v[i]] = <<v[1], v[2], v[3]>>
    BY <1>1
  <2>2. v = <<v[1], v[2], v[3], v[4]>>
    BY <1>1
  <2> QED BY <2>1, <2>2
<1> QED BY <1>6, <1>7

LEMMA QuadRead ==
  ASSUME NEW v \in Seq(Int), Len(v) <= 4, OfQuad(v) # NoAddress,
         Len(v) = 4 => v[4] \in Unsigned8
  PROVE  OfQuad(v) = v
<1>1. ~(Len(v) < 4 \/ \E i \in 1 .. 3 : v[i] \notin 0 .. 255)
  BY DEF OfQuad
<1>2. Len(v) = 4
  <2>1. \A n \in Nat : ~(n < 4) /\ n <= 4 => n = 4
    OBVIOUS
  <2>2. Len(v) \in Nat /\ ~(Len(v) < 4) /\ Len(v) <= 4
    BY <1>1
  <2> QED BY <2>1, <2>2, Zenon
<1>3. v[4] \in Unsigned8
  BY <1>2
<1>4. \A i \in 1 .. 3 : v[i] \in Unsigned8
  BY <1>1 DEF Unsigned8
<1>5. IsAddress(v)
  BY <1>2, <1>3, <1>4 DEF IsAddress
<1> QED BY <1>5, AddressQuad

LEMMA AddressRead ==
  ASSUME NEW text, quad(text) \in Seq(Int), Len(quad(text)) <= 4,
         Len(quad(text)) = 4 => quad(text)[4] \in Unsigned8,
         parse_address(text) # NoAddress
  PROVE  parse_address(text) = quad(text)
<1> DEFINE v == quad(text)
<1>1. parse_address(text) = OfQuad(v)
  BY DEF parse_address, OfQuad
<1>2. v \in Seq(Int) /\ Len(v) <= 4 /\ (Len(v) = 4 => v[4] \in Unsigned8)
  OBVIOUS
<1> HIDE DEF v
<1>3. OfQuad(v) = v
  BY <1>1, <1>2, QuadRead
<1> QED BY <1>1, <1>3 DEF v

\* The first text of a word, and the second unless it is an identifier's, may be an address.
LEMMA TextsRead ==
  ASSUME NEW args, Line(args), NEW i \in DOMAIN args
  PROVE  /\ Len(args[i]) \in 1 .. 3
         /\ quad(args[i][1]) \in Seq(Int) /\ Len(quad(args[i][1])) <= 4
         /\ Begins(args[i][1], args[i][1])
         /\ Len(args[i]) > 1 /\ args[i][1] \notin IdKeys
              => quad(args[i][2]) \in Seq(Int) /\ Len(quad(args[i][2])) <= 4
<1>1. Len(args[i]) \in 1 .. 3
  BY DEF Line
<1>2. \A k \in 1 .. Len(args[i]) :
        /\ Begins(args[i][k], args[i][k])
        /\ ~(k = 2 /\ args[i][1] \in IdKeys)
             => quad(args[i][k]) \in Seq(Int) /\ Len(quad(args[i][k])) <= 4
  <2> SUFFICES ASSUME NEW k \in 1 .. Len(args[i])
               PROVE  /\ Begins(args[i][k], args[i][k])
                      /\ ~(k = 2 /\ args[i][1] \in IdKeys)
                           => quad(args[i][k]) \in Seq(Int) /\ Len(quad(args[i][k])) <= 4
    OBVIOUS
  <2>1. /\ Begins(args[i][k], args[i][k])
        /\ IF k = 2 /\ args[i][1] \in IdKeys
             THEN args[i][k] \in Seq(1 .. 255)
             ELSE quad(args[i][k]) \in Seq(Int) /\ Len(quad(args[i][k])) <= 4
    BY Zenon DEF Line
  <2> QED BY <2>1, Zenon
<1>3. 1 \in 1 .. Len(args[i]) /\ (Len(args[i]) > 1 => 2 \in 1 .. Len(args[i]))
  <2>1. \A n \in 1 .. 3 : 1 \in 1 .. n /\ (n > 1 => 2 \in 1 .. n)
    OBVIOUS
  <2> QED BY <1>1, <2>1, Zenon
<1>4. Begins(args[i][1], args[i][1]) /\ quad(args[i][1]) \in Seq(Int) /\ Len(quad(args[i][1])) <= 4
  <2>1. 1 # 2
    OBVIOUS
  <2> QED BY <1>2, <1>3, <2>1, Zenon
<1>5. Len(args[i]) > 1 /\ args[i][1] \notin IdKeys
        => quad(args[i][2]) \in Seq(Int) /\ Len(quad(args[i][2])) <= 4
  BY <1>2, <1>3, Zenon
<1> QED BY <1>1, <1>4, <1>5, Zenon

LEMMA UpgradeAsked ==
  ASSUME NEW args, Line(args), Fits("upgrade", args), NEW body \in upgrade(args)
  PROVE  OnlyAsked("upgrade", args, body)
<1> DEFINE server == IF Has(args, 1, "server") THEN parse_address(Text(args, 1)) ELSE NoAddress
           port   == IF Has(args, 2, "port") THEN U16(atoi(Text(args, 2))) ELSE 0
<1>0. AsTyped("upgrade")
  BY DEF AsTyped
<1>1. /\ Has(args, 3, "path") /\ server # NoAddress
      /\ body = {<<"server", server>>, <<"port", port>>, <<"path", Text(args, 3)>>}
  BY DEF upgrade, When
<1>2. OnlyAsked("upgrade", args, {<<"server", server>>})
  <2>1. Has(args, 1, "server") /\ server = parse_address(Text(args, 1))
    BY <1>1
  <2>2. 1 \in DOMAIN args /\ Len(args[1]) = 2 /\ args[1][1] = "server" /\ Text(args, 1) = args[1][2]
    BY <2>1, TextIsSecond
  <2>3. args[1] \in {w \in Named("upgrade", args) : Len(w) = 2}
    BY <1>0, <2>2, WordsNamed
  <2>4. Len(quad(args[1][2])) = 4 => quad(args[1][2])[4] \in Unsigned8
    <3>1. \A w \in {v \in Named("upgrade", args) : Len(v) = 2} :
            w[1] \in AddressKeys /\ Len(quad(w[2])) = 4 => quad(w[2])[4] \in Unsigned8
      BY DEF Fits
    <3>2. args[1][1] \in AddressKeys
      BY <2>2 DEF AddressKeys
    <3> QED BY <2>3, <3>1, <3>2
  <2>5. quad(args[1][2]) \in Seq(Int) /\ Len(quad(args[1][2])) <= 4
    BY <2>2, TextsRead DEF IdKeys
  <2>6. server = quad(Text(args, 1))
    <3>1. parse_address(args[1][2]) # NoAddress
      BY <1>1, <2>1, <2>2
    <3>2. parse_address(args[1][2]) = quad(args[1][2])
      BY <2>4, <2>5, <3>1, AddressRead
    <3> QED BY <2>1, <2>2, <3>2
  <2>7. Means("upgrade", "server", Text(args, 1), server)
    <3> HIDE DEF server
    <3> QED BY <2>6 DEF Means, NumberKeys, AddressKeys, IdKeys
  <2> HIDE DEF server
  <2> QED BY <1>0, <2>1, <2>7, MeaningAsked, SettingSet
<1>3. OnlyAsked("upgrade", args, {<<"port", port>>})
  <2>1. CASE Has(args, 2, "port")
    <3>1. "port" \in (NumberKeys \cup {"rate"}) \cap Number16s("upgrade")
      BY DEF NumberKeys, Number16s
    <3>2. OnlyAsked("upgrade", args, Number16(args, 2, "port"))
      BY <1>0, <2>1, <3>1, Number16Set
    <3> QED BY <2>1, <3>2 DEF Number16
  <2>2. CASE ~Has(args, 2, "port")
    BY <2>2 DEF OnlyAsked, IsDefault
  <2> QED BY <2>1, <2>2
<1>4. OnlyAsked("upgrade", args, {<<"path", Text(args, 3)>>})
  BY <1>0, <1>1, BeginsItself, TextSet DEF PlainKeys
<1> HIDE DEF server, port
<1>5. body = {<<"server", server>>} \cup {<<"port", port>>} \cup {<<"path", Text(args, 3)>>}
  BY <1>1
<1> QED BY <1>2, <1>3, <1>4, <1>5, TogetherSet

-----------------------------------------------------------------------------
(* The commands whose words are given names. *)

LEMMA NamedSet ==
  ASSUME NEW cmd, NEW args, NEW w \in Named(cmd, args), NEW s, AskedBy(cmd, w, s)
  PROVE  OnlyAsked(cmd, args, {s})
BY DEF OnlyAsked

LEMMA NamedMeaningSet ==
  ASSUME NEW cmd, NEW args, NEW key, NEW text, <<key, text>> \in Named(cmd, args),
         NEW v, Means(cmd, key, text, v)
  PROVE  OnlyAsked(cmd, args, {<<key, v>>})
<1>1. AskedBy(cmd, <<key, text>>, <<key, v>>)
  BY DEF AskedBy
<1> QED BY <1>1, NamedSet

LEMMA NamedNumberSet ==
  ASSUME NEW cmd, cmd # "name_id", NEW args, Fits(cmd, args), NEW key \in {"index", "port"},
         NEW text, <<key, text>> \in Named(cmd, args)
  PROVE  OnlyAsked(cmd, args, {<<key, U16(atoi(text))>>})
<1>1. <<key, text>> \in {w \in Named(cmd, args) : Len(w) = 2}
  OBVIOUS
<1>2. \A w \in {v \in Named(cmd, args) : Len(v) = 2} :
        w[1] \in Number16s(cmd) => atoi(w[2]) \in Unsigned16
  BY DEF Fits
<1>3. <<key, text>>[1] = key /\ <<key, text>>[2] = text /\ key \in Number16s(cmd)
  BY DEF Number16s, NumberKeys
<1>4. atoi(text) \in Unsigned16
  BY <1>1, <1>2, <1>3
<1>5. U16(atoi(text)) = atoi(text)
  BY <1>4, SixteenBits
<1>6. Means(cmd, key, text, atoi(text))
  BY DEF Means, NumberKeys, AddressKeys, IdKeys
<1> QED BY <1>5, <1>6, NamedMeaningSet

LEMMA NamedAddressSet ==
  ASSUME NEW cmd, cmd # "name_id", NEW args, Fits(cmd, args), NEW key \in AddressKeys,
         NEW text, <<key, text>> \in Named(cmd, args),
         quad(text) \in Seq(Int), Len(quad(text)) <= 4, parse_address(text) # NoAddress
  PROVE  OnlyAsked(cmd, args, {<<key, parse_address(text)>>})
<1>1. <<key, text>> \in {w \in Named(cmd, args) : Len(w) = 2}
  OBVIOUS
<1>2. \A w \in {v \in Named(cmd, args) : Len(v) = 2} :
        w[1] \in AddressKeys /\ Len(quad(w[2])) = 4 => quad(w[2])[4] \in Unsigned8
  BY DEF Fits
<1>3. <<key, text>>[1] = key /\ <<key, text>>[2] = text
  OBVIOUS
<1>4. Len(quad(text)) = 4 => quad(text)[4] \in Unsigned8
  <2> DEFINE w == <<key, text>>
  <2>1. w[1] \in AddressKeys /\ w[2] = text /\ w \in {v \in Named(cmd, args) : Len(v) = 2}
    BY <1>1, <1>3
  <2> HIDE DEF w
  <2>2. Len(quad(w[2])) = 4 => quad(w[2])[4] \in Unsigned8
    BY <1>2, <2>1
  <2> QED BY <2>1, <2>2
<1>5. parse_address(text) = quad(text)
  BY <1>4, AddressRead
<1>6. Means(cmd, key, text, quad(text))
  BY DEF Means, NumberKeys, AddressKeys, IdKeys
<1> QED BY <1>5, <1>6, NamedMeaningSet

\* The words of a static address.
LEMMA WordsOfStatic ==
  ASSUME NEW args, Line(args), Len(args) >= 4
  PROVE  LET named == Named("interface", args)
         IN  /\ <<"static">> \in named
             /\ <<"index", args[1][1]>> \in named
             /\ <<"address", args[3][1]>> \in named
             /\ <<"netmask", args[4][1]>> \in named
             /\ 5 \in DOMAIN args => <<"dns_server", args[5][1]>> \in named
             /\ 6 \in DOMAIN args => <<"gateway", args[6][1]>> \in named
             /\ 7 \in DOMAIN args => args[7] \in named
<1> DEFINE names  == <<"index", "", "address", "netmask", "dns_server", "gateway">>
           places == DOMAIN args \ ({2} \cup 7 .. Len(args))
           rest   == {args[i] : i \in DOMAIN args \cap {7}}
<1>1. Len(args) \in Nat /\ DOMAIN args = 1 .. Len(args)
  BY LineIsSequence
<1>2. Named("interface", args)
        = {<<"static">>} \cup {<<names[i], args[i][1]>> : i \in places} \cup rest
  <2>1. Len(args) \notin 2 .. 3
    BY <1>1
  <2> QED BY <2>1, Zenon DEF Named
<1>3. 1 \in places /\ 3 \in places /\ 4 \in places
  BY <1>1
<1>4. (5 \in DOMAIN args => 5 \in places) /\ (6 \in DOMAIN args => 6 \in places)
  BY <1>1
<1>5. 7 \in DOMAIN args => args[7] \in rest
  OBVIOUS
<1>6. /\ names[1] = "index" /\ names[3] = "address" /\ names[4] = "netmask"
      /\ names[5] = "dns_server" /\ names[6] = "gateway"
  OBVIOUS
<1>7. \A i \in places : <<names[i], args[i][1]>> \in Named("interface", args)
  BY <1>2
<1> HIDE DEF names, places, rest
<1>8. /\ <<"static">> \in Named("interface", args)
      /\ 7 \in DOMAIN args => args[7] \in Named("interface", args)
  BY <1>2, <1>5
<1> QED BY <1>3, <1>4, <1>6, <1>7, <1>8

LEMMA StaticAsked ==
  ASSUME NEW args, Line(args), Fits("interface", args), Len(args) >= 4,
         parse_address(args[3][1]) # NoAddress, parse_address(args[4][1]) # NoAddress
  PROVE  LET address(i, name) ==
               {<<name, IF i \in DOMAIN args THEN parse_address(args[i][1]) ELSE NoAddress>>}
         IN  /\ OnlyAsked("interface", args, {<<"index", U16(atoi(args[1][1]))>>})
             /\ OnlyAsked("interface", args, {<<"static">>})
             /\ OnlyAsked("interface", args, address(3, "address"))
             /\ OnlyAsked("interface", args, address(4, "netmask"))
             /\ OnlyAsked("interface", args, address(5, "dns_server"))
             /\ OnlyAsked("interface", args, address(6, "gateway"))
<1>1. Len(args) \in Nat /\ DOMAIN args = 1 .. Len(args)
  BY LineIsSequence
<1>2. 1 \in DOMAIN args /\ 3 \in DOMAIN args /\ 4 \in DOMAIN args
  BY <1>1
<1>3. \A i \in DOMAIN args : quad(args[i][1]) \in Seq(Int) /\ Len(quad(args[i][1])) <= 4
  BY TextsRead
<1>4. OnlyAsked("interface", args, {<<"index", U16(atoi(args[1][1]))>>})
  BY WordsOfStatic, NamedNumberSet
<1>5. OnlyAsked("interface", args, {<<"static">>})
  <2>1. AskedBy("interface", <<"static">>, <<"static">>)
    BY DEF AskedBy
  <2> QED BY <2>1, WordsOfStatic, NamedSet
<1>6. OnlyAsked("interface", args, {<<"address", parse_address(args[3][1])>>})
  BY <1>2, <1>3, WordsOfStatic, NamedAddressSet DEF AddressKeys
<1>7. OnlyAsked("interface", args, {<<"netmask", parse_address(args[4][1])>>})
  BY <1>2, <1>3, WordsOfStatic, NamedAddressSet DEF AddressKeys
<1>8. ASSUME NEW i \in DOMAIN args, NEW name \in {"dns_server", "gateway"},
             <<name, args[i][1]>> \in Named("interface", args)
      PROVE  OnlyAsked("interface", args, {<<name, parse_address(args[i][1])>>})
  <2>1. CASE parse_address(args[i][1]) # NoAddress
    BY <1>3, <1>8, <2>1, NamedAddressSet DEF AddressKeys
  <2>2. CASE parse_address(args[i][1]) = NoAddress
    BY <2>2 DEF OnlyAsked, IsDefault
  <2> QED BY <2>1, <2>2
<1>9. ASSUME NEW name \in {"dns_server", "gateway"}
      PROVE  OnlyAsked("interface", args, {<<name, NoAddress>>})
  BY DEF OnlyAsked, IsDefault
<1>10. /\ 5 \in DOMAIN args =>
            OnlyAsked("interface", args, {<<"dns_server", parse_address(args[5][1])>>})
       /\ 6 \in DOMAIN args =>
            OnlyAsked("interface", args, {<<"gateway", parse_address(args[6][1])>>})
  BY <1>8, WordsOfStatic
<1>11. /\ OnlyAsked("interface", args, {<<"dns_server", NoAddress>>})
       /\ OnlyAsked("interface", args, {<<"gateway", NoAddress>>})
  BY <1>9
<1> QED BY <1>2, <1>4, <1>5, <1>6, <1>7, <1>10, <1>11

\* The words of a dynamic or link-local address.
LEMMA WordsOfDynamic ==
  ASSUME NEW args, Line(args), Len(args) = 2 \/ Len(args) = 3, args[2][1] \notin Bools
  PROVE  LET named == Named("interface", args)
         IN  /\ <<"index", args[1][1]>> \in named
             /\ args[2] \in named
             /\ 3 \in DOMAIN args => <<"BOOL", args[3][1]>> \in named
<1> DEFINE rest == {<<"BOOL", args[i][1]>> : i \in DOMAIN args \cap {3}}
<1>1. Named("interface", args) = {<<"index", args[1][1]>>, args[2]} \cup rest
  <2>1. ~(Len(args) >= 4) /\ Len(args) \in 2 .. 3
    <3>1. \A n : n = 2 \/ n = 3 => ~(n >= 4) /\ n \in 2 .. 3
      OBVIOUS
    <3> QED BY <3>1, Zenon
  <2>2. Named("interface", args) =
          IF args[1] = <<"redundancy">> /\ args[2][1] \in Bools
            THEN {args[1], <<"BOOL", args[2][1]>>}
          ELSE {<<"index", args[1][1]>>, args[2]} \cup rest
    BY <2>1, Zenon DEF Named
  <2> HIDE DEF rest
  <2> QED BY <2>2
<1>2. 3 \in DOMAIN args => <<"BOOL", args[3][1]>> \in rest
  OBVIOUS
<1> HIDE DEF rest
<1> QED BY <1>1, <1>2

LEMMA InterfaceAsked ==
  ASSUME NEW args, Line(args), Fits("interface", args), NEW body \in interface(args)
  PROVE  OnlyAsked("interface", args, body)
<1> DEFINE index == {<<"index", U16(atoi(args[1][1]))>>}
           address(i, name) ==
             {<<name, IF i \in DOMAIN args THEN parse_address(args[i][1]) ELSE NoAddress>>}
           static == /\ Len(args) >= 4 /\ args[2] = <<"static">>
                     /\ parse_address(args[3][1]) # NoAddress
                     /\ parse_address(args[4][1]) # NoAddress
           domain == IF Has(args, 7, "domain") /\ Text(args, 7) # ""
                       THEN {<<"domain", Text(args, 7)>>} ELSE {}
<1>1. CASE body \in Query(args)
  BY <1>1, QuerySet
<1>2. ASSUME NEW b \in Bools, args = <<<<"redundancy">>, <<b>>>>,
             body = {<<"redundancy">>, <<"BOOL", b>>}
      PROVE  OnlyAsked("interface", args, body)
  <2>1. /\ Len(args) = 2 /\ args[1] = <<"redundancy">> /\ args[2] = <<b>> /\ args[2][1] = b
        /\ 2 \in DOMAIN args
    BY <1>2
  <2>2. Named("interface", args) = {<<"redundancy">>, <<"BOOL", b>>}
    BY <2>1 DEF Named
  <2>3. Begins(b, b)
    BY <2>1, TextsRead
  <2>4. Means("interface", "BOOL", b, b)
    BY <2>3 DEF Means, NumberKeys, AddressKeys, IdKeys, Compared
  <2>5. OnlyAsked("interface", args, {<<"BOOL", b>>})
    BY <2>2, <2>4, NamedMeaningSet
  <2>6. OnlyAsked("interface", args, {<<"redundancy">>})
    <3>1. AskedBy("interface", <<"redundancy">>, <<"redundancy">>)
      BY DEF AskedBy
    <3> QED BY <2>2, <3>1, NamedSet
  <2>7. body = {<<"redundancy">>} \cup {<<"BOOL", b>>}
    BY <1>2
  <2> QED BY <2>5, <2>6, <2>7, TogetherSet
<1>3. ASSUME Len(args) = 2 \/ Len(args) = 3, NEW word \in {"dhcp", "ll", "ll_delay"}, args[2] = <<word>>
      PROVE  OnlyAsked("interface", args, index) /\ OnlyAsked("interface", args, {<<word>>})
  <2>1. args[2][1] = word /\ word \notin Bools
    BY <1>3 DEF Bools
  <2>2. <<"index", args[1][1]>> \in Named("interface", args) /\ <<word>> \in Named("interface", args)
    BY <1>3, <2>1, WordsOfDynamic
  <2>3. AskedBy("interface", <<word>>, <<word>>)
    BY DEF AskedBy
  <2> QED BY <2>2, <2>3, NamedSet, NamedNumberSet
<1>4. CASE Len(args) = 2 /\ args[2] = <<"dhcp">> /\ body = index \cup {<<"dhcp">>}
  <2> HIDE DEF index
  <2> QED BY <1>3, <1>4, TogetherSet
<1>5. ASSUME NEW word \in {"ll", "ll_delay"}, NEW b \in Bools,
             Len(args) = 3, args[2] = <<word>>, args[3] = <<b>>,
             body = index \cup {<<word>>, <<"BOOL", b>>}
      PROVE  OnlyAsked("interface", args, body)
  <2>1. args[2][1] = word /\ word \notin Bools /\ args[3][1] = b /\ 3 \in DOMAIN args
    BY <1>5, LineIsSequence DEF Bools
  <2>2. <<"BOOL", b>> \in Named("interface", args)
    BY <1>5, <2>1, WordsOfDynamic
  <2>3. Begins(b, b)
    BY <2>1, TextsRead
  <2>4. Means("interface", "BOOL", b, b)
    BY <2>3 DEF Means, NumberKeys, AddressKeys, IdKeys, Compared
  <2>5. OnlyAsked("interface", args, {<<"BOOL", b>>})
    BY <2>2, <2>4, NamedMeaningSet
  <2> HIDE DEF index
  <2>6. OnlyAsked("interface", args, index) /\ OnlyAsked("interface", args, {<<word>>})
    BY <1>3, <1>5
  <2>7. body = index \cup {<<word>>} \cup {<<"BOOL", b>>}
    BY <1>5
  <2> QED BY <2>5, <2>6, <2>7, TogetherSet
<1>6. CASE static /\ body = index \cup {<<"static">>} \cup address(3, "address")
                              \cup address(4, "netmask") \cup address(5, "dns_server")
                              \cup address(6, "gateway") \cup domain
  <2>1. /\ OnlyAsked("interface", args, index)
        /\ OnlyAsked("interface", args, {<<"static">>})
        /\ OnlyAsked("interface", args, address(3, "address"))
        /\ OnlyAsked("interface", args, address(4, "netmask"))
        /\ OnlyAsked("interface", args, address(5, "dns_server"))
        /\ OnlyAsked("interface", args, address(6, "gateway"))
    BY <1>6, StaticAsked
  <2>2. OnlyAsked("interface", args, domain)
    <3>1. CASE Has(args, 7, "domain")
      <4>1. Begins(Text(args, 7), Text(args, 7))
        BY <3>1, BeginsItself
      <4>2. 7 \in DOMAIN args /\ AskedBy("interface", args[7], <<"domain", Text(args, 7)>>)
        BY <3>1, <4>1, TextAsked DEF PlainKeys
      <4>3. args[7] \in Named("interface", args)
        BY <1>6, <4>2, WordsOfStatic
      <4> QED BY <4>2, <4>3, NamedSet, NothingSet
    <3>2. CASE ~Has(args, 7, "domain")
      BY <3>2, NothingSet
    <3> QED BY <3>1, <3>2
  <2> HIDE DEF index, address, domain
  <2> QED BY <1>6, <2>1, <2>2, TogetherSet
<1>7. \/ body \in Query(args)
      \/ \E b \in Bools : args = <<<<"redundancy">>, <<b>>>> /\ body = {<<"redundancy">>, <<"BOOL", b>>}
      \/ Len(args) = 2 /\ args[2] = <<"dhcp">> /\ body = index \cup {<<"dhcp">>}
      \/ \E g \in {"ll", "ll_delay"} \X Bools :
           /\ Len(args) = 3 /\ args[2] = <<g[1]>> /\ args[3] = <<g[2]>>
           /\ body = index \cup {<<g[1]>>, <<"BOOL", g[2]>>}
      \/ static /\ body = index \cup {<<"static">>} \cup address(3, "address")
                            \cup address(4, "netmask") \cup address(5, "dns_server")
                            \cup address(6, "gateway") \cup domain
  BY DEF interface, When
<1> HIDE DEF index, address, static, domain
<1> QED BY <1>1, <1>2, <1>4, <1>5, <1>6, <1>7

\* The words of an upgrade3: those of a TFTP server, and those with another key.
LEMMA WordsOfUpgrade3 ==
  ASSUME NEW args, NEW i \in DOMAIN args
  PROVE  LET named == Named("upgrade3", args)
         IN  /\ \A key \in {"path", "len", "mf", "model"} : Has(args, i, key) => args[i] \in named
             /\ args[i][1] = "tftp" /\ Len(args[i]) > 1 =>
                  /\ <<"tftp", args[i][2]>> \in named
                  /\ <<"port", IF Len(args[i]) = 3 THEN args[i][3] ELSE "69">> \in named
<1> DEFINE tftp(w) == {<<"tftp", w[2]>>, <<"port", IF Len(w) = 3 THEN w[3] ELSE "69">>}
           words(w) == CASE w \in Plain({"local", "query"}) -> {}
                         [] w[1] = "tftp" -> tftp(w)
                         [] OTHER -> {w}
<1>1. Named("upgrade3", args) = UNION {words(args[j]) : j \in DOMAIN args}
  BY Zenon DEF Named
<1>2. words(args[i]) \subseteq Named("upgrade3", args)
  <2> HIDE DEF words
  <2> QED BY <1>1
<1>3. ASSUME NEW key \in {"path", "len", "mf", "model"}, Has(args, i, key)
      PROVE  args[i] \in words(args[i])
  <2>1. Len(args[i]) = 2 /\ args[i][1] = key
    BY <1>3, TextIsSecond
  <2>2. args[i] \notin Plain({"local", "query"})
    BY <2>1 DEF Plain
  <2> HIDE DEF tftp
  <2> QED BY <2>1, <2>2
<1>4. ASSUME args[i][1] = "tftp", Len(args[i]) > 1
      PROVE  tftp(args[i]) = words(args[i])
  <2>1. args[i] \notin Plain({"local", "query"})
    BY <1>4 DEF Plain
  <2> HIDE DEF tftp
  <2> QED BY <1>4, <2>1
<1>5. /\ <<"tftp", args[i][2]>> \in tftp(args[i])
      /\ <<"port", IF Len(args[i]) = 3 THEN args[i][3] ELSE "69">> \in tftp(args[i])
  OBVIOUS
<1> HIDE DEF words, tftp
<1> QED BY <1>2, <1>3, <1>4, <1>5

LEMMA AddressByInet ==
  ASSUME NEW text, IsAddress(quad(text))
  PROVE  inet_addr(text) = quad(text)
BY DEF inet_addr, IsAddress, Unsigned8

LEMMA SourceAsked ==
  ASSUME NEW args, Line(args), Fits("upgrade3", args), NEW source \in Source(args)
  PROVE  OnlyAsked("upgrade3", args, source)
<1> DEFINE port == IF Len(args[1]) = 3 THEN U16(atoi(args[1][3])) ELSE 69
           addr == inet_addr(args[1][2])
           text == IF Len(args[1]) = 3 THEN args[1][3] ELSE "69"
<1>1. args # <<>>
  BY DEF Source, When
<1>2. 1 \in DOMAIN args
  BY <1>1, LineIsSequence
<1>3. CASE args[1] = <<"local">>
  BY <1>3, NothingSet DEF Source, When
<1>4. CASE args[1] # <<"local">>
  <2>1. /\ args[1][1] = "tftp" /\ Len(args[1]) > 1
        /\ source = {<<"tftp", addr>>, <<"port", port>>}
    BY <1>1, <1>4 DEF Source, When
  <2>2. <<"tftp", args[1][2]>> \in Named("upgrade3", args) /\ <<"port", text>> \in Named("upgrade3", args)
    BY <1>2, <2>1, WordsOfUpgrade3
  <2>3. OnlyAsked("upgrade3", args, {<<"tftp", addr>>})
    <3>1. \A w \in {v \in Named("upgrade3", args) : Len(v) = 2} : w[1] = "tftp" => IsAddress(quad(w[2]))
      BY DEF Fits
    <3>2. IsAddress(quad(args[1][2]))
      <4> DEFINE w == <<"tftp", args[1][2]>>
      <4>1. w \in {v \in Named("upgrade3", args) : Len(v) = 2} /\ w[1] = "tftp" /\ w[2] = args[1][2]
        BY <2>2
      <4> HIDE DEF w
      <4> QED BY <3>1, <4>1
    <3>3. addr = quad(args[1][2])
      BY <3>2, AddressByInet
    <3>4. Means("upgrade3", "tftp", args[1][2], addr)
      BY <3>3 DEF Means, NumberKeys, AddressKeys, IdKeys
    <3> HIDE DEF addr
    <3> QED BY <2>2, <3>4, NamedMeaningSet
  <2>4. OnlyAsked("upgrade3", args, {<<"port", port>>})
    <3>1. OnlyAsked("upgrade3", args, {<<"port", U16(atoi(text))>>})
      <4> HIDE DEF text
      <4> QED BY <2>2, NamedNumberSet
    <3>2. CASE Len(args[1]) = 3
      BY <3>1, <3>2
    <3>3. CASE Len(args[1]) # 3
      <4>1. atoi("69") = 69
        BY LiteralRead DEF Literals
      <4>2. U16(69) = 69
        BY DEF U16
      <4> QED BY <3>1, <3>3, <4>1, <4>2
    <3> QED BY <3>2, <3>3
  <2> HIDE DEF addr, port
  <2>5. source = {<<"tftp", addr>>} \cup {<<"port", port>>}
    BY <2>1
  <2> QED BY <2>3, <2>4, <2>5, TogetherSet
<1> QED BY <1>3, <1>4

LEMMA LastIdsAsked ==
  ASSUME NEW args, Line(args), NEW from, IdsRead(args, from)
  PROVE  OnlyAsked("upgrade3", args, LastIds(args, from))
<1> SUFFICES ASSUME NEW s \in LastIds(args, from)
             PROVE  \E w \in Named("upgrade3", args) : AskedBy("upgrade3", w, s)
  BY DEF OnlyAsked
<1>1. PICK i \in from .. Len(args), k \in IdKeys :
        Has(args, i, k) /\ s = <<k, parse_id64(Text(args, i))>>
  BY DEF LastIds
<1>2. i \in DOMAIN args /\ Len(args[i]) = 2 /\ args[i][1] = k /\ Text(args, i) = args[i][2]
  BY <1>1, TextIsSecond
<1>3. parse_id64(Text(args, i)) # Invalid
  BY <1>1 DEF IdsRead
<1>4. Text(args, i) \in Seq(Chars)
  <2>1. 2 \in 1 .. Len(args[i])
    BY <1>2
  <2> QED BY <1>2, <2>1 DEF Line, Chars
<1>5. Means("upgrade3", k, Text(args, i), parse_id64(Text(args, i)))
  BY <1>3, <1>4, ParsedIdIsWritten DEF Means, NumberKeys, AddressKeys, IdKeys
<1>6. args[i] \in Named("upgrade3", args)
  BY <1>1, <1>2, WordsOfUpgrade3 DEF IdKeys
<1> QED BY <1>1, <1>5, <1>6, MeaningAsked

LEMMA Upgrade3Asked ==
  ASSUME NEW args, Line(args), Fits("upgrade3", args), NEW body \in upgrade3(args)
  PROVE  OnlyAsked("upgrade3", args, body)
<1> DEFINE rest == IF Has(args, 3, "len") THEN 4 ELSE 3
           path == {<<"path", Text(args, 2)>>}
           len  == IF Has(args, 3, "len") THEN {<<"len", atoi(Text(args, 3))>>} ELSE {}
<1>1. CASE body = {}
  BY <1>1, NothingSet
<1>2. ASSUME NEW s \in Source(args), Has(args, 2, "path"), IdsRead(args, rest),
             body = (s \cup path \cup len) \cup LastIds(args, rest)
      PROVE  OnlyAsked("upgrade3", args, body)
  <2>1. OnlyAsked("upgrade3", args, s)
    BY SourceAsked
  <2>2. OnlyAsked("upgrade3", args, path)
    <3>1. Begins(Text(args, 2), Text(args, 2))
      BY <1>2, BeginsItself
    <3>2. 2 \in DOMAIN args /\ AskedBy("upgrade3", args[2], <<"path", Text(args, 2)>>)
      BY <1>2, <3>1, TextAsked DEF PlainKeys
    <3> QED BY <1>2, <3>2, WordsOfUpgrade3, NamedSet
  <2>3. OnlyAsked("upgrade3", args, len)
    <3>1. CASE Has(args, 3, "len")
      <4>1. 3 \in DOMAIN args /\ AskedBy("upgrade3", args[3], <<"len", atoi(Text(args, 3))>>)
        BY <3>1, NumberAsked DEF NumberKeys
      <4> QED BY <3>1, <4>1, WordsOfUpgrade3, NamedSet
    <3>2. CASE ~Has(args, 3, "len")
      BY <3>2, NothingSet
    <3> QED BY <3>1, <3>2
  <2>4. OnlyAsked("upgrade3", args, LastIds(args, rest))
    BY <1>2, LastIdsAsked
  <2> HIDE DEF path, len, rest
  <2> QED BY <1>2, <2>1, <2>2, <2>3, <2>4, TogetherSet
<1>3. \/ body = {}
      \/ \E s \in Source(args) : /\ Has(args, 2, "path") /\ IdsRead(args, rest)
                                 /\ body = (s \cup path \cup len) \cup LastIds(args, rest)
  BY DEF upgrade3, SourceFile, When
<1> HIDE DEF path, len, rest
<1> QED BY <1>1, <1>2, <1>3

-----------------------------------------------------------------------------

\* Whatever is typed, right or wrong: if its numbers fit their settings, a handler of
\* audinate_control_map sets nothing that no word has asked for, the words being as Read has them.
THEOREM BodiesOnlyAsked ==
  ASSUME NEW cmd, NEW args, Line(args), Fits(cmd, args), NEW body \in Bodies(cmd, args)
  PROVE  OnlyAsked(cmd, args, body)
<1>1. CASE cmd \in Queries
  BY <1>1, NothingSet DEF Bodies, Queries
<1>2. CASE cmd \in {"interface", "switch_vlan", "clocking", "uclocking", "name_id", "ifstats"}
  BY <1>2, InterfaceAsked, SwitchVlanAsked, ClockingAsked, UclockingAsked, NameIdAsked,
     IfstatsAsked DEF Bodies, Queries
<1>3. CASE cmd \in {"igmp", "srate", "pullup", "enc", "edk", "errthres", "metering"}
  BY <1>3, IgmpAsked, SrateAsked, PullupAsked, EncAsked, EdkAsked, ErrthresAsked,
     MeteringAsked DEF Bodies, Queries
<1>4. CASE cmd \in {"sysreset", "access", "haremote", "ptp_logging"}
  BY <1>4, ModeAsked DEF Bodies, Queries
<1>5. CASE cmd \in {"serial", "upgrade", "upgrade3", "clear_config", "gpio"}
  BY <1>5, SerialAsked, UpgradeAsked, Upgrade3Asked, ClearConfigAsked, GpioAsked
     DEF Bodies, Queries
<1> QED BY <1>1, <1>2, <1>3, <1>4, <1>5 DEF Bodies

-----------------------------------------------------------------------------
(* Of a line that follows the usage text, a message is made, and it says all of it. *)

Heeded(cmd, args) ==
  /\ Bodies(cmd, args) # {}
  /\ \A body \in Bodies(cmd, args) : Asked(cmd, args, body)

LEMMA EmptyLineHeeded ==
  ASSUME NEW cmd, AsTyped(cmd) \/ cmd = "interface", Bodies(cmd, <<>>) = {{}}
  PROVE  Heeded(cmd, <<>>)
<1>1. Len(<<>>) = 0
  OBVIOUS
<1>2. Named(cmd, <<>>) = {}
  BY <1>1 DEF Named, AsTyped
<1> QED BY <1>2 DEF Heeded, Asked

\* The commands whose lines have at most one word, but for wrong ones.
OneWorded(cmd) == AsTyped(cmd) /\ cmd \notin {"gpio", "upgrade", "serial"}

\* A message that sets one thing.
Single(body) == \E s : body = {s}

LEMMA OneWordHeeded ==
  ASSUME NEW cmd, OneWorded(cmd), NEW w, NEW args, args = <<w>>, Line(args), Fits(cmd, args),
         Bodies(cmd, args) # {}, \A body \in Bodies(cmd, args) : Single(body)
  PROVE  Heeded(cmd, args)
<1>1. Named(cmd, args) = {w}
  <2>1. DOMAIN args = {1} /\ args[1] = w
    OBVIOUS
  <2> QED BY <2>1, WordsNamed DEF OneWorded
<1>2. ASSUME NEW body \in Bodies(cmd, args)
      PROVE  Asked(cmd, args, body)
  <2>1. PICK s : body = {s}
    BY <1>2 DEF Single
  <2>2. OnlyAsked(cmd, args, {s})
    BY <2>1, BodiesOnlyAsked
  <2>3. ~IsDefault(cmd, s) /\ Unread(cmd) = {}
    BY DEF IsDefault, Unread, OneWorded, AsTyped
  <2>4. AskedBy(cmd, w, s)
    BY <1>1, <2>2, <2>3 DEF OnlyAsked
  <2> QED BY <1>1, <2>1, <2>3, <2>4 DEF Asked
<1> QED BY <1>2 DEF Heeded

\* A line of one word with a key.
LEMMA OneKeyed ==
  ASSUME NEW key, NEW text, NEW args, args = <<<<key, text>>>>
  PROVE  /\ Len(args) = 1 /\ args # <<>> /\ Text(args, 1) = text
         /\ Has(args, 1, key) /\ \A k : Has(args, 1, k) => k = key
         /\ \A k, i : i # 1 => ~Has(args, i, k)
         /\ \A word : args[1] # <<word>> /\ args # <<<<word>>>>
<1>1. args[1] = <<key, text>> /\ DOMAIN args = {1} /\ Len(args) = 1 /\ Len(args[1]) = 2
  OBVIOUS
<1>2. \A word : args[1] # <<word>> /\ args # <<<<word>>>>
  <2>1. \A word : Len(<<word>>) = 1 /\ <<<<word>>>>[1] = <<word>>
    OBVIOUS
  <2> QED BY <1>1, <2>1
<1> QED BY <1>1, <1>2 DEF Has, Text

LEMMA OneKeyedFits ==
  ASSUME NEW cmd, AsTyped(cmd), NEW key, NEW text, NEW args, args = <<<<key, text>>>>,
         key \notin AddressKeys, key \in Number16s(cmd) => atoi(text) \in Unsigned16,
         cmd = "srate" => atoi(text) \in 0 .. Width32 - 1
  PROVE  Fits(cmd, args)
<1>1. Named(cmd, args) = {<<key, text>>}
  <2>1. DOMAIN args = {1} /\ args[1] = <<key, text>>
    OBVIOUS
  <2> QED BY <2>1, WordsNamed
<1>2. <<key, text>>[1] = key /\ <<key, text>>[2] = text /\ key # "tftp"
  BY DEF AddressKeys
<1> QED BY <1>1, <1>2 DEF Fits

LEMMA OneWordFits ==
  ASSUME NEW cmd, AsTyped(cmd), NEW word, NEW args, args = <<<<word>>>>
  PROVE  Fits(cmd, args) /\ args[1] = <<word>> /\ Len(args) = 1 /\ args # <<>>
         /\ \A key, i : ~Has(args, i, key)
<1>1. DOMAIN args = {1} /\ args[1] = <<word>> /\ Len(<<word>>) = 1
  OBVIOUS
<1>2. Named(cmd, args) = {<<word>>}
  BY <1>1, WordsNamed
<1> QED BY <1>1, <1>2 DEF Fits, Has

LEMMA NaturalNumerals == \A n \in Unsigned16 : n \in Nat
BY SMTT(60) DEF Unsigned16

LEMMA NumeralRead ==
  ASSUME NEW t \in Numerals
  PROVE  atoi(t) \in Unsigned16 /\ U16(atoi(t)) = atoi(t) /\ t # "" /\ (t # "0" => atoi(t) # 0)
<1>1. atoi(t) \in Unsigned16 /\ t # "" /\ (t # "0" => atoi(t) # 0)
  BY ReadingAssumption
<1>2. U16(atoi(t)) = atoi(t)
  BY <1>1, SixteenBits
<1> QED BY <1>1, <1>2

LEMMA WhenIsSo ==
  ASSUME NEW condition, NEW body
  PROVE  /\ condition => When(condition, body) = {body}
         /\ ~condition => When(condition, body) = {}
BY DEF When

LEMMA NoQuery ==
  ASSUME NEW args, args # <<>>
  PROVE  Query(args) = {}
BY DEF Query, When

LEMMA SwitchVlanHeeded ==
  ASSUME NEW args \in Usage("switch_vlan"), Line(args)
  PROVE  Heeded("switch_vlan", args)
<1>1. CASE args = <<>>
  <2>1. \A k : ~Has(<<>>, 1, k)
    BY DEF Has
  <2>2. Bodies("switch_vlan", <<>>) = {{}}
    BY <2>1 DEF Bodies, Queries, switch_vlan, Query, When
  <2> QED BY <1>1, <2>2, EmptyLineHeeded DEF AsTyped
<1>2. CASE args # <<>>
  <2>1. PICK t \in Numerals : args = <<<<"id", t>>>>
    BY <1>2 DEF Usage, Queries, One, Keyed
  <2>a. atoi(t) \in Unsigned16 /\ t # ""
    BY NumeralRead
  <2>2. Fits("switch_vlan", args)
    <3>1. AsTyped("switch_vlan") /\ "id" \notin AddressKeys /\ "switch_vlan" # "srate"
      BY DEF AsTyped, AddressKeys
    <3> QED BY <2>1, <2>a, <3>1, OneKeyedFits
  <2>3. Bodies("switch_vlan", args) = {Number16(args, 1, "id")}
    <3>1. Len(args) = 1 /\ Has(args, 1, "id") /\ Text(args, 1) = t
      BY <2>1, OneKeyed
    <3>2. switch_vlan(args) = {Number16(args, 1, "id")}
      BY <1>2, <2>a, <3>1, NoQuery, WhenIsSo DEF switch_vlan
    <3> QED BY <3>2 DEF Bodies, Queries
  <2> QED BY <2>1, <2>2, <2>3, OneWordHeeded DEF OneWorded, AsTyped, Number16, Single
<1> QED BY <1>1, <1>2

LEMMA ClearConfigHeeded ==
  ASSUME NEW args \in Usage("clear_config") \ Misprinted("clear_config"), Line(args)
  PROVE  Heeded("clear_config", args)
<1>1. PICK a \in {"keep_ip", "all", "query"} : args = <<<<a>>>>
  BY DEF Usage, Misprinted, Queries, One, Plain
<1>2. Fits("clear_config", args)
  BY <1>1, OneWordFits DEF AsTyped
<1>3. /\ {<<a>>} \in Bodies("clear_config", args)
      /\ \A body \in Bodies("clear_config", args) : Single(body)
  BY <1>1 DEF Bodies, Queries, clear_config, Single
<1> QED BY <1>1, <1>2, <1>3, OneWordHeeded DEF OneWorded, AsTyped

\* A query, when all that the handler makes of a line without words is the empty body.
LEMMA NoWord ==
  /\ Query(<<>>) = {{}} /\ \A i, k : ~Has(<<>>, i, k)
  /\ \A i, k, names : Choice(<<>>, i, k, names) = {} /\ Exactly(<<>>, i, k, names) = {}
<1>1. Query(<<>>) = {{}} /\ \A i, k : ~Has(<<>>, i, k)
  BY DEF Query, When, Has
<1> QED BY <1>1 DEF Choice, Exactly

\* A choice that the word makes.
LEMMA OneChoice ==
  ASSUME NEW key, NEW names, NEW text \in names, NEW args, args = <<<<key, text>>>>, Line(args)
  PROVE  {<<key, text>>} \in Choice(args, 1, key, names) /\ {<<key, text>>} \in Exactly(args, 1, key, names)
<1>1. Has(args, 1, key) /\ Text(args, 1) = text
  BY OneKeyed
<1>2. Begins(text, text)
  BY <1>1, BeginsItself
<1> QED BY <1>1, <1>2 DEF Choice, Exactly

LEMMA ChoicesAreSingle ==
  ASSUME NEW args, NEW i, NEW key, NEW names
  PROVE  /\ \A body \in Choice(args, i, key, names) : Single(body)
         /\ \A body \in Exactly(args, i, key, names) : Single(body)
BY DEF Choice, Exactly, Single

LEMMA WhenIsSingle ==
  ASSUME NEW condition, NEW setting
  PROVE  \A body \in When(condition, {setting}) : Single(body)
BY DEF When, Single

LEMMA ClockingHeeded ==
  ASSUME NEW args \in Usage("clocking") \ Misprinted("clocking"), Line(args)
  PROVE  Heeded("clocking", args)
<1>0. Bodies("clocking", args) = clocking(args)
  BY DEF Bodies, Queries
<1>1. CASE args = <<>>
  <2>1. Bodies("clocking", <<>>) = {{}}
    BY NoWord DEF Bodies, Queries, clocking, When
  <2> QED BY <1>1, <2>1, EmptyLineHeeded DEF AsTyped
<1>2. CASE args # <<>>
  <2> DEFINE keys == {"pref", "udelay", "enabled", "slave_only"}
  <2>1. PICK key, t : /\ args = <<<<key, t>>>>
                      /\ \/ key = "src" /\ t \in {"int", "bnc", "aes"}
                         \/ key = "subdomain" /\ t \in Names
                         \/ key \in keys /\ t \in Bools
    BY <1>2 DEF Usage, Misprinted, Queries, One, Keyed, Plain
  <2>2. Fits("clocking", args)
    BY <2>1, OneKeyedFits DEF AsTyped, AddressKeys, Number16s, NumberKeys
  <2>3. clocking(args) # {}
    <3>1. CASE key = "src"
      BY <2>1, <3>1, OneChoice DEF clocking
    <3>2. CASE key = "subdomain"
      <4>1. Has(args, 1, "subdomain")
        BY <2>1, <3>2, OneKeyed
      <4> QED BY <4>1, WhenIsSo DEF clocking
    <3>3. CASE key \in keys
      BY <2>1, <3>3, OneChoice DEF clocking
    <3> QED BY <2>1, <3>1, <3>2, <3>3
  <2>4. Query(args) = {}
    BY <1>2 DEF Query, When
  <2>5. \A body \in clocking(args) : Single(body)
    <3> SUFFICES ASSUME NEW body \in clocking(args) PROVE Single(body)
      OBVIOUS
    <3>1. CASE body \in When(Has(args, 1, "subdomain"), {<<"subdomain", Text(args, 1)>>})
      BY <3>1, WhenIsSingle
    <3>2. CASE \/ body \in Choice(args, 1, "src", {"bnc", "aes", "int"})
               \/ \E k \in keys : body \in Choice(args, 1, k, Bools)
      BY <3>2, ChoicesAreSingle
    <3> QED BY <2>4, <3>1, <3>2 DEF clocking
  <2> QED BY <1>0, <2>1, <2>2, <2>3, <2>5, OneWordHeeded DEF OneWorded, AsTyped
<1> QED BY <1>1, <1>2

LEMMA UclockingHeeded ==
  ASSUME NEW args \in Usage("uclocking"), Line(args)
  PROVE  Heeded("uclocking", args)
<1>0. Bodies("uclocking", args) = uclocking(args)
  BY DEF Bodies, Queries
<1>1. CASE args = <<>>
  <2>1. Bodies("uclocking", <<>>) = {{}}
    BY NoWord DEF Bodies, Queries, uclocking, When
  <2> QED BY <1>1, <2>1, EmptyLineHeeded DEF AsTyped
<1>2. CASE args # <<>>
  <2>1. Query(args) = {}
    BY <1>2 DEF Query, When
  <2>2. \A body \in uclocking(args) : Single(body)
    <3> SUFFICES ASSUME NEW body \in uclocking(args) PROVE Single(body)
      OBVIOUS
    <3>1. CASE body \in When(args # <<>> /\ args[1] = <<"reload">>, {<<"reload">>})
      BY <3>1, WhenIsSingle
    <3>2. CASE body \in Exactly(args, 1, "enabled", Bools)
      BY <3>2, ChoicesAreSingle
    <3> QED BY <2>1, <3>1, <3>2 DEF uclocking
  <2>3. PICK w : /\ args = <<w>>
                 /\ w = <<"reload">> \/ \E t \in Bools : w = <<"enabled", t>>
    BY <1>2 DEF Usage, Queries, One, Keyed, Plain
  <2>4. CASE w = <<"reload">>
    <3>1. args[1] = <<"reload">> /\ Fits("uclocking", args)
      BY <2>3, <2>4, OneWordFits DEF AsTyped
    <3>2. uclocking(args) # {}
      BY <1>2, <3>1, WhenIsSo DEF uclocking
    <3> QED BY <1>0, <2>2, <2>3, <3>1, <3>2, OneWordHeeded DEF OneWorded, AsTyped
  <2>5. ASSUME NEW t \in Bools, w = <<"enabled", t>>
        PROVE  Heeded("uclocking", args)
    <3>1. Fits("uclocking", args)
      BY <2>3, <2>5, OneKeyedFits DEF AsTyped, AddressKeys, Number16s, NumberKeys
    <3>2. uclocking(args) # {}
      BY <2>3, <2>5, OneChoice DEF uclocking
    <3> QED BY <1>0, <2>2, <2>3, <3>1, <3>2, OneWordHeeded DEF OneWorded, AsTyped
  <2> QED BY <2>3, <2>4, <2>5
<1> QED BY <1>1, <1>2

LEMMA IgmpHeeded ==
  ASSUME NEW args \in Usage("igmp"), Line(args)
  PROVE  Heeded("igmp", args)
<1>0. Bodies("igmp", args) = igmp(args)
  BY DEF Bodies, Queries
<1>1. CASE args = <<>>
  <2>1. Bodies("igmp", <<>>) = {{}}
    BY NoWord DEF Bodies, Queries, igmp, When
  <2> QED BY <1>1, <2>1, EmptyLineHeeded DEF AsTyped
<1>2. CASE args # <<>>
  <2>1. PICK t \in {"1", "2", "3"} : args = <<<<"vers", t>>>>
    BY <1>2 DEF Usage, Queries, One, Keyed
  <2>2. atoi(t) = 1 \/ atoi(t) = 2 \/ atoi(t) = 3
    BY LiteralRead DEF Literals
  <2>3. atoi(t) \in Unsigned16 /\ U16(atoi(t)) \in 1 .. 3
    <3>1. 1 \in Unsigned16 /\ 2 \in Unsigned16 /\ 3 \in Unsigned16
      BY DEF Unsigned16
    <3>2. U16(1) = 1 /\ U16(2) = 2 /\ U16(3) = 3
      BY <3>1, SixteenBits
    <3>3. 1 \in 1 .. 3 /\ 2 \in 1 .. 3 /\ 3 \in 1 .. 3
      OBVIOUS
    <3> QED BY <2>2, <3>1, <3>2, <3>3, Zenon
  <2>4. Fits("igmp", args)
    <3>1. AsTyped("igmp") /\ "vers" \notin AddressKeys
      BY DEF AsTyped, AddressKeys
    <3> QED BY <2>1, <2>3, <3>1, OneKeyedFits
  <2>5. igmp(args) = {Number16(args, 1, "vers")}
    <3>1. Has(args, 1, "vers") /\ Text(args, 1) = t
      BY <2>1, OneKeyed
    <3> QED BY <1>2, <2>3, <3>1, NoQuery, WhenIsSo DEF igmp
  <2>6. Single(Number16(args, 1, "vers"))
    BY DEF Single, Number16
  <2> QED BY <1>0, <2>1, <2>4, <2>5, <2>6, OneWordHeeded DEF OneWorded, AsTyped
<1> QED BY <1>1, <1>2

LEMMA IfstatsHeeded ==
  ASSUME NEW args \in Usage("ifstats"), Line(args)
  PROVE  Heeded("ifstats", args)
<1>0. Bodies("ifstats", args) = ifstats(args)
  BY DEF Bodies, Queries
<1>1. CASE args = <<>>
  <2>1. Bodies("ifstats", <<>>) = {{}}
    BY NoWord DEF Bodies, Queries, ifstats, When
  <2> QED BY <1>1, <2>1, EmptyLineHeeded DEF AsTyped
<1>2. CASE args # <<>>
  <2>1. args = <<<<"clear">>>>
    BY <1>2 DEF Usage, Queries, One, Plain
  <2>2. Fits("ifstats", args) /\ args[1] = <<"clear">>
    BY <2>1, OneWordFits DEF AsTyped
  <2>3. ifstats(args) = {{<<"clear">>}}
    BY <1>2, <2>2, NoQuery, WhenIsSo DEF ifstats
  <2>4. Single({<<"clear">>})
    BY DEF Single
  <2> QED BY <1>0, <2>1, <2>2, <2>3, <2>4, OneWordHeeded DEF OneWorded, AsTyped
<1> QED BY <1>1, <1>2

LEMMA SrateHeeded ==
  ASSUME NEW args \in Usage("srate"), Line(args)
  PROVE  Heeded("srate", args)
<1>0. Bodies("srate", args) = srate(args)
  BY DEF Bodies, Queries
<1>1. CASE args = <<>>
  <2>1. Bodies("srate", <<>>) = {{}}
    BY NoWord DEF Bodies, Queries, srate
  <2> QED BY <1>1, <2>1, EmptyLineHeeded DEF AsTyped
<1>2. CASE args # <<>>
  <2>1. PICK t \in {"44100", "48000", "88200", "96000", "176400", "192000"} :
          args = <<<<"rate", t>>>>
    BY <1>2 DEF Usage, Queries, One, Keyed
  <2>2. atoi(t) \in Rates /\ atoi(t) \in 0 .. Width32 - 1 /\ U32(atoi(t)) = atoi(t)
    <3>1. atoi(t) \in Rates
      BY LiteralRead DEF Literals, Rates
    <3>2. \A q \in Rates : q \in Nat /\ q < Width32
      BY WidthAssumption DEF Rates
    <3>3. atoi(t) \in 0 .. Width32 - 1
      BY <3>1, <3>2, WidthAssumption
    <3> QED BY <3>1, <3>3, ThirtyTwoBits
  <2>3. Fits("srate", args)
    <3>1. AsTyped("srate") /\ "rate" \notin AddressKeys /\ "rate" \notin Number16s("srate")
      BY DEF AsTyped, AddressKeys, Number16s, NumberKeys
    <3> QED BY <2>1, <2>2, <3>1, OneKeyedFits
  <2>4. Has(args, 1, "rate") /\ Text(args, 1) = t
    BY <2>1, OneKeyed
  <2>5. {<<"rate", atoi(t)>>} \in srate(args)
    BY <2>2, <2>4 DEF srate
  <2>6. \A body \in srate(args) : Single(body)
    BY <1>2, NoQuery DEF srate, Single
  <2> QED BY <1>0, <2>1, <2>3, <2>5, <2>6, OneWordHeeded DEF OneWorded, AsTyped
<1> QED BY <1>1, <1>2

LEMMA EncHeeded ==
  ASSUME NEW args \in Usage("enc") \ Misprinted("enc"), Line(args)
  PROVE  Heeded("enc", args)
<1> DEFINE n(text) == U16(atoi(text))
           of(text) == CASE n(text) # 0 -> n(text)
                         [] text = "pcm24" -> 24
                         [] text = "raw32" -> 4864
                         [] OTHER -> 0
<1>0. Bodies("enc", args) = enc(args)
  BY DEF Bodies, Queries
<1>a. enc(args) = Query(args) \cup When(Has(args, 1, "enc") /\ of(Text(args, 1)) # 0,
                                        {<<"enc", of(Text(args, 1))>>})
  BY DEF enc
<1> HIDE DEF of
<1>1. CASE args = <<>>
  <2>1. Bodies("enc", <<>>) = {{}}
    BY <1>0, <1>1, <1>a, NoWord, WhenIsSo
  <2> QED BY <1>1, <2>1, EmptyLineHeeded DEF AsTyped
<1>2. CASE args # <<>>
  <2>1. PICK t \in (Numerals \ {"0"}) \cup {"pcm24", "raw32"} : args = <<<<"enc", t>>>>
    BY <1>2 DEF Usage, Misprinted, Queries, One, Keyed
  <2>2. t \in {"pcm24", "raw32"} => atoi(t) = 0
    BY LiteralRead DEF Literals
  <2>3. atoi(t) \in Unsigned16 /\ n(t) = atoi(t)
    <3>1. CASE t \in Numerals
      BY <3>1, NumeralRead
    <3>2. CASE t \in {"pcm24", "raw32"}
      <4>1. 0 \in Unsigned16 /\ U16(0) = 0
        BY DEF Unsigned16, U16
      <4> QED BY <2>2, <3>2, <4>1
    <3> QED BY <3>1, <3>2
  <2>4. of(t) # 0
    <3>1. CASE t \in Numerals \ {"0"} /\ t \notin {"pcm24", "raw32"}
      <4>1. atoi(t) # 0
        BY <3>1, NumeralRead
      <4>2. n(t) # 0
        BY <2>3, <4>1
      <4> HIDE DEF n
      <4> QED BY <4>2 DEF of
    <3>2. CASE t = "pcm24"
      BY <2>2, <2>3, <3>2 DEF of
    <3>3. CASE t = "raw32"
      BY <2>2, <2>3, <3>3 DEF of
    <3> QED BY <3>1, <3>2, <3>3
  <2>5. Fits("enc", args)
    <3>1. AsTyped("enc") /\ "enc" \notin AddressKeys
      BY DEF AsTyped, AddressKeys
    <3> QED BY <2>1, <2>3, <3>1, OneKeyedFits
  <2>6. Has(args, 1, "enc") /\ Text(args, 1) = t
    BY <2>1, OneKeyed
  <2>7. enc(args) = {{<<"enc", of(t)>>}}
    BY <1>2, <1>a, <2>4, <2>6, NoQuery, WhenIsSo
  <2>8. Single({<<"enc", of(t)>>})
    BY DEF Single
  <2>9. OneWorded("enc")
    BY DEF OneWorded, AsTyped
  <2> DEFINE body == {<<"enc", of(t)>>}  w == <<"enc", t>>
  <2>10. Bodies("enc", args) = {body} /\ Single(body) /\ args = <<w>>
    BY <1>0, <2>1, <2>7, <2>8, Zenon
  <2> HIDE DEF of, n, body, w
  <2>11. Bodies("enc", args) # {} /\ \A b \in Bodies("enc", args) : Single(b)
    BY <2>10
  <2> QED BY <2>5, <2>9, <2>10, <2>11, OneWordHeeded, Zenon
<1> QED BY <1>1, <1>2

LEMMA EdkHeeded ==
  ASSUME NEW args \in Usage("edk"), Line(args)
  PROVE  Heeded("edk", args)
<1>0. Bodies("edk", args) = edk(args)
  BY DEF Bodies, Queries
<1> DEFINE pads == {{<<"pad", db>>} : db \in {d \in {0, -6, -12, -24, -48} :
                                                Has(args, 1, "pad") /\ atoi(Text(args, 1)) = d}}
<1>1. CASE args = <<>>
  <2>1. Bodies("edk", <<>>) = {{}}
    BY NoWord DEF Bodies, Queries, edk
  <2> QED BY <1>1, <2>1, EmptyLineHeeded DEF AsTyped
<1>2. CASE args # <<>>
  <2>1. PICK key, t : /\ args = <<<<key, t>>>>
                      /\ \/ key = "rev" /\ t \in {"other", "red", "green"}
                         \/ key = "pad" /\ t \in {"0", "-6", "-12", "-24", "-48"}
                         \/ key = "dig" /\ t \in {"spdif", "aes", "tos"}
                         \/ key = "src" /\ t \in {"sync", "async"}
    BY <1>2 DEF Usage, Queries, One, Keyed
  <2>2. Fits("edk", args)
    BY <2>1, OneKeyedFits DEF AsTyped, AddressKeys, Number16s, NumberKeys
  <2>3. edk(args) # {}
    <3>1. CASE key \in {"rev", "dig", "src"}
      BY <2>1, <3>1, OneChoice DEF edk
    <3>2. CASE key = "pad"
      <4>1. atoi(t) \in {0, -6, -12, -24, -48}
        BY <2>1, <3>2, LiteralRead DEF Literals
      <4>2. Has(args, 1, "pad") /\ Text(args, 1) = t
        BY <2>1, <3>2, OneKeyed
      <4>3. {<<"pad", atoi(t)>>} \in pads
        BY <4>1, <4>2
      <4> QED BY <4>3 DEF edk
    <3> QED BY <2>1, <3>1, <3>2
  <2>4. \A body \in edk(args) : Single(body)
    <3>1. \A body \in pads : Single(body)
      BY DEF Single
    <3> QED BY <1>2, <3>1, NoQuery, ChoicesAreSingle DEF edk
  <2> QED BY <1>0, <2>1, <2>2, <2>3, <2>4, OneWordHeeded DEF OneWorded, AsTyped
<1> QED BY <1>1, <1>2

LEMMA MeteringHeeded ==
  ASSUME NEW args \in Usage("metering"), Line(args)
  PROVE  Heeded("metering", args)
<1>0. Bodies("metering", args) = metering(args)
  BY DEF Bodies, Queries
<1>1. CASE args = <<>>
  <2>1. Bodies("metering", <<>>) = {{}}
    BY NoWord, WhenIsSo DEF Bodies, Queries, metering
  <2> QED BY <1>1, <2>1, EmptyLineHeeded DEF AsTyped
<1>2. CASE args # <<>>
  <2>1. PICK t \in Numerals : args = <<<<"rate", t>>>>
    BY <1>2 DEF Usage, Queries, One, Keyed
  <2>2. atoi(t) \in Unsigned16 /\ t # ""
    BY NumeralRead
  <2>3. Fits("metering", args)
    <3>1. AsTyped("metering") /\ "rate" \notin AddressKeys /\ "metering" # "srate"
      BY DEF AsTyped, AddressKeys
    <3> QED BY <2>1, <2>2, <3>1, OneKeyedFits
  <2>4. Len(args) = 1 /\ Has(args, 1, "rate") /\ Text(args, 1) = t
    BY <2>1, OneKeyed
  <2>5. metering(args) = {Number16(args, 1, "rate")}
    BY <1>2, <2>2, <2>4, NoQuery, WhenIsSo DEF metering
  <2>6. Single(Number16(args, 1, "rate"))
    BY DEF Single, Number16
  <2> QED BY <1>0, <2>1, <2>3, <2>5, <2>6, OneWordHeeded DEF OneWorded, AsTyped
<1> QED BY <1>1, <1>2

\* The commands whose one word chooses among names, and which have no number.
LEMMA ChosenHeeded ==
  ASSUME NEW cmd, OneWorded(cmd), cmd # "srate", NEW key, NEW names, NEW t \in names, NEW args,
         args = <<<<key, t>>>>, Line(args), key \notin AddressKeys, key \notin Number16s(cmd),
         \/ Bodies(cmd, args) = Query(args) \cup Choice(args, 1, key, names)
         \/ Bodies(cmd, args) = Query(args) \cup Exactly(args, 1, key, names)
  PROVE  Heeded(cmd, args)
<1>1. Fits(cmd, args)
  BY OneKeyedFits DEF OneWorded
<1>2. Query(args) = {}
  BY OneKeyed, NoQuery
<1>3. \A body \in Bodies(cmd, args) : Single(body)
  BY <1>2, ChoicesAreSingle
<1>4. Bodies(cmd, args) # {}
  BY OneChoice
<1> QED BY <1>1, <1>3, <1>4, OneWordHeeded

LEMMA SysresetHeeded ==
  ASSUME NEW args \in Usage("sysreset"), Line(args)
  PROVE  Heeded("sysreset", args)
<1>1. PICK t \in {"soft", "factory"} : args = <<<<"mode", t>>>>
  BY DEF Usage, Queries, One, Keyed
<1>2. Query(args) = {}
  BY <1>1, OneKeyed, NoQuery
<1>3. Bodies("sysreset", args) = Query(args) \cup Choice(args, 1, "mode", {"soft", "factory"})
  BY <1>2 DEF Bodies, Queries, sysreset
<1>4. OneWorded("sysreset") /\ "mode" \notin AddressKeys /\ "mode" \notin Number16s("sysreset")
  BY DEF OneWorded, AsTyped, AddressKeys, Number16s, NumberKeys
<1> QED BY <1>1, <1>3, <1>4, ChosenHeeded

LEMMA AccessHeeded ==
  ASSUME NEW args \in Usage("access"), Line(args)
  PROVE  Heeded("access", args)
<1> DEFINE modes == {"enable", "disable", "inetd_enable", "inetd_disable"}
<1>1. CASE args = <<>>
  <2>1. Bodies("access", <<>>) = {{}}
    BY NoWord DEF Bodies, Queries, access, When
  <2> QED BY <1>1, <2>1, EmptyLineHeeded DEF AsTyped
<1>2. CASE args # <<>>
  <2>1. PICK t \in modes : args = <<<<"mode", t>>>>
    BY <1>2 DEF Usage, Queries, One, Keyed
  <2>2. Bodies("access", args) = access(args)
    BY DEF Bodies, Queries
  <2>3. OneWorded("access") /\ "mode" \notin AddressKeys /\ "mode" \notin Number16s("access")
    BY DEF OneWorded, AsTyped, AddressKeys, Number16s, NumberKeys
  <2>4. Fits("access", args)
    BY <2>1, <2>3, OneKeyedFits DEF OneWorded
  <2>5. Has(args, 1, "mode") /\ Text(args, 1) = t /\ Query(args) = {}
    BY <2>1, OneKeyed, NoQuery
  <2>6. access(args) # {}
    <3>1. CASE t \in {"enable", "disable"}
      <4>1. {<<"mode", t>>} \in Choice(args, 1, "mode", {"enable", "disable"})
        BY <2>1, <3>1, OneChoice
      <4> QED BY <4>1 DEF access
    <3>2. CASE t = "inetd_enable"
      <4>1. Has(args, 1, "mode") /\ Begins(Text(args, 1), "inetd_e")
        BY <2>5, <3>2, ReadingAssumption
      <4> QED BY <4>1 DEF access, When
    <3>3. CASE t = "inetd_disable"
      <4>1. Has(args, 1, "mode") /\ Begins(Text(args, 1), "inetd_d")
        BY <2>5, <3>3, ReadingAssumption
      <4> QED BY <4>1 DEF access, When
    <3> QED BY <2>1, <3>1, <3>2, <3>3
  <2>7. \A body \in access(args) : Single(body)
    BY <2>5, ChoicesAreSingle, WhenIsSingle DEF access
  <2> QED BY <2>1, <2>2, <2>3, <2>4, <2>6, <2>7, OneWordHeeded
<1> QED BY <1>1, <1>2

LEMMA HaremoteHeeded ==
  ASSUME NEW args \in Usage("haremote"), Line(args)
  PROVE  Heeded("haremote", args)
<1> DEFINE modes == {"all", "none", "slot_db9", "network_slot", "network_db9"}
<1>1. CASE args = <<>>
  <2>1. Bodies("haremote", <<>>) = {{}}
    BY NoWord DEF Bodies, Queries, haremote
  <2> QED BY <1>1, <2>1, EmptyLineHeeded DEF AsTyped
<1>2. CASE args # <<>>
  <2>1. PICK t \in modes : args = <<<<"mode", t>>>>
    BY <1>2 DEF Usage, Queries, One, Keyed
  <2>2. Len(args) = 1
    BY <2>1, OneKeyed
  <2>3. Bodies("haremote", args) = Query(args) \cup Exactly(args, 1, "mode", modes)
    BY <2>2 DEF Bodies, Queries, haremote
  <2>4. OneWorded("haremote") /\ "mode" \notin AddressKeys /\ "mode" \notin Number16s("haremote")
    BY DEF OneWorded, AsTyped, AddressKeys, Number16s, NumberKeys
  <2> QED BY <2>1, <2>3, <2>4, ChosenHeeded
<1> QED BY <1>1, <1>2

LEMMA PtpLoggingHeeded ==
  ASSUME NEW args \in Usage("ptp_logging"), Line(args)
  PROVE  Heeded("ptp_logging", args)
<1>1. CASE args = <<>>
  <2>1. Bodies("ptp_logging", <<>>) = {{}}
    BY NoWord DEF Bodies, Queries, ptp_logging
  <2> QED BY <1>1, <2>1, EmptyLineHeeded DEF AsTyped
<1>2. CASE args # <<>>
  <2>1. PICK t \in Bools : args = <<<<"enabled", t>>>>
    BY <1>2 DEF Usage, Queries, One, Keyed
  <2>2. Bodies("ptp_logging", args) = Query(args) \cup Choice(args, 1, "enabled", Bools)
    BY DEF Bodies, Queries, ptp_logging
  <2>3. OneWorded("ptp_logging") /\ "enabled" \notin AddressKeys
        /\ "enabled" \notin Number16s("ptp_logging")
    BY DEF OneWorded, AsTyped, AddressKeys, Number16s, NumberKeys
  <2> QED BY <2>1, <2>2, <2>3, ChosenHeeded
<1> QED BY <1>1, <1>2

-----------------------------------------------------------------------------
(* The commands with lines of several words, each with a setting of its own. *)

LEMMA PairedAsked ==
  ASSUME NEW cmd, AsTyped(cmd), NEW args, NEW set,
         \A i \in DOMAIN args : \/ args[i][1] \in Unread(cmd) /\ set[i][1] \in Unread(cmd)
                                \/ AskedBy(cmd, args[i], set[i])
  PROVE  Asked(cmd, args, {set[i] : i \in DOMAIN args})
<1> DEFINE body == {set[i] : i \in DOMAIN args}
<1>1. Named(cmd, args) = {args[i] : i \in DOMAIN args}
  BY WordsNamed
<1>2. ASSUME NEW w \in Named(cmd, args)
      PROVE  w[1] \in Unread(cmd) \/ \E s \in body : AskedBy(cmd, w, s)
  BY <1>1, <1>2
<1>3. ASSUME NEW s \in body
      PROVE  s[1] \in Unread(cmd) \/ \E w \in Named(cmd, args) : AskedBy(cmd, w, s)
  BY <1>1, <1>3
<1> HIDE DEF body
<1>4. Asked(cmd, args, body)
  BY <1>2, <1>3 DEF Asked
<1> QED BY <1>4 DEF body

LEMMA AllAsked ==
  ASSUME NEW cmd, AsTyped(cmd), NEW args, NEW set,
         \A i \in DOMAIN args : AskedBy(cmd, args[i], set[i])
  PROVE  Asked(cmd, args, {set[i] : i \in DOMAIN args})
BY PairedAsked

LEMMA WordAt ==
  ASSUME NEW args, NEW i \in DOMAIN args, NEW key, NEW text, args[i] = <<key, text>>
  PROVE  Has(args, i, key) /\ Text(args, i) = text
<1>1. Len(args[i]) = 2 /\ args[i][1] = key /\ args[i][2] = text
  OBVIOUS
<1> QED BY <1>1 DEF Has, Text

LEMMA ErrthresHeeded ==
  ASSUME NEW args \in Usage("errthres"), Line(args)
  PROVE  Heeded("errthres", args)
<1>0. Bodies("errthres", args) = errthres(args)
  BY DEF Bodies, Queries
<1>1. CASE args = <<>>
  <2>1. Bodies("errthres", <<>>) = {{}}
    BY NoWord, WhenIsSo DEF Bodies, Queries, errthres
  <2> QED BY <1>1, <2>1, EmptyLineHeeded DEF AsTyped
<1>2. CASE args # <<>>
  <2>1. PICK a \in Numerals, b \in Numerals, c \in Numerals :
          args = <<<<"thres", a>>, <<"win", b>>, <<"reset", c>>>>
    BY <1>2 DEF Usage, Queries, Keyed
  <2> DEFINE set == <<<<"thres", atoi(a)>>, <<"win", atoi(b)>>, <<"reset", atoi(c)>>>>
  <2>2. /\ DOMAIN args = {1, 2, 3} /\ args[1] = <<"thres", a>> /\ args[2] = <<"win", b>>
        /\ args[3] = <<"reset", c>>
    BY <2>1
  <2>3. /\ Has(args, 1, "thres") /\ Text(args, 1) = a /\ Has(args, 2, "win") /\ Text(args, 2) = b
        /\ Has(args, 3, "reset") /\ Text(args, 3) = c
    <3>1. 1 \in DOMAIN args /\ 2 \in DOMAIN args /\ 3 \in DOMAIN args
      BY <2>2
    <3>2. Has(args, 1, "thres") /\ Text(args, 1) = a
      <4>1. args[1] = <<"thres", a>>
        BY <2>2
      <4> QED BY <3>1, <4>1, WordAt
    <3>3. Has(args, 2, "win") /\ Text(args, 2) = b
      <4>1. args[2] = <<"win", b>>
        BY <2>2
      <4> QED BY <3>1, <4>1, WordAt
    <3>4. Has(args, 3, "reset") /\ Text(args, 3) = c
      <4>1. args[3] = <<"reset", c>>
        BY <2>2
      <4> QED BY <3>1, <4>1, WordAt
    <3> QED BY <3>2, <3>3, <3>4
  <2>4. U16(atoi(a)) = atoi(a) /\ U16(atoi(b)) = atoi(b) /\ U16(atoi(c)) = atoi(c)
    BY NumeralRead
  <2>5. errthres(args) = {{<<"thres", atoi(a)>>, <<"win", atoi(b)>>, <<"reset", atoi(c)>>}}
    <3>1. errthres(args) = {Number16(args, 1, "thres") \cup Number16(args, 2, "win")
                              \cup Number16(args, 3, "reset")}
      BY <1>2, <2>3, NoQuery, WhenIsSo DEF errthres
    <3>2. /\ Number16(args, 1, "thres") = {<<"thres", atoi(a)>>}
          /\ Number16(args, 2, "win") = {<<"win", atoi(b)>>}
          /\ Number16(args, 3, "reset") = {<<"reset", atoi(c)>>}
      BY <2>3, <2>4 DEF Number16
    <3> QED BY <3>1, <3>2
  <2>6. {set[i] : i \in DOMAIN args} = {<<"thres", atoi(a)>>, <<"win", atoi(b)>>, <<"reset", atoi(c)>>}
    <3>1. /\ set[1] = <<"thres", atoi(a)>> /\ set[2] = <<"win", atoi(b)>>
          /\ set[3] = <<"reset", atoi(c)>>
      OBVIOUS
    <3> HIDE DEF set
    <3> QED BY <2>2, <3>1
  <2>7. /\ AskedBy("errthres", args[1], <<"thres", atoi(a)>>)
        /\ AskedBy("errthres", args[2], <<"win", atoi(b)>>)
        /\ AskedBy("errthres", args[3], <<"reset", atoi(c)>>)
    BY <2>3, NumberAsked DEF NumberKeys
  <2>8. \A i \in DOMAIN args : AskedBy("errthres", args[i], set[i])
    BY <2>2, <2>7
  <2> HIDE DEF set
  <2>9. Asked("errthres", args, {set[i] : i \in DOMAIN args})
    <3>1. AsTyped("errthres")
      BY DEF AsTyped
    <3> QED BY <2>8, <3>1, AllAsked
  <2> QED BY <1>0, <2>5, <2>6, <2>9 DEF Heeded
<1> QED BY <1>1, <1>2

LEMMA PullupHeeded ==
  ASSUME NEW args \in Usage("pullup"), Line(args)
  PROVE  Heeded("pullup", args)
<1>0. Bodies("pullup", args) = pullup(args)
  BY DEF Bodies, Queries
<1> DEFINE values == {"0", "+4.1667", "+0.1", "-0.1", "-4.0"}
           val == IF Has(args, 1, "val") THEN Exactly(args, 1, "val", values) ELSE {{}}
           subdomain == IF Has(args, 2, "subdomain") THEN {<<"subdomain", Text(args, 2)>>} ELSE {}
<1>a. pullup(args) = Query(args) \cup {v \cup subdomain : v \in {w \in val : Len(args) = 2}}
  BY DEF pullup
<1>1. CASE args = <<>>
  <2>1. Len(<<>>) # 2
    OBVIOUS
  <2> HIDE DEF val, subdomain
  <2>2. {v \cup subdomain : v \in {w \in val : Len(args) = 2}} = {}
    BY <1>1, <2>1
  <2>3. pullup(args) = {{}}
    BY <1>1, <1>a, <2>2, NoWord
  <2> QED BY <1>0, <1>1, <2>3, EmptyLineHeeded DEF AsTyped
<1>2. CASE args # <<>>
  <2>1. PICK v \in values, n \in Names : args = <<<<"val", v>>, <<"subdomain", n>>>>
    BY <1>2 DEF Usage, Queries, Keyed
  <2> DEFINE set == <<<<"val", v>>, <<"subdomain", n>>>>
  <2>2. /\ DOMAIN args = {1, 2} /\ args[1] = <<"val", v>> /\ args[2] = <<"subdomain", n>>
        /\ Len(args) = 2
    BY <2>1
  <2>3. /\ Has(args, 1, "val") /\ Text(args, 1) = v
        /\ Has(args, 2, "subdomain") /\ Text(args, 2) = n
    BY <2>2, WordAt
  <2>4. val = {{<<"val", v>>}} /\ subdomain = {<<"subdomain", n>>}
    BY <2>3 DEF Exactly
  <2>5. pullup(args) = {{<<"val", v>>, <<"subdomain", n>>}}
    <3> HIDE DEF val, subdomain
    <3>1. {x \in val : Len(args) = 2} = val
      BY <2>2
    <3>2. {x \cup subdomain : x \in val} = {{<<"val", v>>} \cup {<<"subdomain", n>>}}
      BY <2>4
    <3>3. {x \cup subdomain : x \in {w \in val : Len(args) = 2}} = {x \cup subdomain : x \in val}
      BY <3>1
    <3> QED BY <1>2, <1>a, <3>2, <3>3, NoQuery
  <2>6. {set[i] : i \in DOMAIN args} = {<<"val", v>>, <<"subdomain", n>>}
    <3>1. set[1] = <<"val", v>> /\ set[2] = <<"subdomain", n>>
      OBVIOUS
    <3> HIDE DEF set
    <3> QED BY <2>2, <3>1
  <2>7. /\ AskedBy("pullup", args[1], <<"val", v>>)
        /\ AskedBy("pullup", args[2], <<"subdomain", n>>)
    BY <2>3, BeginsItself, TextAsked DEF PlainKeys
  <2>8. \A i \in DOMAIN args : AskedBy("pullup", args[i], set[i])
    BY <2>2, <2>7
  <2> HIDE DEF set
  <2>9. Asked("pullup", args, {set[i] : i \in DOMAIN args})
    <3>1. AsTyped("pullup")
      BY DEF AsTyped
    <3> QED BY <2>8, <3>1, AllAsked
  <2> QED BY <1>0, <2>5, <2>6, <2>9 DEF Heeded
<1> QED BY <1>1, <1>2

LEMMA GpioHeeded ==
  ASSUME NEW args \in Usage("gpio") \ Misprinted("gpio"), Line(args)
  PROVE  Heeded("gpio", args)
<1>0. Bodies("gpio", args) = gpio(args)
  BY DEF Bodies, Queries
<1> DEFINE value(i, key) == IF Has(args, i, key) /\ Begins(Text(args, i), "0x")
                              THEN hex(Text(args, i)) ELSE 0
<1>a. gpio(args) = When(args = <<<<"query">>>>, {<<"query">>})
                     \cup When(Len(args) = 3 /\ args[1] = <<"output">>,
                               {<<"output">>, <<"mask", value(2, "mask")>>,
                                <<"val", value(3, "val")>>})
  BY DEF gpio
<1> HIDE DEF value
<1>1. CASE args = <<<<"query">>>>
  <2> DEFINE set == args
  <2>1. DOMAIN args = {1} /\ args[1] = <<"query">> /\ Len(args) # 3
    BY <1>1
  <2>2. gpio(args) = {{<<"query">>}}
    BY <1>1, <1>a, <2>1, WhenIsSo
  <2>3. \A i \in DOMAIN args : AskedBy("gpio", args[i], args[i])
    BY <2>1, WordAsked
  <2>4. Asked("gpio", args, {args[i] : i \in DOMAIN args})
    BY <2>3, PairedAsked DEF AsTyped
  <2>5. {args[i] : i \in DOMAIN args} = {<<"query">>}
    BY <2>1
  <2> QED BY <1>0, <2>2, <2>4, <2>5 DEF Heeded
<1>2. CASE args # <<<<"query">>>>
  <2>1. PICK m \in Hexes, v \in Hexes : args = <<<<"output">>, <<"mask", m>>, <<"val", v>>>>
    BY <1>2 DEF Usage, Misprinted, Queries, Keyed, One, Plain
  <2> DEFINE set == <<<<"output">>, <<"mask", hex(m)>>, <<"val", hex(v)>>>>
  <2>2. /\ DOMAIN args = {1, 2, 3} /\ args[1] = <<"output">> /\ args[2] = <<"mask", m>>
        /\ args[3] = <<"val", v>> /\ Len(args) = 3
    BY <2>1
  <2>3. /\ Has(args, 2, "mask") /\ Text(args, 2) = m /\ Has(args, 3, "val") /\ Text(args, 3) = v
    BY <2>2, WordAt
  <2>4. value(2, "mask") = hex(m) /\ value(3, "val") = hex(v)
    BY <2>3, ReadingAssumption DEF value
  <2>5. gpio(args) = {{<<"output">>, <<"mask", hex(m)>>, <<"val", hex(v)>>}}
    BY <1>2, <1>a, <2>2, <2>4, WhenIsSo
  <2>6. {set[i] : i \in DOMAIN args} = {<<"output">>, <<"mask", hex(m)>>, <<"val", hex(v)>>}
    <3>1. set[1] = <<"output">> /\ set[2] = <<"mask", hex(m)>> /\ set[3] = <<"val", hex(v)>>
      OBVIOUS
    <3> HIDE DEF set
    <3> QED BY <2>2, <3>1
  <2>7. /\ AskedBy("gpio", args[2], <<"mask", hex(m)>>)
        /\ AskedBy("gpio", args[3], <<"val", hex(v)>>)
    <3>1. Means("gpio", "mask", m, hex(m)) /\ Means("gpio", "val", v, hex(v))
      BY DEF Means, NumberKeys, AddressKeys, IdKeys
    <3> QED BY <2>3, <3>1, MeaningAsked
  <2>8. AskedBy("gpio", args[1], <<"output">>)
    BY <2>2, WordAsked
  <2>9. \A i \in DOMAIN args : AskedBy("gpio", args[i], set[i])
    BY <2>2, <2>7, <2>8
  <2> HIDE DEF set
  <2>10. Asked("gpio", args, {set[i] : i \in DOMAIN args})
    <3>1. AsTyped("gpio")
      BY DEF AsTyped
    <3> QED BY <2>9, <3>1, AllAsked
  <2> QED BY <1>0, <2>5, <2>6, <2>10 DEF Heeded
<1> QED BY <1>1, <1>2

\* An address that the text gives is the one that is sent.
LEMMA AddressKept ==
  ASSUME NEW t \in Addresses, quad(t) \in Seq(Int)
  PROVE  parse_address(t) = quad(t) /\ quad(t) # NoAddress /\ IsAddress(quad(t))
<1> DEFINE v == quad(t)
<1>1. v \in Seq(Int) /\ IsAddress(v) /\ v # NoAddress
  BY ReadingAssumption
<1>2. parse_address(t) = OfQuad(v)
  BY DEF parse_address, OfQuad
<1> HIDE DEF v
<1>3. OfQuad(v) = v
  BY <1>1, AddressQuad
<1> QED BY <1>1, <1>2, <1>3 DEF v

LEMMA UpgradeHeeded ==
  ASSUME NEW args \in Usage("upgrade"), Line(args)
  PROVE  Heeded("upgrade", args)
<1>0. Bodies("upgrade", args) = upgrade(args)
  BY DEF Bodies, Queries
<1>1. PICK a \in Addresses, n \in Numerals, p \in Names :
        args = <<<<"server", a>>, <<"port", n>>, <<"path", p>>>>
  BY DEF Usage, Queries, Keyed
<1> DEFINE set == <<<<"server", quad(a)>>, <<"port", atoi(n)>>, <<"path", p>>>>
           body == {<<"server", quad(a)>>, <<"port", atoi(n)>>, <<"path", p>>}
<1>2. /\ DOMAIN args = {1, 2, 3} /\ Len(args) = 3
  BY <1>1
<1>3. args[1] = <<"server", a>> /\ args[2] = <<"port", n>> /\ args[3] = <<"path", p>>
  BY <1>1
<1>4. Has(args, 1, "server") /\ Text(args, 1) = a
  <2>1. 1 \in DOMAIN args /\ args[1] = <<"server", a>>
    BY <1>2, <1>3
  <2> QED BY <2>1, WordAt
<1>5. Has(args, 2, "port") /\ Text(args, 2) = n
  <2>1. 2 \in DOMAIN args /\ args[2] = <<"port", n>>
    BY <1>2, <1>3
  <2> QED BY <2>1, WordAt
<1>6. Has(args, 3, "path") /\ Text(args, 3) = p
  <2>1. 3 \in DOMAIN args /\ args[3] = <<"path", p>>
    BY <1>2, <1>3
  <2> QED BY <2>1, WordAt
<1>7. parse_address(a) = quad(a) /\ quad(a) # NoAddress
  <2>1. quad(args[1][2]) \in Seq(Int)
    <3>1. 1 \in DOMAIN args /\ Len(args[1]) = 2 /\ args[1][1] = "server"
      BY <1>2, <1>3
    <3> QED BY <3>1, TextsRead DEF IdKeys
  <2>2. args[1][2] = a
    BY <1>3
  <2> QED BY <2>1, <2>2, AddressKept
<1>8. U16(atoi(n)) = atoi(n)
  BY NumeralRead
<1>9. upgrade(args) = {body}
  BY <1>2, <1>4, <1>5, <1>6, <1>7, <1>8 DEF upgrade, When
<1>10. {set[i] : i \in DOMAIN args} = body
  <2>1. /\ set[1] = <<"server", quad(a)>> /\ set[2] = <<"port", atoi(n)>>
        /\ set[3] = <<"path", p>>
    OBVIOUS
  <2> HIDE DEF set
  <2> QED BY <1>2, <2>1
<1>11. AskedBy("upgrade", args[1], <<"server", quad(a)>>)
  <2>1. Means("upgrade", "server", a, quad(a))
    BY DEF Means, NumberKeys, AddressKeys, IdKeys
  <2> QED BY <1>4, <2>1, MeaningAsked
<1>12. AskedBy("upgrade", args[2], <<"port", atoi(n)>>)
  BY <1>5, NumberAsked DEF NumberKeys
<1>13. AskedBy("upgrade", args[3], <<"path", p>>)
  BY <1>6, BeginsItself, TextAsked DEF PlainKeys
<1>14. \A i \in DOMAIN args : AskedBy("upgrade", args[i], set[i])
  BY <1>2, <1>11, <1>12, <1>13
<1> HIDE DEF set, body
<1>15. Asked("upgrade", args, body)
  <2>1. AsTyped("upgrade")
    BY DEF AsTyped
  <2>2. Asked("upgrade", args, {set[i] : i \in DOMAIN args})
    BY <1>14, <2>1, AllAsked
  <2> QED BY <1>10, <2>2
<1> QED BY <1>0, <1>9, <1>15 DEF Heeded

LEMMA SerialHeeded ==
  ASSUME NEW args \in Usage("serial"), Line(args)
  PROVE  Heeded("serial", args)
<1>0. Bodies("serial", args) = serial(args)
  BY DEF Bodies, Queries
<1>1. CASE args = <<>>
  <2>1. \A p : ~ \A i \in 1 .. 5 : Has(<<>>, i, p[i])
    BY NoWord
  <2>2. serial(<<>>) = {{}}
    BY <2>1, NoWord DEF serial
  <2>3. Bodies("serial", <<>>) = {{}}
    BY <2>2 DEF Bodies, Queries
  <2> QED BY <1>1, <2>3, EmptyLineHeeded DEF AsTyped
<1>2. CASE args # <<>>
  <2> DEFINE parities == {"none", "odd", "even"}
             keys == <<"index", "speed", "bits", "parity", "stop">>
             number(i) == {<<keys[i], atoi(Text(args, i))>>}
  <2>1. PICK x \in Numerals, n \in Numerals, b \in {"7", "8"}, q \in parities,
             t \in {"0", "1", "2"} :
          args = <<<<"index", x>>, <<"speed", n>>, <<"bits", b>>, <<"parity", q>>, <<"stop", t>>>>
    BY <1>2 DEF Usage, Queries, Keyed
  <2> DEFINE set == <<<<"index", 0>>, <<"speed", atoi(n)>>, <<"bits", atoi(b)>>, <<"parity", q>>,
                      <<"stop", atoi(t)>>>>
             body == {<<"index", 0>>, <<"parity", q>>, <<"speed", atoi(n)>>, <<"bits", atoi(b)>>,
                      <<"stop", atoi(t)>>}
  <2>2. DOMAIN args = {1, 2, 3, 4, 5} /\ Len(args) = 5
    BY <2>1
  <2>3. /\ args[1] = <<"index", x>> /\ args[2] = <<"speed", n>> /\ args[3] = <<"bits", b>>
        /\ args[4] = <<"parity", q>> /\ args[5] = <<"stop", t>>
    BY <2>1
  <2>4. Has(args, 1, "index") /\ Text(args, 1) = x
    <3>1. 1 \in DOMAIN args /\ args[1] = <<"index", x>>
      BY <2>2, <2>3
    <3> QED BY <3>1, WordAt
  <2>5. Has(args, 2, "speed") /\ Text(args, 2) = n
    <3>1. 2 \in DOMAIN args /\ args[2] = <<"speed", n>>
      BY <2>2, <2>3
    <3> QED BY <3>1, WordAt
  <2>6. Has(args, 3, "bits") /\ Text(args, 3) = b
    <3>1. 3 \in DOMAIN args /\ args[3] = <<"bits", b>>
      BY <2>2, <2>3
    <3> QED BY <3>1, WordAt
  <2>7. Has(args, 4, "parity") /\ Text(args, 4) = q
    <3>1. 4 \in DOMAIN args /\ args[4] = <<"parity", q>>
      BY <2>2, <2>3
    <3> QED BY <3>1, WordAt
  <2>8. Has(args, 5, "stop") /\ Text(args, 5) = t
    <3>1. 5 \in DOMAIN args /\ args[5] = <<"stop", t>>
      BY <2>2, <2>3
    <3> QED BY <3>1, WordAt
  <2>9. x # "" /\ n # "" /\ b # "" /\ t # ""
    BY NumeralRead
  <2>10. serial(args) = {body}
    <3> DEFINE right(p) == /\ Len(args) = 5 /\ \A i \in 1 .. 5 : Has(args, i, keys[i])
                           /\ Text(args, 4) = p
                           /\ \A i \in {1, 2, 3, 5} : Text(args, i) # ""
               built(p) == {<<"index", 0>>, <<"parity", p>>} \cup number(2) \cup number(3)
                             \cup number(5)
    <3>1. serial(args) = Query(args) \cup {built(p) : p \in {r \in parities : right(r)}}
      BY DEF serial
    <3>2. \A i \in 1 .. 5 : Has(args, i, keys[i])
      <4>1. 1 .. 5 = {1, 2, 3, 4, 5}
        OBVIOUS
      <4>2. /\ keys[1] = "index" /\ keys[2] = "speed" /\ keys[3] = "bits" /\ keys[4] = "parity"
            /\ keys[5] = "stop"
        OBVIOUS
      <4> HIDE DEF keys
      <4> QED BY <2>4, <2>5, <2>6, <2>7, <2>8, <4>1, <4>2
    <3>3. \A r : right(r) <=> r = q
      BY <2>2, <2>4, <2>5, <2>6, <2>7, <2>8, <2>9, <3>2
    <3>4. built(q) = body
      BY <2>5, <2>6, <2>8
    <3> HIDE DEF right, built, body
    <3>5. {r \in parities : right(r)} = {q}
      BY <3>3
    <3>6. {built(p) : p \in {r \in parities : right(r)}} = {body}
      BY <3>4, <3>5
    <3> QED BY <1>2, <3>1, <3>6, NoQuery
  <2>11. {set[i] : i \in DOMAIN args} = body
    <3>1. /\ set[1] = <<"index", 0>> /\ set[2] = <<"speed", atoi(n)>> /\ set[3] = <<"bits", atoi(b)>>
          /\ set[4] = <<"parity", q>> /\ set[5] = <<"stop", atoi(t)>>
      OBVIOUS
    <3> HIDE DEF set
    <3> QED BY <2>2, <3>1
  <2>12. args[1][1] \in Unread("serial") /\ set[1][1] \in Unread("serial")
    BY <2>3 DEF Unread
  <2>13. /\ AskedBy("serial", args[2], <<"speed", atoi(n)>>)
         /\ AskedBy("serial", args[3], <<"bits", atoi(b)>>)
         /\ AskedBy("serial", args[5], <<"stop", atoi(t)>>)
    BY <2>5, <2>6, <2>8, NumberAsked DEF NumberKeys
  <2>14. AskedBy("serial", args[4], <<"parity", q>>)
    BY <2>7, BeginsItself, TextAsked DEF PlainKeys
  <2>15. \A i \in DOMAIN args : \/ args[i][1] \in Unread("serial") /\ set[i][1] \in Unread("serial")
                                \/ AskedBy("serial", args[i], set[i])
    BY <2>2, <2>12, <2>13, <2>14
  <2> HIDE DEF set, body
  <2>16. Asked("serial", args, body)
    <3>1. AsTyped("serial")
      BY DEF AsTyped
    <3>2. Asked("serial", args, {set[i] : i \in DOMAIN args})
      BY <2>15, <3>1, PairedAsked
    <3> QED BY <2>11, <3>2
  <2> QED BY <1>0, <2>10, <2>16 DEF Heeded
<1> QED BY <1>1, <1>2

LEMMA NameIdHeeded ==
  ASSUME NEW args \in Usage("name_id") \ Misprinted("name_id"), Line(args)
  PROVE  Heeded("name_id", args)
<1> DEFINE words == Keyed("name", Names) \cup Keyed("id", {t \in Names : Scans("id", t)})
                      \cup Keyed("uuid", {t \in Names : Scans("uuid", t)})
           right(i) == \/ Has(args, i, "name") /\ Text(args, i) # ""
                       \/ Has(args, i, "id") /\ Scans("id", Text(args, i))
                       \/ Has(args, i, "uuid") /\ Scans("uuid", Text(args, i))
           body == {<<i, args[i]>> : i \in DOMAIN args}
<1>0. Bodies("name_id", args) = name_id(args)
  BY DEF Bodies, Queries
<1>1. PICK n \in 1 .. 2 : args \in [1 .. n -> words]
  <2>1. PICK n \in 0 .. 2 : args \in [1 .. n -> words]
    BY DEF Usage, Queries
  <2>2. n # 0
    <3> SUFFICES ASSUME n = 0 PROVE FALSE
      OBVIOUS
    <3>1. args = <<>>
      BY <2>1
    <3> QED BY <3>1 DEF Misprinted
  <2> QED BY <2>1, <2>2
<1>2. args # <<>>
  <2>1. 1 \in DOMAIN args
    BY <1>1
  <2> QED BY <2>1
<1>3. ASSUME NEW i \in DOMAIN args PROVE right(i)
  <2>1. args[i] \in words
    BY <1>1
  <2>2. PICK key, t : /\ args[i] = <<key, t>>
                      /\ \/ key = "name" /\ t \in Names
                         \/ key = "id" /\ Scans("id", t)
                         \/ key = "uuid" /\ Scans("uuid", t)
    BY <2>1 DEF Keyed
  <2>3. Has(args, i, key) /\ Text(args, i) = t
    BY <2>2, WordAt
  <2> QED BY <2>2, <2>3, ReadingAssumption
<1>4. name_id(args) = {body}
  <2>1. name_id(args) = When(args # <<>> /\ \A i \in DOMAIN args : right(i), body)
    BY DEF name_id
  <2> HIDE DEF right, body
  <2> QED BY <1>2, <1>3, <2>1, WhenIsSo
<1>5. Named("name_id", args) = body
  BY DEF Named
<1>6. ASSUME NEW i \in DOMAIN args
      PROVE  AskedBy("name_id", <<i, args[i]>>, <<i, args[i]>>)
  BY DEF AskedBy, Means
<1>7. \A w \in body : AskedBy("name_id", w, w)
  BY <1>6
<1> HIDE DEF body
<1>8. Asked("name_id", args, body)
  BY <1>5, <1>7 DEF Asked
<1> QED BY <1>0, <1>4, <1>8 DEF Heeded

-----------------------------------------------------------------------------
(* interface. *)

\* Words and settings that ask for each other.
Match(cmd, words, body) ==
  /\ \A w \in words : \E s \in body : AskedBy(cmd, w, s)
  /\ \A s \in body : \E w \in words : AskedBy(cmd, w, s)

LEMMA MatchOne ==
  ASSUME NEW cmd, NEW w, NEW s, AskedBy(cmd, w, s)
  PROVE  Match(cmd, {w}, {s})
BY DEF Match

LEMMA MatchBoth ==
  ASSUME NEW cmd, NEW words, NEW body, NEW words2, NEW body2,
         Match(cmd, words, body), Match(cmd, words2, body2)
  PROVE  Match(cmd, words \cup words2, body \cup body2)
BY DEF Match

LEMMA MatchAsked ==
  ASSUME NEW cmd, NEW args, NEW body, Match(cmd, Named(cmd, args), body)
  PROVE  Asked(cmd, args, body)
BY DEF Match, Asked

LEMMA MatchMeaning ==
  ASSUME NEW cmd, NEW key, NEW text, NEW v, Means(cmd, key, text, v)
  PROVE  Match(cmd, {<<key, text>>}, {<<key, v>>})
<1>1. AskedBy(cmd, <<key, text>>, <<key, v>>)
  BY DEF AskedBy
<1> QED BY <1>1, MatchOne

LEMMA MatchWord ==
  ASSUME NEW cmd, NEW key
  PROVE  Match(cmd, {<<key>>}, {<<key>>})
<1>1. AskedBy(cmd, <<key>>, <<key>>)
  BY DEF AskedBy
<1> QED BY <1>1, MatchOne

LEMMA InterfaceMeanings ==
  /\ \A t \in Numerals : Match("interface", {<<"index", t>>}, {<<"index", U16(atoi(t))>>})
  /\ \A b : Begins(b, b) => Match("interface", {<<"BOOL", b>>}, {<<"BOOL", b>>})
  /\ \A key \in {"address", "netmask", "dns_server", "gateway"} : \A t :
       Match("interface", {<<key, t>>}, {<<key, quad(t)>>})
<1>1. ASSUME NEW t \in Numerals
      PROVE  Match("interface", {<<"index", t>>}, {<<"index", U16(atoi(t))>>})
  <2>1. U16(atoi(t)) = atoi(t)
    BY NumeralRead
  <2>2. Means("interface", "index", t, atoi(t))
    BY DEF Means, NumberKeys, AddressKeys, IdKeys
  <2> QED BY <2>1, <2>2, MatchMeaning
<1>2. ASSUME NEW b, Begins(b, b)
      PROVE  Match("interface", {<<"BOOL", b>>}, {<<"BOOL", b>>})
  <2>1. Means("interface", "BOOL", b, b)
    BY <1>2 DEF Means, NumberKeys, AddressKeys, IdKeys, Compared
  <2> QED BY <2>1, MatchMeaning
<1>3. ASSUME NEW key \in {"address", "netmask", "dns_server", "gateway"}, NEW t
      PROVE  Match("interface", {<<key, t>>}, {<<key, quad(t)>>})
  <2>1. Means("interface", key, t, quad(t))
    BY DEF Means, NumberKeys, AddressKeys, IdKeys
  <2> QED BY <2>1, MatchMeaning
<1> QED BY <1>1, <1>2, <1>3

\* What interface makes of its words, case by case.
AddressSetting(args, i, name) ==
  {<<name, IF i \in DOMAIN args THEN parse_address(args[i][1]) ELSE NoAddress>>}
DomainSetting(args) ==
  IF Has(args, 7, "domain") /\ Text(args, 7) # "" THEN {<<"domain", Text(args, 7)>>} ELSE {}
IndexSetting(args) == {<<"index", U16(atoi(args[1][1]))>>}
StaticSettings(args) ==
  IndexSetting(args) \cup {<<"static">>} \cup AddressSetting(args, 3, "address")
    \cup AddressSetting(args, 4, "netmask") \cup AddressSetting(args, 5, "dns_server")
    \cup AddressSetting(args, 6, "gateway") \cup DomainSetting(args)
IsStatic(args) ==
  /\ Len(args) >= 4 /\ args[2] = <<"static">>
  /\ parse_address(args[3][1]) # NoAddress
  /\ parse_address(args[4][1]) # NoAddress

LEMMA InterfaceBodies ==
  ASSUME NEW args, NEW body
  PROVE  body \in interface(args) <=>
           \/ body \in Query(args)
           \/ \E b \in Bools : /\ args = <<<<"redundancy">>, <<b>>>>
                               /\ body = {<<"redundancy">>, <<"BOOL", b>>}
           \/ Len(args) = 2 /\ args[2] = <<"dhcp">> /\ body = IndexSetting(args) \cup {<<"dhcp">>}
           \/ \E g \in {"ll", "ll_delay"} \X Bools :
                /\ Len(args) = 3 /\ args[2] = <<g[1]>> /\ args[3] = <<g[2]>>
                /\ body = IndexSetting(args) \cup {<<g[1]>>, <<"BOOL", g[2]>>}
           \/ IsStatic(args) /\ body = StaticSettings(args)
BY DEF interface, When, IndexSetting, IsStatic, StaticSettings, AddressSetting, DomainSetting

LEMMA InterfaceHeeded ==
  ASSUME NEW args \in Usage("interface"), Line(args)
  PROVE  Heeded("interface", args)
<1>0. Bodies("interface", args) = interface(args)
  BY DEF Bodies, Queries
<1>1. CASE args = <<>>
  <2>1. Len(<<>>) = 0
    OBVIOUS
  <2>2. \A b : args # <<<<"redundancy">>, <<b>>>>
    BY <1>1
  <2>3. \A body : body \in interface(args) <=> body \in Query(args)
    BY <1>1, <2>1, <2>2, InterfaceBodies DEF IsStatic
  <2>4. Bodies("interface", <<>>) = {{}}
    BY <1>0, <1>1, <2>3, NoWord
  <2> QED BY <1>1, <2>4, EmptyLineHeeded
<1>2. ASSUME NEW b \in Bools, args = <<<<"redundancy">>, <<b>>>>
      PROVE  Heeded("interface", args)
  <2> DEFINE body == {<<"redundancy">>, <<"BOOL", b>>}
  <2>1. /\ Len(args) = 2 /\ args[1] = <<"redundancy">> /\ args[2] = <<b>> /\ args[2][1] = b
        /\ 2 \in DOMAIN args /\ args # <<>> /\ b # "dhcp"
    BY <1>2 DEF Bools
  <2>2. args[2] # <<"dhcp">>
    BY <2>1
  <2>3. \A c : args = <<<<"redundancy">>, <<c>>>> => c = b
    BY <1>2
  <2>4. \A x : x \in interface(args) <=> x = body
    BY <1>2, <2>1, <2>2, <2>3, InterfaceBodies, NoQuery DEF IsStatic
  <2>5. Named("interface", args) = {<<"redundancy">>} \cup {<<"BOOL", b>>}
    BY <2>1 DEF Named
  <2>6. Begins(b, b)
    BY <2>1, TextsRead
  <2>7. Match("interface", {<<"redundancy">>} \cup {<<"BOOL", b>>},
                           {<<"redundancy">>} \cup {<<"BOOL", b>>})
    BY <2>6, MatchWord, InterfaceMeanings, MatchBoth
  <2>8. body = {<<"redundancy">>} \cup {<<"BOOL", b>>}
    OBVIOUS
  <2> HIDE DEF body
  <2>9. Asked("interface", args, body)
    BY <2>5, <2>7, <2>8, MatchAsked
  <2> QED BY <1>0, <2>4, <2>9 DEF Heeded
<1>3. ASSUME NEW n \in Numerals, args = <<<<n>>, <<"dhcp">>>>
      PROVE  Heeded("interface", args)
  <2>1. /\ Len(args) = 2 /\ args[1] = <<n>> /\ args[2] = <<"dhcp">> /\ args[1][1] = n
        /\ args[2][1] = "dhcp" /\ args # <<>> /\ DOMAIN args = {1, 2} /\ "dhcp" \notin Bools
    BY <1>3 DEF Bools
  <2>2. \A c \in Bools : args # <<<<"redundancy">>, <<c>>>>
    BY <2>1
  <2>3. \A x : x \in interface(args) <=> x = IndexSetting(args) \cup {<<"dhcp">>}
    BY <2>1, <2>2, InterfaceBodies, NoQuery DEF IsStatic
  <2>4. Named("interface", args) = {<<"index", n>>} \cup {<<"dhcp">>}
    BY <2>1 DEF Named
  <2>5. IndexSetting(args) = {<<"index", U16(atoi(n))>>}
    BY <2>1 DEF IndexSetting
  <2>6. Match("interface", {<<"index", n>>} \cup {<<"dhcp">>},
                           IndexSetting(args) \cup {<<"dhcp">>})
    BY <2>5, MatchWord, InterfaceMeanings, MatchBoth
  <2>7. Asked("interface", args, IndexSetting(args) \cup {<<"dhcp">>})
    BY <2>4, <2>6, MatchAsked
  <2> QED BY <1>0, <2>3, <2>7 DEF Heeded
<1>4. ASSUME NEW n \in Numerals, NEW l \in {"ll", "ll_delay"}, NEW b \in Bools,
             args = <<<<n>>, <<l>>, <<b>>>>
      PROVE  Heeded("interface", args)
  <2> DEFINE body == IndexSetting(args) \cup {<<l>>, <<"BOOL", b>>}
  <2>1. /\ Len(args) = 3 /\ args[1] = <<n>> /\ args[2] = <<l>> /\ args[3] = <<b>>
        /\ args[1][1] = n /\ args[2][1] = l /\ args[3][1] = b
        /\ args # <<>> /\ DOMAIN args = {1, 2, 3} /\ l \notin Bools
    BY <1>4 DEF Bools
  <2>2. \A c \in Bools : args # <<<<"redundancy">>, <<c>>>>
    BY <2>1
  <2>3. \A g \in {"ll", "ll_delay"} \X Bools :
          args[2] = <<g[1]>> /\ args[3] = <<g[2]>> => g[1] = l /\ g[2] = b
    BY <2>1
  <2>4. <<l, b>> \in {"ll", "ll_delay"} \X Bools /\ <<l, b>>[1] = l /\ <<l, b>>[2] = b
    OBVIOUS
  <2>5. \A x : x \in interface(args) <=> x = body
    BY <2>1, <2>2, <2>3, <2>4, InterfaceBodies, NoQuery DEF IsStatic
  <2>6. Named("interface", args) = {<<"index", n>>} \cup {<<l>>} \cup {<<"BOOL", b>>}
    BY <2>1 DEF Named
  <2>7. IndexSetting(args) = {<<"index", U16(atoi(n))>>}
    BY <2>1 DEF IndexSetting
  <2>8. Begins(b, b)
    BY <2>1, TextsRead
  <2>9. Match("interface", {<<"index", n>>} \cup {<<l>>} \cup {<<"BOOL", b>>},
                           IndexSetting(args) \cup {<<l>>} \cup {<<"BOOL", b>>})
    BY <2>7, <2>8, MatchWord, InterfaceMeanings, MatchBoth
  <2>10. body = IndexSetting(args) \cup {<<l>>} \cup {<<"BOOL", b>>}
    OBVIOUS
  <2> HIDE DEF body
  <2>11. Asked("interface", args, body)
    BY <2>6, <2>9, <2>10, MatchAsked
  <2> QED BY <1>0, <2>5, <2>11 DEF Heeded
<1>5. ASSUME NEW n \in Numerals, NEW a \in Addresses, NEW m \in Addresses, NEW d \in Addresses,
             NEW g \in Addresses, NEW t \in Names,
             args = <<<<n>>, <<"static">>, <<a>>, <<m>>, <<d>>, <<g>>, <<"domain", t>>>>
      PROVE  Heeded("interface", args)
  <2>1. /\ Len(args) = 7 /\ args # <<>> /\ DOMAIN args = 1 .. 7
        /\ args[1] = <<n>> /\ args[2] = <<"static">> /\ args[7] = <<"domain", t>>
        /\ args[1][1] = n /\ args[3][1] = a /\ args[4][1] = m /\ args[5][1] = d /\ args[6][1] = g
    BY <1>5
  <2>2. \A i \in 3 .. 6 : i \in DOMAIN args
    BY <2>1
  <2>3. \A i \in DOMAIN args : quad(args[i][1]) \in Seq(Int)
    BY TextsRead
  <2>4. quad(a) \in Seq(Int) /\ quad(m) \in Seq(Int) /\ quad(d) \in Seq(Int) /\ quad(g) \in Seq(Int)
    BY <2>1, <2>2, <2>3
  <2>5. /\ parse_address(a) = quad(a) /\ parse_address(m) = quad(m)
        /\ parse_address(d) = quad(d) /\ parse_address(g) = quad(g)
        /\ quad(a) # NoAddress /\ quad(m) # NoAddress
    BY <2>4, AddressKept
  <2>6. \A c : args # <<<<"redundancy">>, <<c>>>>
    BY <2>1
  <2>7. IsStatic(args)
    BY <2>1, <2>5 DEF IsStatic
  <2>8. \A x : x \in interface(args) <=> x = StaticSettings(args)
    BY <2>1, <2>6, <2>7, InterfaceBodies, NoQuery
  <2>9. Has(args, 7, "domain") /\ Text(args, 7) = t /\ t # ""
    <3>1. 7 \in DOMAIN args /\ args[7] = <<"domain", t>>
      BY <2>1
    <3> QED BY <3>1, WordAt, ReadingAssumption
  <2>10. /\ IndexSetting(args) = {<<"index", U16(atoi(n))>>}
         /\ AddressSetting(args, 3, "address") = {<<"address", quad(a)>>}
         /\ AddressSetting(args, 4, "netmask") = {<<"netmask", quad(m)>>}
         /\ AddressSetting(args, 5, "dns_server") = {<<"dns_server", quad(d)>>}
         /\ AddressSetting(args, 6, "gateway") = {<<"gateway", quad(g)>>}
         /\ DomainSetting(args) = {<<"domain", t>>}
    <3>1. IndexSetting(args) = {<<"index", U16(atoi(n))>>}
      BY <2>1 DEF IndexSetting
    <3>2. /\ AddressSetting(args, 3, "address") = {<<"address", quad(a)>>}
          /\ AddressSetting(args, 4, "netmask") = {<<"netmask", quad(m)>>}
      <4>1. 3 \in DOMAIN args /\ 4 \in DOMAIN args
        BY <2>2
      <4>2. parse_address(args[3][1]) = quad(a) /\ parse_address(args[4][1]) = quad(m)
        BY <2>1, <2>5
      <4> QED BY <4>1, <4>2, Zenon DEF AddressSetting
    <3>3. /\ AddressSetting(args, 5, "dns_server") = {<<"dns_server", quad(d)>>}
          /\ AddressSetting(args, 6, "gateway") = {<<"gateway", quad(g)>>}
      <4>1. 5 \in DOMAIN args /\ 6 \in DOMAIN args
        BY <2>2
      <4>2. parse_address(args[5][1]) = quad(d) /\ parse_address(args[6][1]) = quad(g)
        BY <2>1, <2>5
      <4> QED BY <4>1, <4>2, Zenon DEF AddressSetting
    <3>4. DomainSetting(args) = {<<"domain", t>>}
      BY <2>9, Zenon DEF DomainSetting
    <3> QED BY <3>1, <3>2, <3>3, <3>4
  <2>11. Named("interface", args)
           = {<<"index", n>>} \cup {<<"static">>} \cup {<<"address", a>>} \cup {<<"netmask", m>>}
               \cup {<<"dns_server", d>>} \cup {<<"gateway", g>>} \cup {<<"domain", t>>}
    <3> DEFINE names  == <<"index", "", "address", "netmask", "dns_server", "gateway">>
               places == DOMAIN args \ ({2} \cup 7 .. Len(args))
               rest   == {args[i] : i \in DOMAIN args \cap {7}}
    <3>1. Named("interface", args)
            = {<<"static">>} \cup {<<names[i], args[i][1]>> : i \in places} \cup rest
      <4>1. Len(args) >= 4 /\ Len(args) \notin 2 .. 3
        BY <2>1
      <4> QED BY <4>1, Zenon DEF Named
    <3>2. places = {1, 3, 4, 5, 6}
      BY <2>1
    <3>3. rest = {<<"domain", t>>}
      <4>1. 7 \in DOMAIN args /\ args[7] = <<"domain", t>>
        BY <2>1
      <4>2. DOMAIN args \cap {7} = {7}
        BY <4>1
      <4> QED BY <4>1, <4>2
    <3>4. /\ names[1] = "index" /\ names[3] = "address" /\ names[4] = "netmask"
          /\ names[5] = "dns_server" /\ names[6] = "gateway"
      OBVIOUS
    <3> HIDE DEF names, places, rest
    <3> QED BY <2>1, <3>1, <3>2, <3>3, <3>4
  <2>12. Match("interface", {<<"domain", t>>}, {<<"domain", t>>})
    <3>1. Begins(t, t)
      BY <2>9, BeginsItself
    <3>2. Means("interface", "domain", t, t)
      BY <3>1 DEF Means, NumberKeys, AddressKeys, IdKeys, Compared
    <3> QED BY <3>2, MatchMeaning
  <2>13. Match("interface", Named("interface", args), StaticSettings(args))
    <3>1. /\ Match("interface", {<<"index", n>>}, IndexSetting(args))
          /\ Match("interface", {<<"static">>}, {<<"static">>})
          /\ Match("interface", {<<"address", a>>}, AddressSetting(args, 3, "address"))
          /\ Match("interface", {<<"netmask", m>>}, AddressSetting(args, 4, "netmask"))
          /\ Match("interface", {<<"dns_server", d>>}, AddressSetting(args, 5, "dns_server"))
          /\ Match("interface", {<<"gateway", g>>}, AddressSetting(args, 6, "gateway"))
          /\ Match("interface", {<<"domain", t>>}, DomainSetting(args))
      <4>1. Match("interface", {<<"index", n>>}, IndexSetting(args))
        BY <2>10, InterfaceMeanings, Zenon
      <4>2. Match("interface", {<<"static">>}, {<<"static">>})
        BY MatchWord
      <4>3. \A key \in {"address", "netmask", "dns_server", "gateway"} : \A x :
              Match("interface", {<<key, x>>}, {<<key, quad(x)>>})
        BY InterfaceMeanings, Zenon
      <4>4. /\ Match("interface", {<<"address", a>>}, {<<"address", quad(a)>>})
            /\ Match("interface", {<<"netmask", m>>}, {<<"netmask", quad(m)>>})
            /\ Match("interface", {<<"dns_server", d>>}, {<<"dns_server", quad(d)>>})
            /\ Match("interface", {<<"gateway", g>>}, {<<"gateway", quad(g)>>})
        BY <4>3
      <4> QED BY <4>1, <4>2, <4>4, <2>10, <2>12, Zenon
    <3> DEFINE w2 == {<<"index", n>>} \cup {<<"static">>}
               w3 == w2 \cup {<<"address", a>>}
               w4 == w3 \cup {<<"netmask", m>>}
               w5 == w4 \cup {<<"dns_server", d>>}
               w6 == w5 \cup {<<"gateway", g>>}
               b2 == IndexSetting(args) \cup {<<"static">>}
               b3 == b2 \cup AddressSetting(args, 3, "address")
               b4 == b3 \cup AddressSetting(args, 4, "netmask")
               b5 == b4 \cup AddressSetting(args, 5, "dns_server")
               b6 == b5 \cup AddressSetting(args, 6, "gateway")
    <3>2. Match("interface", w2, b2)
      BY <3>1, MatchBoth
    <3>3. Match("interface", w3, b3)
      <4> HIDE DEF w2, b2
      <4> QED BY <3>1, <3>2, MatchBoth
    <3>4. Match("interface", w4, b4)
      <4> HIDE DEF w3, b3
      <4> QED BY <3>1, <3>3, MatchBoth
    <3>5. Match("interface", w5, b5)
      <4> HIDE DEF w4, b4
      <4> QED BY <3>1, <3>4, MatchBoth
    <3>6. Match("interface", w6, b6)
      <4> HIDE DEF w5, b5
      <4> QED BY <3>1, <3>5, MatchBoth
    <3>7. Match("interface", w6 \cup {<<"domain", t>>}, b6 \cup DomainSetting(args))
      <4> HIDE DEF w6, b6
      <4> QED BY <3>1, <3>6, MatchBoth
    <3> QED BY <2>11, <3>7, Zenon DEF StaticSettings
  <2>14. Asked("interface", args, StaticSettings(args))
    BY <2>13, MatchAsked
  <2> QED BY <1>0, <2>8, <2>14 DEF Heeded
<1>6. \/ args = <<>>
      \/ \E b \in Bools : args = <<<<"redundancy">>, <<b>>>>
      \/ \E n \in Numerals : args = <<<<n>>, <<"dhcp">>>>
      \/ \E n \in Numerals, l \in {"ll", "ll_delay"}, b \in Bools : args = <<<<n>>, <<l>>, <<b>>>>
      \/ \E n \in Numerals, a \in Addresses, m \in Addresses, d \in Addresses, g \in Addresses,
            t \in Names :
           args = <<<<n>>, <<"static">>, <<a>>, <<m>>, <<d>>, <<g>>, <<"domain", t>>>>
  BY DEF Usage, Queries, Plain, Keyed
<1> QED BY <1>1, <1>2, <1>3, <1>4, <1>5, <1>6

\* An upgrade3 as its usage text gives it: the source, the path and then, each at most once, the
\* length and the identifiers.
SourceWords ==
  Plain({"local"}) \cup Keyed("tftp", Addresses)
    \cup {<<"tftp", a, n>> : a \in Addresses, n \in Numerals \ {"0"}}
LenWords == Keyed("len", Numerals)
IdWords  == Keyed("mf", Ids) \cup Keyed("model", Ids)

Upgrade3Line(args) ==
  /\ DOMAIN args = 1 .. Len(args) /\ 1 \in DOMAIN args /\ 2 \in DOMAIN args
  /\ args[1] \in SourceWords /\ args[2] \in Keyed("path", Names)
  /\ \A i \in DOMAIN args \ {1, 2} : args[i] \in LenWords => i = 3
  /\ \A i \in DOMAIN args \ {1, 2} : args[i] \in LenWords \cup IdWords
  /\ \A i, j \in DOMAIN args \ {1, 2} : args[i][1] = args[j][1] => i = j

LEMMA KeyedWord ==
  ASSUME NEW key, NEW texts, NEW w \in Keyed(key, texts)
  PROVE  \E t \in texts : w = <<key, t>> /\ Len(w) = 2 /\ w[1] = key /\ w[2] = t
<1>1. PICK t \in texts : w = <<key, t>>
  BY DEF Keyed
<1> QED BY <1>1

LEMMA OneOrNone ==
  ASSUME NEW words, NEW l \in {<<>>} \cup One(words), NEW S, words \subseteq S
  PROVE  l \in Seq(S) /\ Len(l) \in {0, 1} /\ (Len(l) = 1 => l[1] \in words)
<1>1. CASE l = <<>>
  <2>1. <<>> \in Seq(S) /\ Len(<<>>) = 0
    OBVIOUS
  <2>2. l \in Seq(S) /\ Len(l) = 0
    BY <1>1, <2>1, Zenon
  <2> QED BY <2>2
<1>2. ASSUME NEW w \in words, l = <<w>>
      PROVE  l \in Seq(S) /\ Len(l) = 1 /\ l[1] \in words
  BY <1>2
<1> QED BY <1>1, <1>2 DEF One

Joined(s, p, l, f, m) == <<s, p>> \o l \o f \o m

LEMMA OneMore ==
  ASSUME NEW S, NEW a \in Seq(S), NEW k \in Nat, Len(a) = k, NEW l \in Seq(S)
  PROVE  /\ a \o l \in Seq(S) /\ Len(a \o l) = k + Len(l)
         /\ \A i \in 1 .. k : (a \o l)[i] = a[i]
         /\ Len(l) = 1 => (a \o l)[k + 1] = l[1]
OBVIOUS

LEMMA Upgrade3Words ==
  ASSUME NEW args \in Usage("upgrade3"), args # <<<<"query">>>>
  PROVE  Upgrade3Line(args)
<1> DEFINE S == SourceWords \cup Keyed("path", Names) \cup LenWords \cup IdWords
           lens == {<<>>} \cup One(LenWords)
           mfs == {<<>>} \cup One(Keyed("mf", Ids))
           models == {<<>>} \cup One(Keyed("model", Ids))
<1>0. \E s \in SourceWords, p \in Keyed("path", Names), l \in lens, f \in mfs, m \in models :
        args = <<s, p>> \o l \o f \o m
  <2> DEFINE T == {Joined(s, p, l, f, m) : s \in SourceWords, p \in Keyed("path", Names),
                                          l \in lens, f \in mfs, m \in models}
             query == <<<<"query">>>>
  <2>1. Usage("upgrade3") = {query} \cup T
    BY DEF Usage, Queries, SourceWords, LenWords, Joined
  <2>2. args \in T
    <3> HIDE DEF T
    <3>1. args # query
      OBVIOUS
    <3> HIDE DEF query
    <3> QED BY <2>1, <3>1
  <2> HIDE DEF lens, mfs, models
  <2>3. \E s \in SourceWords, p \in Keyed("path", Names), l \in lens, f \in mfs, m \in models :
          args = Joined(s, p, l, f, m)
    BY <2>2
  <2> QED BY <2>3, Zenon DEF Joined
<1> HIDE DEF lens, mfs, models
<1>1. PICK s \in SourceWords, p \in Keyed("path", Names), l \in lens, f \in mfs, m \in models :
        args = <<s, p>> \o l \o f \o m
  BY <1>0
<1>2. /\ s \in S /\ p \in S /\ LenWords \subseteq S
      /\ Keyed("mf", Ids) \subseteq S /\ Keyed("model", Ids) \subseteq S
  BY DEF IdWords
<1> HIDE DEF S
<1> DEFINE a == <<s, p>>  b == a \o l  c == b \o f
           nl == Len(l)  nf == Len(f)  nm == Len(m)
<1>3. a \in Seq(S) /\ Len(a) = 2 /\ a[1] = s /\ a[2] = p
  BY <1>2
<1>4. l \in Seq(S) /\ nl \in {0, 1} /\ (nl = 1 => l[1] \in LenWords)
  BY <1>2, OneOrNone DEF lens
<1>5. f \in Seq(S) /\ nf \in {0, 1} /\ (nf = 1 => f[1] \in Keyed("mf", Ids))
  BY <1>2, OneOrNone DEF mfs
<1>6. m \in Seq(S) /\ nm \in {0, 1} /\ (nm = 1 => m[1] \in Keyed("model", Ids))
  BY <1>2, OneOrNone DEF models
<1>7. args = c \o m
  BY <1>1
<1> HIDE DEF a
<1>8. /\ b \in Seq(S) /\ Len(b) = 2 + nl /\ b[1] = s /\ b[2] = p
      /\ nl = 1 => b[3] = l[1]
  <2>1. /\ b \in Seq(S) /\ Len(b) = 2 + nl /\ \A i \in 1 .. 2 : b[i] = a[i]
        /\ nl = 1 => b[2 + 1] = l[1]
    <3>1. 2 \in Nat
      OBVIOUS
    <3>2. ASSUME NEW k \in Nat, Len(a) = k
          PROVE  /\ a \o l \in Seq(S) /\ Len(a \o l) = k + Len(l)
                 /\ \A i \in 1 .. k : (a \o l)[i] = a[i]
                 /\ Len(l) = 1 => (a \o l)[k + 1] = l[1]
      BY <1>3, <1>4, <3>2, OneMore
    <3> QED BY <1>3, <3>1, <3>2
  <2> HIDE DEF b, nl
  <2> QED BY <1>3, <2>1
<1> HIDE DEF b
<1>9. /\ c \in Seq(S) /\ Len(c) = 2 + nl + nf /\ c[1] = s /\ c[2] = p
      /\ nl = 1 => c[3] = l[1]
      /\ nf = 1 => c[3 + nl] = f[1]
  <2>1. 2 + nl \in Nat
    BY <1>4
  <2>2. /\ c \in Seq(S) /\ Len(c) = 2 + nl + nf /\ \A i \in 1 .. 2 + nl : c[i] = b[i]
        /\ nf = 1 => c[2 + nl + 1] = f[1]
    BY <1>5, <1>8, <2>1, OneMore
  <2> HIDE DEF c, nl, nf
  <2> QED BY <1>4, <1>8, <2>2
<1> HIDE DEF c
<1>10. /\ Len(args) = 2 + nl + nf + nm
       /\ args[1] = s /\ args[2] = p /\ DOMAIN args = 1 .. Len(args)
       /\ nl = 1 => args[3] = l[1]
       /\ nf = 1 => args[3 + nl] = f[1]
       /\ nm = 1 => args[3 + nl + nf] = m[1]
  <2>1. 2 + nl + nf \in Nat
    BY <1>4, <1>5
  <2>2. /\ args \in Seq(S) /\ Len(args) = 2 + nl + nf + nm
        /\ \A i \in 1 .. 2 + nl + nf : args[i] = c[i]
        /\ nm = 1 => args[2 + nl + nf + 1] = m[1]
    BY <1>6, <1>7, <1>9, <2>1, OneMore
  <2>3. DOMAIN args = 1 .. Len(args)
    BY <2>2
  <2> HIDE DEF nl, nf, nm
  <2>4. args[1] = s /\ args[2] = p
    BY <1>4, <1>5, <1>9, <2>2
  <2>5. (nl = 1 => args[3] = l[1]) /\ (nf = 1 => args[3 + nl] = f[1])
    BY <1>4, <1>5, <1>9, <2>2
  <2>6. nm = 1 => args[3 + nl + nf] = m[1]
    BY <1>4, <1>5, <2>2
  <2> QED BY <2>2, <2>3, <2>4, <2>5, <2>6
<1> HIDE DEF nl, nf, nm
<1>11. 1 \in DOMAIN args /\ 2 \in DOMAIN args
  BY <1>4, <1>5, <1>6, <1>10
<1> DEFINE LenAt(i)   == i = 3 /\ args[i] \in LenWords
           MfAt(i)    == i = 3 + nl /\ args[i] \in Keyed("mf", Ids) /\ (nl = 1 => i # 3)
           ModelAt(i) == i = 3 + nl + nf /\ args[i] \in Keyed("model", Ids) /\ (nl = 1 => i # 3)
<1>12. \A i \in DOMAIN args \ {1, 2} : LenAt(i) \/ MfAt(i) \/ ModelAt(i)
  <2> SUFFICES ASSUME NEW i \in DOMAIN args \ {1, 2} PROVE LenAt(i) \/ MfAt(i) \/ ModelAt(i)
    OBVIOUS
  <2>1. i \in Nat /\ i >= 3 /\ i <= 2 + nl + nf + nm
    BY <1>4, <1>5, <1>6, <1>10
  <2>2. \/ i = 3 /\ nl = 1
        \/ i = 3 + nl /\ nf = 1
        \/ i = 3 + nl + nf /\ nm = 1
    BY <1>4, <1>5, <1>6, <2>1
  <2>3. CASE i = 3 /\ nl = 1
    BY <1>4, <1>10, <2>3
  <2>4. CASE i = 3 + nl /\ nf = 1
    BY <1>4, <1>5, <1>10, <2>4
  <2>5. CASE i = 3 + nl + nf /\ nm = 1
    BY <1>4, <1>5, <1>6, <1>10, <2>5
  <2> QED BY <2>2, <2>3, <2>4, <2>5
<1>13. /\ \A w \in LenWords : w[1] = "len"
       /\ \A w \in Keyed("mf", Ids) : w[1] = "mf"
       /\ \A w \in Keyed("model", Ids) : w[1] = "model"
  BY KeyedWord DEF LenWords
<1> DEFINE KeyAt(i) == \/ i = 3 /\ args[i][1] = "len"
                       \/ i = 3 + nl /\ args[i][1] = "mf"
                       \/ i = 3 + nl + nf /\ args[i][1] = "model"
<1>14. \A i \in DOMAIN args \ {1, 2} : KeyAt(i)
  BY <1>12, <1>13
<1>15. \A i, j \in DOMAIN args \ {1, 2} : args[i][1] = args[j][1] => i = j
  <2> SUFFICES ASSUME NEW i \in DOMAIN args \ {1, 2}, NEW j \in DOMAIN args \ {1, 2},
                      args[i][1] = args[j][1]
               PROVE  i = j
    OBVIOUS
  <2>1. KeyAt(i) /\ KeyAt(j)
    BY <1>14
  <2> QED BY <2>1
<1>16. \A i \in DOMAIN args \ {1, 2} : args[i] \in LenWords \cup IdWords
  BY <1>12 DEF IdWords
<1>17. \A i \in DOMAIN args \ {1, 2} : args[i] \in LenWords => i = 3
  BY <1>13, <1>14
<1> QED BY <1>10, <1>11, <1>15, <1>16, <1>17 DEF Upgrade3Line

\* Where the file is to be read from, as its word says.
SourceNamed(w) ==
  CASE w \in Plain({"local"}) -> {}
    [] OTHER -> {<<"tftp", w[2]>>, <<"port", IF Len(w) = 3 THEN w[3] ELSE "69">>}

LEMMA SourceFollows ==
  ASSUME NEW args, Upgrade3Line(args)
  PROVE  \E source : /\ Source(args) = {source}
                     /\ Match("upgrade3", SourceNamed(args[1]), source)
<1>0. args # <<>>
  BY DEF Upgrade3Line
<1>1. CASE args[1] = <<"local">>
  <2>1. args[1] \in Plain({"local"}) /\ args[1][1] # "tftp"
    BY <1>1 DEF Plain
  <2>2. SourceNamed(args[1]) = {}
    BY <2>1, Zenon DEF SourceNamed
  <2>3. Source(args) = {{}}
    BY <1>0, <1>1, <2>1 DEF Source, When
  <2>4. Match("upgrade3", {}, {})
    BY DEF Match
  <2> QED BY <2>2, <2>3, <2>4
<1>2. ASSUME NEW a \in Addresses, NEW text, NEW port \in Nat, port # 0,
             args[1] # <<"local">>, args[1][1] = "tftp", Len(args[1]) > 1, args[1][2] = a,
             text = (IF Len(args[1]) = 3 THEN args[1][3] ELSE "69"),
             port = (IF Len(args[1]) = 3 THEN U16(atoi(args[1][3])) ELSE 69),
             port = atoi(text)
      PROVE  \E source : /\ Source(args) = {source}
                         /\ Match("upgrade3", SourceNamed(args[1]), source)
  <2>1. IsAddress(quad(a)) /\ quad(a) # NoAddress
    BY ReadingAssumption
  <2>2. inet_addr(a) = quad(a)
    BY <2>1, AddressByInet
  <2>3. Source(args) = {{<<"tftp", quad(a)>>, <<"port", port>>}}
    BY <1>0, <1>2, <2>1, <2>2 DEF Source, When
  <2>4. SourceNamed(args[1]) = {<<"tftp", a>>, <<"port", text>>}
    <3>1. args[1] \notin Plain({"local"})
      BY <1>2 DEF Plain
    <3> QED BY <1>2, <3>1 DEF SourceNamed
  <2>5. Means("upgrade3", "tftp", a, quad(a)) /\ Means("upgrade3", "port", text, port)
    BY <1>2 DEF Means, NumberKeys, AddressKeys, IdKeys
  <2>6. Match("upgrade3", {<<"tftp", a>>} \cup {<<"port", text>>},
                          {<<"tftp", quad(a)>>} \cup {<<"port", port>>})
    BY <2>5, MatchMeaning, MatchBoth
  <2> DEFINE source == {<<"tftp", quad(a)>>} \cup {<<"port", port>>}
  <2>7. SourceNamed(args[1]) = {<<"tftp", a>>} \cup {<<"port", text>>}
    BY <2>4
  <2>8. {<<"tftp", quad(a)>>, <<"port", port>>} = source
    OBVIOUS
  <2>9. Match("upgrade3", SourceNamed(args[1]), source)
    BY <2>6, <2>7, Zenon
  <2>10. Source(args) = {source}
    BY <2>3, <2>8, Zenon
  <2> HIDE DEF source
  <2> QED BY <2>9, <2>10
<1>3. ASSUME NEW a \in Addresses, args[1] = <<"tftp", a>>
      PROVE  \E source : /\ Source(args) = {source}
                         /\ Match("upgrade3", SourceNamed(args[1]), source)
  <2>1. Len(args[1]) = 2 /\ args[1][1] = "tftp" /\ args[1][2] = a /\ args[1] # <<"local">>
    BY <1>3
  <2>2. atoi("69") = 69
    BY LiteralRead DEF Literals
  <2> QED BY <1>2, <2>1, <2>2
<1>4. ASSUME NEW a \in Addresses, NEW n \in Numerals \ {"0"}, args[1] = <<"tftp", a, n>>
      PROVE  \E source : /\ Source(args) = {source}
                         /\ Match("upgrade3", SourceNamed(args[1]), source)
  <2>1. /\ Len(args[1]) = 3 /\ args[1][1] = "tftp" /\ args[1][2] = a /\ args[1][3] = n
        /\ args[1] # <<"local">>
    BY <1>4
  <2>2. U16(atoi(n)) = atoi(n) /\ atoi(n) # 0 /\ atoi(n) \in Nat
    BY NumeralRead, NaturalNumerals, Zenon
  <2> QED BY <1>2, <2>1, <2>2
<1>5. args[1] \in SourceWords
  BY DEF Upgrade3Line
<1> QED BY <1>1, <1>3, <1>4, <1>5 DEF SourceWords, Plain, Keyed

\* The words after the path, and what is set by them.
After(args) == {args[i] : i \in DOMAIN args \ {1, 2}}
Place(args) == IF Has(args, 3, "len") THEN 4 ELSE 3
LenSetting(args) == IF Has(args, 3, "len") THEN {<<"len", atoi(Text(args, 3))>>} ELSE {}

LEMMA LenWordAt ==
  ASSUME NEW args, Upgrade3Line(args), NEW i \in DOMAIN args \ {1, 2}, args[i] \in LenWords
  PROVE  Has(args, 3, "len") /\ i = 3 /\ Text(args, i) = args[i][2]
<1>1. i = 3
  BY DEF Upgrade3Line
<1>2. PICK t \in Numerals : args[i] = <<"len", t>>
  BY KeyedWord DEF LenWords
<1>3. Has(args, i, "len") /\ Text(args, i) = t
  BY <1>2, WordAt
<1> QED BY <1>1, <1>2, <1>3

LEMMA IdWordAt ==
  ASSUME NEW args, Line(args), Upgrade3Line(args), NEW i \in DOMAIN args \ {1, 2},
         args[i] \in IdWords
  PROVE  \E k \in IdKeys :
           /\ Has(args, i, k) /\ parse_id64(Text(args, i)) # Invalid
           /\ args[i][1] = k /\ i >= Place(args) /\ i <= Len(args)
           /\ <<k, parse_id64(Text(args, i))>> \in LastIds(args, Place(args))
           /\ AskedBy("upgrade3", args[i], <<k, parse_id64(Text(args, i))>>)
<1>1. PICK k \in IdKeys, t \in Ids : args[i] = <<k, t>> /\ args[i][1] = k
  BY KeyedWord DEF IdWords, IdKeys
<1>2. Has(args, i, k) /\ Text(args, i) = t
  BY <1>1, WordAt
<1>3. parse_id64(t) # Invalid
  BY ReadingAssumption
<1>4. /\ DOMAIN args = 1 .. Len(args) /\ Len(args) \in Nat /\ i \in Nat /\ i >= 3 /\ i <= Len(args)
  BY LineIsSequence
<1>5. i >= Place(args) /\ Place(args) \in {3, 4}
  <2>1. Has(args, 3, "len") => i # 3
    <3>1. k # "len"
      BY DEF IdKeys
    <3>2. Has(args, 3, "len") => args[3][1] = "len"
      BY TextIsSecond
    <3> QED BY <1>1, <3>1, <3>2
  <2> QED BY <1>4, <2>1 DEF Place
<1>6. t \in Seq(Chars)
  <2>1. 2 \in 1 .. Len(args[i]) /\ args[i][1] \in IdKeys /\ args[i][2] = t
    BY <1>1
  <2> QED BY <2>1 DEF Line, Chars
<1>7. Means("upgrade3", k, t, parse_id64(t))
  BY <1>3, <1>6, ParsedIdIsWritten DEF Means, NumberKeys, AddressKeys, IdKeys
<1>8. AskedBy("upgrade3", args[i], <<k, parse_id64(Text(args, i))>>)
  BY <1>2, <1>7, MeaningAsked
<1>9. \A n \in i + 1 .. Len(args) : ~Has(args, n, k)
  <2> SUFFICES ASSUME NEW n \in i + 1 .. Len(args), Has(args, n, k) PROVE FALSE
    OBVIOUS
  <2>1. n \in DOMAIN args \ {1, 2} /\ n # i
    BY <1>4
  <2>2. args[n][1] = k
    BY TextIsSecond
  <2> QED BY <1>1, <2>1, <2>2 DEF Upgrade3Line
<1>10. i \in Place(args) .. Len(args)
  BY <1>4, <1>5
<1>11. <<k, parse_id64(Text(args, i))>> \in LastIds(args, Place(args))
  BY <1>2, <1>9, <1>10 DEF LastIds
<1> QED BY <1>1, <1>2, <1>3, <1>4, <1>5, <1>8, <1>11

LEMMA AfterFollows ==
  ASSUME NEW args, Line(args), Upgrade3Line(args)
  PROVE  /\ IdsRead(args, Place(args))
         /\ Match("upgrade3", After(args), LenSetting(args) \cup LastIds(args, Place(args)))
<1>0. /\ DOMAIN args = 1 .. Len(args) /\ Len(args) \in Nat
      /\ \A i \in DOMAIN args \ {1, 2} : args[i] \in LenWords \/ args[i] \in IdWords
  BY LineIsSequence DEF Upgrade3Line
<1>1. ASSUME NEW i \in DOMAIN args \ {1, 2}, args[i] \in LenWords
      PROVE  /\ i = 3 /\ Has(args, 3, "len") /\ LenSetting(args) = {<<"len", atoi(Text(args, 3))>>}
             /\ AskedBy("upgrade3", args[i], <<"len", atoi(Text(args, 3))>>)
  <2>1. i = 3 /\ Has(args, 3, "len")
    BY <1>1, LenWordAt
  <2>2. AskedBy("upgrade3", args[3], <<"len", atoi(Text(args, 3))>>)
    BY <2>1, NumberAsked DEF NumberKeys
  <2> QED BY <2>1, <2>2 DEF LenSetting
<1>2. IdsRead(args, Place(args))
  <2> SUFFICES ASSUME NEW i \in Place(args) .. Len(args)
               PROVE  \E k \in IdKeys : Has(args, i, k) /\ parse_id64(Text(args, i)) # Invalid
    BY DEF IdsRead
  <2>1. i \in DOMAIN args \ {1, 2} /\ (Has(args, 3, "len") => i # 3)
    BY <1>0 DEF Place
  <2>2. args[i] \in IdWords
    BY <1>0, <1>1, <2>1
  <2> QED BY <2>1, <2>2, IdWordAt
<1>3. \A w \in After(args) : \E s \in LenSetting(args) \cup LastIds(args, Place(args)) :
        AskedBy("upgrade3", w, s)
  <2> SUFFICES ASSUME NEW i \in DOMAIN args \ {1, 2}
               PROVE  \E s \in LenSetting(args) \cup LastIds(args, Place(args)) :
                        AskedBy("upgrade3", args[i], s)
    BY DEF After
  <2>1. CASE args[i] \in LenWords
    BY <1>1, <2>1
  <2>2. CASE args[i] \in IdWords
    BY <2>2, IdWordAt
  <2> QED BY <1>0, <2>1, <2>2
<1>4. \A s \in LenSetting(args) \cup LastIds(args, Place(args)) : \E w \in After(args) :
        AskedBy("upgrade3", w, s)
  <2>1. ASSUME NEW s \in LenSetting(args)
        PROVE  \E w \in After(args) : AskedBy("upgrade3", w, s)
    <3>1. Has(args, 3, "len") /\ s = <<"len", atoi(Text(args, 3))>>
      BY DEF LenSetting
    <3>2. 3 \in DOMAIN args /\ AskedBy("upgrade3", args[3], s)
      <4>1. 3 \in DOMAIN args /\ AskedBy("upgrade3", args[3], <<"len", atoi(Text(args, 3))>>)
        BY <3>1, NumberAsked DEF NumberKeys
      <4> QED BY <3>1, <4>1
    <3>3. args[3] \in After(args)
      BY <3>2 DEF After
    <3> QED BY <3>2, <3>3
  <2>2. ASSUME NEW s \in LastIds(args, Place(args))
        PROVE  \E w \in After(args) : AskedBy("upgrade3", w, s)
    <3>1. PICK i \in Place(args) .. Len(args), k \in IdKeys :
            Has(args, i, k) /\ s = <<k, parse_id64(Text(args, i))>>
      BY DEF LastIds
    <3>2. i \in DOMAIN args \ {1, 2} /\ args[i][1] = k
      BY <1>0, <3>1, TextIsSecond DEF Place
    <3>3. args[i] \in IdWords
      <4>1. k # "len"
        BY DEF IdKeys
      <4>2. \A w \in LenWords : w[1] = "len"
        BY KeyedWord DEF LenWords
      <4> QED BY <1>0, <3>2, <4>1, <4>2
    <3>4. AskedBy("upgrade3", args[i], s)
      BY <3>1, <3>2, <3>3, IdWordAt
    <3>5. args[i] \in After(args)
      BY <3>2 DEF After
    <3> QED BY <3>4, <3>5
  <2> QED BY <2>1, <2>2
<1> QED BY <1>2, <1>3, <1>4 DEF Match

LEMMA Upgrade3Named ==
  ASSUME NEW args, Upgrade3Line(args)
  PROVE  Named("upgrade3", args) = SourceNamed(args[1]) \cup {args[2]} \cup After(args)
<1> DEFINE words(w) == CASE w \in Plain({"local", "query"}) -> {}
                         [] w[1] = "tftp" ->
                              {<<"tftp", w[2]>>, <<"port", IF Len(w) = 3 THEN w[3] ELSE "69">>}
                         [] OTHER -> {w}
<1>1. Named("upgrade3", args) = UNION {words(args[j]) : j \in DOMAIN args}
  BY Zenon DEF Named
<1>2. ASSUME NEW key, NEW texts, NEW w \in Keyed(key, texts), key # "tftp"
      PROVE  words(w) = {w}
  <2>1. Len(w) = 2 /\ w[1] = key
    BY KeyedWord
  <2>2. w \notin Plain({"local", "query"})
    BY <2>1 DEF Plain
  <2> QED BY <1>2, <2>1, <2>2
<1>3. words(args[1]) = SourceNamed(args[1])
  <2>1. args[1] \in SourceWords
    BY DEF Upgrade3Line
  <2>2. CASE args[1] = <<"local">>
    <3>1. args[1] \in Plain({"local", "query"}) /\ args[1] \in Plain({"local"}) /\ args[1][1] # "tftp"
      BY <2>2 DEF Plain
    <3>2. words(args[1]) = {}
      BY <3>1
    <3>3. SourceNamed(args[1]) = {}
      BY <3>1, Zenon DEF SourceNamed
    <3> QED BY <3>2, <3>3
  <2>3. CASE args[1] # <<"local">>
    <3>1. Len(args[1]) > 1 /\ args[1][1] = "tftp"
      BY <2>1, <2>3 DEF SourceWords, Plain, Keyed
    <3>2. args[1] \notin Plain({"local", "query"}) /\ args[1] \notin Plain({"local"})
      BY <3>1 DEF Plain
    <3>3. words(args[1]) = {<<"tftp", args[1][2]>>,
                            <<"port", IF Len(args[1]) = 3 THEN args[1][3] ELSE "69">>}
      BY <3>1, <3>2
    <3>4. SourceNamed(args[1]) = {<<"tftp", args[1][2]>>,
                                  <<"port", IF Len(args[1]) = 3 THEN args[1][3] ELSE "69">>}
      BY <3>2, Zenon DEF SourceNamed
    <3> QED BY <3>3, <3>4
  <2> QED BY <2>2, <2>3
<1>4. words(args[2]) = {args[2]}
  <2>1. args[2] \in Keyed("path", Names)
    BY DEF Upgrade3Line
  <2> HIDE DEF words
  <2> QED BY <1>2, <2>1
<1>5. \A i \in DOMAIN args \ {1, 2} : words(args[i]) = {args[i]}
  <2> SUFFICES ASSUME NEW i \in DOMAIN args \ {1, 2} PROVE words(args[i]) = {args[i]}
    OBVIOUS
  <2>1. \/ args[i] \in Keyed("len", Numerals) \/ args[i] \in Keyed("mf", Ids)
        \/ args[i] \in Keyed("model", Ids)
    BY DEF Upgrade3Line, LenWords, IdWords
  <2> HIDE DEF words
  <2> QED BY <1>2, <2>1
<1>6. 1 \in DOMAIN args /\ 2 \in DOMAIN args
  BY DEF Upgrade3Line
<1> HIDE DEF words
<1>7. UNION {words(args[j]) : j \in DOMAIN args}
        = words(args[1]) \cup words(args[2]) \cup UNION {words(args[j]) : j \in DOMAIN args \ {1, 2}}
  BY <1>6
<1>8. UNION {words(args[j]) : j \in DOMAIN args \ {1, 2}} = After(args)
  BY <1>5 DEF After
<1> QED BY <1>1, <1>3, <1>4, <1>7, <1>8

LEMMA Upgrade3Heeded ==
  ASSUME NEW args \in Usage("upgrade3"), Line(args)
  PROVE  Heeded("upgrade3", args)
<1>0. Bodies("upgrade3", args) = upgrade3(args)
  BY DEF Bodies, Queries
<1>1. CASE args = <<<<"query">>>>
  <2>1. /\ Len(args) = 1 /\ args[1] = <<"query">> /\ args[1][1] = "query" /\ DOMAIN args = {1}
        /\ ~Has(args, 2, "path")
    BY <1>1 DEF Has
  <2>2. upgrade3(args) = {{}}
    BY <1>1, <2>1 DEF upgrade3, SourceFile, When
  <2>3. Named("upgrade3", args) = {}
    <3>1. args[1] \in Plain({"local", "query"}) /\ args[1][1] # "tftp"
      BY <2>1 DEF Plain
    <3> DEFINE words(w) == CASE w \in Plain({"local", "query"}) -> {}
                             [] w[1] = "tftp" ->
                                  {<<"tftp", w[2]>>, <<"port", IF Len(w) = 3 THEN w[3] ELSE "69">>}
                             [] OTHER -> {w}
    <3>2. Named("upgrade3", args) = UNION {words(args[j]) : j \in DOMAIN args}
      BY Zenon DEF Named
    <3>3. words(args[1]) = {}
      BY <3>1
    <3> HIDE DEF words
    <3> QED BY <2>1, <3>2, <3>3
  <2>4. Asked("upgrade3", args, {})
    BY <2>3 DEF Asked
  <2> QED BY <1>0, <2>2, <2>4 DEF Heeded
<1>2. CASE args # <<<<"query">>>>
  <2>1. Upgrade3Line(args)
    BY <1>2, Upgrade3Words
  <2>2. PICK source : Source(args) = {source} /\ Match("upgrade3", SourceNamed(args[1]), source)
    BY <2>1, SourceFollows
  <2>3. PICK t \in Names : args[2] = <<"path", t>> /\ 2 \in DOMAIN args
    BY <2>1, KeyedWord DEF Upgrade3Line
  <2>4. Has(args, 2, "path") /\ Text(args, 2) = t
    BY <2>3, WordAt
  <2> DEFINE path == {<<"path", t>>}
             body == (source \cup path \cup LenSetting(args)) \cup LastIds(args, Place(args))
  <2>5. Match("upgrade3", {args[2]}, path)
    <3>1. Begins(t, t)
      BY <2>4, BeginsItself
    <3>2. Means("upgrade3", "path", t, t)
      BY <3>1 DEF Means, NumberKeys, AddressKeys, IdKeys, Compared
    <3> QED BY <2>3, <3>2, MatchMeaning
  <2>6. /\ IdsRead(args, Place(args))
        /\ Match("upgrade3", After(args), LenSetting(args) \cup LastIds(args, Place(args)))
    BY <2>1, AfterFollows
  <2>7. SourceFile(args) = {source \cup path \cup LenSetting(args)}
    BY <2>2, <2>4 DEF SourceFile, LenSetting
  <2>8. upgrade3(args) = {body}
    <3>1. When(args = <<<<"query">>>>, {}) = {}
      BY <1>2, WhenIsSo
    <3> HIDE DEF path
    <3> QED BY <2>6, <2>7, <3>1 DEF upgrade3, Place
  <2>9. Match("upgrade3", Named("upgrade3", args), body)
    <3>1. Named("upgrade3", args) = (SourceNamed(args[1]) \cup {args[2]}) \cup After(args)
      BY <2>1, Upgrade3Named
    <3>2. body = (source \cup path) \cup (LenSetting(args) \cup LastIds(args, Place(args)))
      OBVIOUS
    <3>3. Match("upgrade3", SourceNamed(args[1]) \cup {args[2]}, source \cup path)
      BY <2>2, <2>5, MatchBoth
    <3> HIDE DEF body, path
    <3> QED BY <2>6, <3>1, <3>2, <3>3, MatchBoth
  <2> HIDE DEF body
  <2> QED BY <1>0, <2>8, <2>9, MatchAsked DEF Heeded
<1> QED BY <1>1, <1>2

\* Of a line that the usage text of its command prints, and that is not misprinted, the handler
\* builds a message, and every message that is built of it says all that its words do, and no more.
THEOREM UsageBodies ==
  ASSUME NEW cmd, NEW args \in Usage(cmd) \ Misprinted(cmd), Line(args)
  PROVE  Heeded(cmd, args)
<1>1. CASE cmd \in Queries
  <2>1. cmd \notin {"interface", "switch_vlan", "upgrade", "upgrade3", "clear_config", "gpio",
                    "clocking", "uclocking", "igmp", "ifstats", "srate", "enc", "pullup", "edk",
                    "sysreset", "access", "errthres", "metering", "serial", "haremote",
                    "ptp_logging", "name_id"}
    BY <1>1 DEF Queries
  <2>2. args = <<>>
    BY <1>1, <2>1 DEF Usage
  <2>3. Bodies(cmd, <<>>) = {{}}
    BY <1>1, <2>1 DEF Bodies
  <2>4. AsTyped(cmd)
    BY <2>1 DEF AsTyped
  <2> QED BY <2>2, <2>3, <2>4, EmptyLineHeeded
<1>2. CASE cmd \in {"interface", "switch_vlan", "upgrade", "upgrade3", "clear_config", "gpio"}
  BY <1>2, InterfaceHeeded, SwitchVlanHeeded, UpgradeHeeded, Upgrade3Heeded, ClearConfigHeeded,
     GpioHeeded
<1>3. CASE cmd \in {"clocking", "uclocking", "igmp", "ifstats", "srate", "enc", "pullup", "edk"}
  BY <1>3, ClockingHeeded, UclockingHeeded, IgmpHeeded, IfstatsHeeded, SrateHeeded, EncHeeded,
     PullupHeeded, EdkHeeded
<1>4. CASE cmd \in {"sysreset", "access", "errthres", "metering", "serial", "haremote",
                    "ptp_logging", "name_id"}
  BY <1>4, SysresetHeeded, AccessHeeded, ErrthresHeeded, MeteringHeeded, SerialHeeded,
     HaremoteHeeded, PtpLoggingHeeded, NameIdHeeded
<1>5. CASE /\ cmd \notin Queries
           /\ cmd \notin {"interface", "switch_vlan", "upgrade", "upgrade3", "clear_config", "gpio"}
           /\ cmd \notin {"clocking", "uclocking", "igmp", "ifstats", "srate", "enc", "pullup", "edk"}
           /\ cmd \notin {"sysreset", "access", "errthres", "metering", "serial", "haremote",
                         "ptp_logging", "name_id"}
  <2>1. Usage(cmd) = {}
    BY <1>5 DEF Usage
  <2> QED BY <2>1
<1> QED BY <1>1, <1>2, <1>3, <1>4, <1>5

-----------------------------------------------------------------------------
(* The lines that are printed are read as they are typed, and those misprinted are refused. *)

\* A word is read as it is typed if no key can be found in it but its own.
LEMMA Whole ==
  ASSUME NEW cmd, NEW args, Line(args),
         \A i \in DOMAIN args : \/ PrefixKeys(cmd, i) = {}
                                \/ Len(args[i]) = 2 /\ args[i][1] \in PrefixKeys(cmd, i)
                                \/ \A k \in PrefixKeys(cmd, i) : Behind(args[i], k) = {}
  PROVE  Read(cmd, args) = args
<1> DEFINE found(i) == UNION {{<<k, t>> : t \in Behind(args[i], k)} : k \in PrefixKeys(cmd, i)}
           whole(i) == Len(args[i]) = 2 /\ args[i][1] \in PrefixKeys(cmd, i)
           word(i)  == IF whole(i) \/ found(i) = {} THEN args[i] ELSE CHOOSE w \in found(i) : TRUE
<1>1. Read(cmd, args) = [i \in DOMAIN args |-> word(i)]
  BY Zenon DEF Read
<1>2. ASSUME NEW i \in DOMAIN args PROVE word(i) = args[i]
  <2>1. CASE whole(i)
    BY <2>1
  <2>2. CASE ~whole(i)
    <3>1. found(i) = {}
      BY <2>2
    <3> QED BY <3>1
  <2> QED BY <2>1, <2>2
<1>3. args = [i \in DOMAIN args |-> args[i]]
  BY DEF Line
<1> HIDE DEF word
<1>4. [i \in DOMAIN args |-> word(i)] = [i \in DOMAIN args |-> args[i]]
  BY <1>2
<1> QED BY <1>1, <1>3, <1>4

\* The commands of which some key is compared without its '='.
Loose == {"interface", "upgrade", "clocking", "igmp", "pullup", "edk", "sysreset", "access",
          "errthres", "ptp_logging"}

LEMMA ReadAsTyped ==
  ASSUME NEW cmd, NEW args \in Usage(cmd), Line(args)
  PROVE  Read(cmd, args) = args
<1> DEFINE Kept == \A i \in DOMAIN args :
                     \/ PrefixKeys(cmd, i) = {}
                     \/ Len(args[i]) = 2 /\ args[i][1] \in PrefixKeys(cmd, i)
                     \/ \A k \in PrefixKeys(cmd, i) : Behind(args[i], k) = {}
<1>1. CASE cmd \notin Loose
  <2>1. \A i : PrefixKeys(cmd, i) = {}
    BY <1>1 DEF PrefixKeys, Loose
  <2> QED BY <2>1, Whole
<1>2. ASSUME NEW keys, NEW names, NEW key \in keys, NEW text, args = <<<<key, text>>>>,
             PrefixKeys(cmd, 1) = keys
      PROVE  Kept
  <2>1. DOMAIN args = {1} /\ Len(args[1]) = 2 /\ args[1][1] = key
    BY <1>2
  <2> QED BY <1>2, <2>1
<1>3. CASE args = <<>>
  <2>1. Kept
    BY <1>3
  <2> QED BY <2>1, Whole
<1>4. CASE args # <<>> /\ cmd = "clocking"
  <2>1. CASE args = <<<<"reload">>>>
    <3>1. DOMAIN args = {1} /\ args[1] = <<"reload">>
      BY <2>1
    <3>2. Kept
      BY <1>4, <3>1, ReadingAssumption
    <3> QED BY <3>2, Whole
  <2>2. CASE args # <<<<"reload">>>>
    <3>1. PICK key, t : key \in PrefixKeys("clocking", 1) /\ args = <<<<key, t>>>>
      BY <1>4, <2>2 DEF Usage, Queries, One, Keyed, Plain, PrefixKeys
    <3>2. Kept
      BY <1>2, <1>4, <3>1
    <3> QED BY <3>2, Whole
  <2> QED BY <2>1, <2>2
<1>5. CASE args # <<>> /\ cmd \in {"igmp", "edk", "sysreset", "access", "ptp_logging"}
  <2>1. PICK key, t : key \in PrefixKeys(cmd, 1) /\ args = <<<<key, t>>>>
    <3>1. CASE cmd = "igmp"
      BY <1>5, <3>1 DEF Usage, Queries, One, Keyed, PrefixKeys
    <3>2. CASE cmd = "edk"
      BY <1>5, <3>2 DEF Usage, Queries, One, Keyed, PrefixKeys
    <3>3. CASE cmd \in {"sysreset", "access"}
      BY <1>5, <3>3 DEF Usage, Queries, One, Keyed, PrefixKeys
    <3>4. CASE cmd = "ptp_logging"
      BY <1>5, <3>4 DEF Usage, Queries, One, Keyed, PrefixKeys
    <3> QED BY <1>5, <3>1, <3>2, <3>3, <3>4
  <2>2. Kept
    BY <1>2, <2>1
  <2> QED BY <2>2, Whole
<1>6. CASE args # <<>> /\ cmd \in {"upgrade", "errthres"}
  <2> DEFINE keys == IF cmd = "upgrade" THEN <<"server", "port", "path">>
                                        ELSE <<"thres", "win", "reset">>
  <2>1. PICK t, u, v : args = <<<<keys[1], t>>, <<keys[2], u>>, <<keys[3], v>>>>
    BY <1>6 DEF Usage, Queries, Keyed
  <2>2. /\ DOMAIN args = {1, 2, 3} /\ args[1] = <<keys[1], t>> /\ args[2] = <<keys[2], u>>
        /\ args[3] = <<keys[3], v>>
    BY <2>1
  <2>3. \A i \in 1 .. 3 : PrefixKeys(cmd, i) = {keys[i]}
    BY <1>6 DEF PrefixKeys
  <2> HIDE DEF keys
  <2>4. Kept
    BY <2>2, <2>3
  <2> QED BY <2>4, Whole
<1>7. CASE args # <<>> /\ cmd = "pullup"
  <2>1. PICK t, u : args = <<<<"val", t>>, <<"subdomain", u>>>>
    BY <1>7 DEF Usage, Queries, Keyed
  <2>2. DOMAIN args = {1, 2} /\ args[1] = <<"val", t>> /\ args[2] = <<"subdomain", u>>
    BY <2>1
  <2>3. PrefixKeys(cmd, 1) = {"val"} /\ PrefixKeys(cmd, 2) = {"subdomain"}
    BY <1>7 DEF PrefixKeys
  <2>4. Kept
    BY <2>2, <2>3
  <2> QED BY <2>4, Whole
<1>8. CASE cmd = "interface"
  <2>1. \A i : i # 7 => PrefixKeys(cmd, i) = {}
    BY <1>8 DEF PrefixKeys
  <2>2. ASSUME 7 \in DOMAIN args PROVE \E t : args[7] = <<"domain", t>>
    BY <1>8, <2>2 DEF Usage, Queries, Keyed, Plain
  <2>3. PrefixKeys(cmd, 7) = {"domain"}
    BY <1>8 DEF PrefixKeys
  <2>4. Kept
    BY <2>1, <2>2, <2>3
  <2> QED BY <2>4, Whole
<1> HIDE DEF Kept
<1> QED BY <1>1, <1>3, <1>4, <1>5, <1>6, <1>7, <1>8 DEF Loose

LEMMA MisprintedRefused ==
  ASSUME NEW cmd, NEW args \in Misprinted(cmd), Line(args)
  PROVE  Bodies(cmd, Read(cmd, args)) = {} /\ cmd # "upgrade3"
<1>1. cmd \in {"clear_config", "gpio", "clocking", "enc", "name_id"}
  BY DEF Misprinted
<1>2. args \in Usage(cmd)
  <2>1. CASE cmd = "clear_config"
    BY <2>1 DEF Misprinted, Usage, Queries
  <2>2. CASE cmd = "gpio"
    BY <2>2 DEF Misprinted, Usage, Queries
  <2>3. CASE cmd = "clocking"
    BY <2>3 DEF Misprinted, Usage, Queries, One, Plain
  <2>4. CASE cmd = "enc"
    BY <2>4 DEF Misprinted, Usage, Queries, One, Keyed
  <2>5. CASE cmd = "name_id"
    <3> DEFINE words == Keyed("name", Names) \cup Keyed("id", {t \in Names : Scans("id", t)})
                          \cup Keyed("uuid", {t \in Names : Scans("uuid", t)})
    <3>1. args = <<>>
      BY <2>5 DEF Misprinted
    <3>2. args \in [1 .. 0 -> words]
      BY <3>1
    <3> HIDE DEF words
    <3>3. args \in UNION {[1 .. n -> words] : n \in 0 .. 2}
      BY <3>2
    <3> QED BY <2>5, <3>3 DEF Usage, Queries, words
  <2> QED BY <1>1, <2>1, <2>2, <2>3, <2>4, <2>5
<1>r. Read(cmd, args) = args
  BY <1>2, ReadAsTyped
<1>3. CASE cmd = "clear_config"
  <2>1. args = <<>>
    BY <1>3 DEF Misprinted
  <2> QED BY <1>r, <1>3, <2>1 DEF Bodies, Queries, clear_config
<1>4. CASE cmd = "gpio"
  <2>1. args = <<>> \/ \E m, v : args = <<<<"mask", m>>, <<"val", v>>>>
    BY <1>4 DEF Misprinted, Keyed
  <2>2. Len(args) # 3 /\ args # <<<<"query">>>>
    BY <2>1
  <2> QED BY <1>r, <1>4, <2>2 DEF Bodies, Queries, gpio, When
<1>5. CASE cmd = "clocking"
  <2>1. args = <<<<"reload">>>>
    BY <1>5 DEF Misprinted
  <2>2. args # <<>> /\ \A key, i : ~Has(args, i, key)
    <3>1. DOMAIN args = {1} /\ args[1] = <<"reload">> /\ Len(<<"reload">>) = 1
      BY <2>1
    <3> QED BY <3>1 DEF Has
  <2>3. Query(args) = {} /\ ~Has(args, 1, "subdomain")
    BY <2>2, NoQuery
  <2>4. \A k, names : Choice(args, 1, k, names) = {}
    BY <2>2 DEF Choice
  <2>5. clocking(args) = {}
    BY <2>3, <2>4 DEF clocking, When
  <2> QED BY <1>r, <1>5, <2>5 DEF Bodies, Queries
<1>6. CASE cmd = "enc"
  <2>1. args = <<<<"enc", "0">>>>
    BY <1>6 DEF Misprinted
  <2>2. Text(args, 1) = "0" /\ Query(args) = {}
    BY <2>1, OneKeyed, NoQuery
  <2>3. atoi("0") = 0
    BY LiteralRead DEF Literals
  <2>4. U16(0) = 0
    BY DEF U16
  <2>5. enc(args) = {}
    BY <2>2, <2>3, <2>4 DEF enc, When
  <2> QED BY <1>r, <1>6, <2>5 DEF Bodies, Queries
<1>7. CASE cmd = "name_id"
  <2>1. args = <<>>
    BY <1>7 DEF Misprinted
  <2> QED BY <1>r, <1>7, <2>1 DEF Bodies, Queries, name_id, When
<1> QED BY <1>1, <1>3, <1>4, <1>5, <1>6, <1>7

=============================================================================
