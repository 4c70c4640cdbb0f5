------------------------------ MODULE TextHelpers ------------------------------
(***************************************************************************)
(* strHelper::splitStr and strHelper::trim of src/src/util/string_helper.h *)
(* and string_helper.cpp, and base64_encode, which ws_client.cpp and the   *)
(* ed25519 tools have in the same form, as operators on sequences of       *)
(* bytes; each next to a definition of what it is to return.               *)
(*                                                                         *)
(* A sextet stands for its letter in base64_chars, and Pad for "=".        *)
(*                                                                         *)
(* The definitions commented "Slip" are mutated forms of the definition    *)
(* that follows them.                                                      *)
(***************************************************************************)
EXTENDS Integers, Sequences, SequencesExt

CONSTANT IntBits     \* bits of an int, 32 in the code

ASSUME IntBitsAssumption == IntBits \in 14 .. 32

Pad == 64

-----------------------------------------------------------------------------
(* splitStr *)

\* Where delim begins in str at or behind the position from, as find says;
\* Len(str) + 1 stands for npos.
Find(str, delim, from) ==
  LET found == {i \in from .. Len(str) - Len(delim) + 1 :
                  SubSeq(str, i, i + Len(delim) - 1) = delim}
  IN  IF found = {} THEN Len(str) + 1
      ELSE Min(found)

\* Slip: the search goes on one byte behind the delimiter's first byte.
SplitStrOverlapping(str, delim) ==
  LET parts[prepos \in 1 .. Len(str) + Len(delim)] ==
        LET pos == Find(str, delim, prepos)
        IN  IF pos > Len(str)
            THEN IF prepos <= Len(str) THEN <<SubSeq(str, prepos, Len(str))>> ELSE <<>>
            ELSE <<SubSeq(str, prepos, pos - 1)>> \o parts[pos + 1]
  IN  parts[1]

\* The parts between the delimiters; behind the last delimiter a part is
\* listed only when it is not empty.
SplitStr(str, delim) ==
  LET parts[prepos \in 1 .. Len(str) + Len(delim)] ==
        LET pos == Find(str, delim, prepos)
        IN  IF pos > Len(str)
            THEN IF prepos <= Len(str) THEN <<SubSeq(str, prepos, Len(str))>> ELSE <<>>
            ELSE <<SubSeq(str, prepos, pos - 1)>> \o parts[pos + Len(delim)]
  IN  parts[1]

\* What the parts are to be: put together with the delimiter between them
\* they give the string, which may have had one more delimiter at its end,
\* and no part holds a delimiter.
IsSplit(parts, str, delim) ==
  LET joined == FlattenSeq([i \in DOMAIN parts |-> parts[i] \o delim])
  IN  /\ joined \in {str, str \o delim}
      /\ \A i \in DOMAIN parts : Find(parts[i], delim, 1) > Len(parts[i])
      /\ parts # <<>> => Last(parts) # <<>> \/ joined = str

-----------------------------------------------------------------------------
(* trim *)

\* Positions of a character, and of all others.
Positions(str, char) == {i \in DOMAIN str : str[i] = char}
Others(str, char) == DOMAIN str \ Positions(str, char)

\* Two erasures: up to the first other character, when there is one, and
\* behind the last other character, when the character occurs at all.
Trim(str, char) ==
  LET front == IF Others(str, char) = {} THEN str
               ELSE SubSeq(str, Min(Others(str, char)), Len(str))
      others == Others(front, char)
  IN  IF Positions(front, char) = {} THEN front
      ELSE SubSeq(front, 1, IF others = {} THEN 0 ELSE Max(others))

\* The string without the characters at its ends, and nothing else missing.
IsTrimmed(res, str, char) ==
  /\ res # <<>> => Head(res) # char /\ Last(res) # char
  /\ \E i \in 0 .. Len(str) : \E j \in i .. Len(str) :
       /\ res = SubSeq(str, i + 1, j)
       /\ \A k \in DOMAIN str \ (i + 1 .. j) : str[k] = char

-----------------------------------------------------------------------------
(* base64_encode *)

\* (val >> valb) & 0x3F: six bits of an int that has lost its upper ones.
Sextet(val, valb) == (val \div 2 ^ valb) % 64

\* The inner loop takes sextets as long as valb is not negative.
TakeSextets(s) ==
  LET n == (s.valb + 6) \div 6
  IN  [s EXCEPT !.valb = @ - 6 * n,
                !.result = @ \o [i \in 1 .. n |-> Sextet(s.val, s.valb - 6 * (i - 1))]]

\* One byte: val grows by eight bits and an int drops the ones that overflow.
AddByte(s, c) ==
  TakeSextets([s EXCEPT !.val = (256 * @ + c) % (2 ^ IntBits), !.valb = @ + 8])

\* Slip: the bits that are left over are not moved to the front of a sextet.
LastSextetUnshifted(s) ==
  IF s.valb > -6 THEN Append(s.result, Sextet(s.val, 0)) ELSE s.result

\* The bits that are left over, filled up with zeros.
LastSextet(s) ==
  IF s.valb > -6
  THEN Append(s.result, Sextet((256 * s.val) % (2 ^ IntBits), s.valb + 8))
  ELSE s.result

Base64Encode(bytes) ==
  LET state[i \in 0 .. Len(bytes)] ==
        IF i = 0 THEN [val |-> 0, valb |-> -6, result |-> <<>>]
        ELSE AddByte(state[i - 1], bytes[i])
      sextets == LastSextet(state[Len(bytes)])
  IN  sextets \o [i \in 1 .. (0 - Len(sextets)) % 4 |-> Pad]

\* RFC 4648: the k-th sextet is the k-th six bits of the bytes, four sextets
\* for every three bytes or part of them, padded where no bit is left.
Base64(bytes) ==
  LET byte(i) == IF i \in DOMAIN bytes THEN bytes[i] ELSE 0
      sextet(k) == LET q == (6 * k) \div 8
                       window == 256 * byte(q + 1) + byte(q + 2)
                   IN  (window \div 2 ^ (10 - ((6 * k) % 8))) % 64
  IN  [i \in 1 .. 4 * ((Len(bytes) + 2) \div 3) |->
         IF 6 * (i - 1) < 8 * Len(bytes) THEN sextet(i - 1) ELSE Pad]
=============================================================================
