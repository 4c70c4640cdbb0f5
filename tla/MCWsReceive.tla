----------------------------- MODULE MCWsReceive -----------------------------
(***************************************************************************)
(* WsReceive for TLC.  The length field grows at 4 bytes instead of 126    *)
(* and again at 6 instead of 65535, so that frames of a few bytes have     *)
(* each of the three headers.                                              *)
(***************************************************************************)
EXTENDS WsReceive, Bitwise

F(fin, opcode, payload) ==
  [fin |-> fin, opcode |-> opcode, mask |-> 0, key |-> <<>>, payload |-> payload]

\* Unfragmented texts of each short header, one with a NUL in it and one as the
\* clients encode it, pings that may fall between fragments, one of them
\* masked, and a fragmented text whose last part is empty.
ShortFrames == {
  F(1, WSOpcode_Text, <<65>>),
  F(1, WSOpcode_Text, <<66, 129, 0, 4>>),
  F(0, WSOpcode_Text, <<68, 69>>),
  F(1, WSOpcode_Continue, <<>>),
  F(1, WSOpcode_Ping, <<7>>),
  [fin |-> 1, opcode |-> WSOpcode_Text, mask |-> 1, key |-> <<5, 6, 7, 128>>,
   payload |-> <<66, 129, 67, 4, 200>>],
  [fin |-> 1, opcode |-> WSOpcode_Ping, mask |-> 1, key |-> <<1, 2, 4, 8>>,
   payload |-> <<9, 10, 200>>]}

\* A text whose length needs eight bytes, behind a short one.
LongFrames == {
  F(1, WSOpcode_Text, <<65>>),
  F(1, WSOpcode_Text, <<70, 71, 72, 73, 74, 75, 76>>)}

BitXor(a, b) == a ^^ b
=============================================================================
