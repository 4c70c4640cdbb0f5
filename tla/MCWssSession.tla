---------------------------- MODULE MCWssSession ----------------------------
(* WssSession for TLC: a response of two or of four pieces where the buffer *)
(* for it takes three, frames of two or of three pieces where the buffer    *)
(* takes two, and records of up to four, so that a record may end inside a  *)
(* message, hold the end of one and the beginning of the next, or be longer *)
(* than the buffer that it is read into.                                    *)
EXTENDS WssSession
=============================================================================
