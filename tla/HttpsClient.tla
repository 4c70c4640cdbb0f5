----------------------------- MODULE HttpsClient -----------------------------
(***************************************************************************)
(* main of src/src/net/https_client.cpp: one request with libcurl, whose   *)
(* callback collects the header of the answer, and the splitting of the    *)
(* header into the fields that are shown.                                  *)
(*                                                                         *)
(* The configuration, the server and libcurl are external: libcurl calls   *)
(* headerCallback with the next bytes of the header.  The body, which is   *)
(* only printed, is left out.                                              *)
(***************************************************************************)
EXTENDS TextHelpers

CONSTANTS
  HeaderBytes,      \* the bytes a header may be made of
  MaxHeader         \* bound: bytes of the header

CRLF == <<13, 10>>
ColonSpace == <<58, 32>>

ASSUME HeaderBytesAssumption == HeaderBytes \subseteq 0 .. 255
ASSUME MaxHeaderAssumption == MaxHeader \in Nat

VARIABLES
  https_pc,        \* where main is
  resolve_list,    \* the list with the resolve entry was made and not freed
  headerData,      \* the header so far
  shown            \* the fields that were shown

httpsVars == <<https_pc, resolve_list, headerData, shown>>

HttpsTypeOK ==
  /\ https_pc \in {"config", "init", "options", "perform", "show", "cleanup",
                   "returned_0", "returned_1"}
  /\ resolve_list \in BOOLEAN
  /\ headerData \in Seq(HeaderBytes)
  /\ shown \in Seq(Seq(Seq(HeaderBytes)))

HttpsInit ==
  /\ https_pc = "config"
  /\ resolve_list = FALSE
  /\ headerData = <<>>
  /\ shown = <<>>

\* A missing argument returns 0, an unreadable configuration 1.
LoadConfig ==
  /\ https_pc = "config"
  /\ https_pc' \in {"init", "returned_0", "returned_1"}
  /\ UNCHANGED <<resolve_list, headerData, shown>>

\* Without a curl handle main has nothing to do.
EasyInit ==
  /\ https_pc = "init"
  /\ https_pc' \in {"options", "returned_0"}
  /\ UNCHANGED <<resolve_list, headerData, shown>>

\* The list is made when the configuration names a remote address.
SetOptions ==
  /\ https_pc = "options"
  /\ https_pc' = "perform"
  /\ resolve_list' \in BOOLEAN
  /\ UNCHANGED <<headerData, shown>>

HeaderCallback(b) ==
  /\ https_pc = "perform"
  /\ Len(headerData) < MaxHeader
  /\ headerData' = Append(headerData, b)
  /\ UNCHANGED <<https_pc, resolve_list, shown>>

PerformReturns ==
  /\ https_pc = "perform"
  /\ https_pc' \in {"show", "cleanup"}
  /\ UNCHANGED <<resolve_list, headerData, shown>>

\* The lines that fall into two parts at ": ".
Fields(header) ==
  LET lines == SplitStr(header, CRLF)
      field(kv) == IF Len(kv) = 2 THEN <<kv>> ELSE <<>>
  IN  FlattenSeq([i \in DOMAIN lines |-> field(SplitStr(lines[i], ColonSpace))])

Show ==
  /\ https_pc = "show"
  /\ shown' = Fields(headerData)
  /\ https_pc' = "cleanup"
  /\ UNCHANGED <<resolve_list, headerData>>

CleanUpCurl ==
  /\ https_pc = "cleanup"
  /\ https_pc' = "returned_0"
  /\ resolve_list' = FALSE
  /\ UNCHANGED <<headerData, shown>>

HttpsNext ==
  \/ LoadConfig
  \/ EasyInit
  \/ SetOptions
  \/ \E b \in HeaderBytes : HeaderCallback(b)
  \/ PerformReturns
  \/ Show
  \/ CleanUpCurl

HttpsSpec == HttpsInit /\ [][HttpsNext]_httpsVars

-----------------------------------------------------------------------------
(* Properties *)

\* Whatever arrives in the header, splitStr cuts it at every delimiter and
\* only there, loses nothing but an empty part at the end, and trim takes
\* characters from the ends only.
TextHelpersAgree ==
  /\ \A delim \in {CRLF, ColonSpace} :
       IsSplit(SplitStr(headerData, delim), headerData, delim)
  /\ \A char \in HeaderBytes : IsTrimmed(Trim(headerData, char), headerData, char)

\* base64_encode agrees with RFC 4648 on every string of bytes, although its
\* int overflows behind the second byte, or the fourth in the code.
Base64Agrees == Base64Encode(headerData) = Base64(headerData)
=============================================================================
