----------------------------- MODULE GzippedConfig -----------------------------
(***************************************************************************)
(* ParseAndConvertGzippedConfig (pkg/controller/common/helpers.go) reads  *)
(* an Ignition config that may be raw JSON, gzipped JSON or base64 of     *)
(* gzipped JSON: it first tries base64 then gunzip (DecodeAndDecompress-  *)
(* Payload), on a base64 CorruptInputError tries gunzip alone, and on     *)
(* errConfigNotGzipped parses the original bytes.  decompressPayload      *)
(* peeks two bytes for the gzip magic.  Each attempt is one step; the    *)
(* parse of the bytes found is ParseGzippedConfig's.                       *)
(*                                                                         *)
(* Data abstraction: a byte string is a term: Text(d) is JSON text of     *)
(* document d (a record: see ParseGzippedConfig); Gzip(b) is a gzip      *)
(* stream of b, or a                                                       *)
(* truncated one; B64(b) is base64 text of b; Empty has no byte; Half-    *)
(* Magic starts with 0x1f and then not 0x8b.  Only base64 text passes     *)
(* the base64 decoder's first quantum: JSON starts with '{' and gzip      *)
(* with 0x1f, neither of them a base64 character.                          *)
(***************************************************************************)
EXTENDS Naturals

CONSTANTS
    Payloads,   \* the byte strings the function may be given
    Nil

Text(d)  == [kind |-> "text", body |-> d]
Gzip(b)  == [kind |-> "gzip", body |-> b]
B64(b)   == [kind |-> "b64", body |-> b]
Empty    == [kind |-> "empty", body |-> Nil]
HalfMagic == [kind |-> "halfmagic", body |-> Nil]
Truncated == [kind |-> "truncated", body |-> Nil]

\* The first two bytes of a string, as far as the magic check tells them
\* apart.
Byte0(t) == CASE t.kind \in {"gzip", "halfmagic"} -> 31   \* 0x1f
              [] OTHER -> 0
Byte1(t) == CASE t.kind = "gzip" -> 139                   \* 0x8b
              [] OTHER -> 0

VARIABLES
    rawIgn,   \* the input
    pc,       \* "decode", "gunzip", "parse", "done"
    err,      \* the error of the last attempt, or Nil
    out,      \* the bytes handed to ParseAndConvertConfig
    result    \* "config", "error" or Nil

vars == <<rawIgn, pc, err, out, result>>

-----------------------------------------------------------------------------
(* Defective variants, each a plausible slip in the code.                 *)

\* The fallback for errConfigNotGzipped parses the decoded bytes.
NotGzippedParsesDecoded(t) == IF t.kind = "b64" THEN t.body ELSE t
\* The gzip stream handed on without being read through the gzip reader.
decompressPayloadNoInflate(t) ==
    CASE t.kind = "empty" -> [out |-> Nil, err |-> "peek"]
      [] Byte0(t) # 31 /\ Byte1(t) # 139 -> [out |-> Nil, err |-> "notGzipped"]
      [] OTHER -> [out |-> t, err |-> Nil]

-----------------------------------------------------------------------------
(* Helpers translated from helpers.go.                                     *)

\* headerBytes[0] != 0x1f && headerBytes[1] != 0x8b
MagicAbsent(t) == Byte0(t) # 31 /\ Byte1(t) # 139

\* decompressPayload: [out, err].
decompressPayload(t) ==
    CASE t.kind = "empty"                       -> [out |-> Nil, err |-> "peek"]
      [] MagicAbsent(t)                         -> [out |-> Nil, err |-> "notGzipped"]
      [] t.kind # "gzip"                        -> [out |-> Nil, err |-> "gzipHeader"]
      [] t.body = Truncated                     -> [out |-> Nil, err |-> "inflate"]
      [] OTHER                                  -> [out |-> t.body, err |-> Nil]

\* DecodeAndDecompressPayload: decompressPayload behind a base64 decoder;
\* any string but base64 text fails the decoder's first read.
DecodeAndDecompressPayload(t) ==
    CASE t.kind = "b64"   -> decompressPayload(t.body)
      [] t.kind = "empty" -> [out |-> Nil, err |-> "peek"]
      [] OTHER            -> [out |-> Nil, err |-> "corruptInput"]

\* On errConfigNotGzipped the original bytes are parsed.
NotGzippedInput(t) == t

-----------------------------------------------------------------------------

CodecInit ==
    /\ rawIgn \in Payloads
    /\ pc = "decode"
    /\ err = Nil
    /\ out = Nil
    /\ result = Nil

Parse(t) == out' = t /\ pc' = "parse"
Fail == pc' = "done" /\ result' = "error" /\ UNCHANGED out

\* The first attempt: base64, then gunzip.
Decode ==
    /\ pc = "decode"
    /\ LET r == DecodeAndDecompressPayload(rawIgn) IN
         /\ err' = r.err
         /\ \/ r.err = Nil /\ Parse(r.out) /\ UNCHANGED result
            \/ r.err = "corruptInput" /\ pc' = "gunzip" /\ UNCHANGED <<out, result>>
            \/ r.err = "notGzipped" /\ Parse(NotGzippedInput(rawIgn)) /\ UNCHANGED result
            \/ r.err \notin {Nil, "corruptInput", "notGzipped"} /\ Fail
    /\ UNCHANGED rawIgn

\* Not base64: gunzip the raw bytes.
Gunzip ==
    /\ pc = "gunzip"
    /\ LET r == decompressPayload(rawIgn) IN
         /\ err' = r.err
         /\ \/ r.err = Nil /\ Parse(r.out) /\ UNCHANGED result
            \/ r.err = "notGzipped" /\ Parse(NotGzippedInput(rawIgn)) /\ UNCHANGED result
            \/ r.err \notin {Nil, "notGzipped"} /\ Fail
    /\ UNCHANGED rawIgn

=============================================================================
