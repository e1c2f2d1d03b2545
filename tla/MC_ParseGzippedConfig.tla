----------------------- MODULE MC_ParseGzippedConfig -----------------------
(***************************************************************************)
(* Payloads for ParseGzippedConfig: a v3 document, a document of neither  *)
(* version, no bytes, a string starting with only the first gzip magic    *)
(* byte, a truncated gzip stream and two v2 documents (one with a non-    *)
(* core user), each under every layering of gzip and base64 up to depth   *)
(* two; and v2 inputs of up to three files or two units (as in MC_Remove-*)
(* IgnDuplicates, less its third unit) in the three accepted encodings.  *)
(***************************************************************************)
EXTENDS ParseGzippedConfig

SeqsUpTo(S, n) == UNION {[1..k -> S] : k \in 0..n}

V2Files == [path: {"/etc/a", "/etc/b"}, contents: {"c1", "c2"}]
Dropin(n, c) == [name |-> n, contents |-> c]
DropinLists ==
    {<<>>, <<Dropin("d1", "x")>>, <<Dropin("d1", "y")>>, <<Dropin("d2", "x")>>,
     <<Dropin("d1", "x"), Dropin("d2", "x")>>}
V2Units == [name: {"u1", "u2"}, dropins: DropinLists]
V2Users == [name: {"core", "other"}, keys: SeqsUpTo({"k1", "k2"}, 2)]

MCV2Inputs ==
    [files: SeqsUpTo(V2Files, 3), units: SeqsUpTo(V2Units, 2), users: {<<>>}]
    \cup [files: SeqsUpTo(V2Files, 1), units: {<<>>}, users: SeqsUpTo(V2Users, 2)]

CoreOnly == [files |-> <<>>, units |-> <<>>,
             users |-> <<[name |-> "core", keys |-> <<"k1">>]>>]
OtherUser == [files |-> <<>>, units |-> <<>>,
              users |-> <<[name |-> "other", keys |-> <<>>]>>]

Leaves == {Text(V3Doc), Text(BadDoc), Text(V2Doc(CoreOnly)), Text(V2Doc(OtherUser)),
           Empty, HalfMagic, Gzip(Truncated)}
Layer(S) == S \cup {Gzip(t) : t \in S} \cup {B64(t) : t \in S}

V2Texts == {Text(V2Doc(c)) : c \in MCV2Inputs}
MCPayloads ==
    Layer(Layer(Leaves)) \cup V2Texts \cup {Gzip(t) : t \in V2Texts}
      \cup {B64(Gzip(t)) : t \in V2Texts}

=============================================================================
