-------------------------- MODULE MC_ConfigServer --------------------------
(***************************************************************************)
(* Requests for ConfigServer.  Converter table: 2.2 and 3.0 to 3.5.        *)
(* Requests to /healthz and to other paths vary only in their method.     *)
(* Accept entries carry versions that are normalised (2.4), supported      *)
(* (3.2), resolved downwards (3.9), v2 below 2.2 (2.1) or unparseable, and *)
(* q values that are unparseable, 0.5 or 1.0 (NaN only in QRequests).      *)
(***************************************************************************)
EXTENDS ConfigServer

MCSupported == {<<2, 2>>} \cup {<<3, m>> : m \in 0..5}

VersionExts == [key: {"version"}, val: {BadVersion, <<2, 4>>, <<3, 2>>, <<3, 9>>, <<2, 1>>}]
QExts(qs) == [key: {"q"}, val: qs]
OtherExt == [key |-> "charset", val |-> "utf-8"]

SeqsUpTo(S, n) == UNION {[1..j -> S] : j \in 0..n}

\* Entries with up to n extensions; an entry without "/" has none that matter.
Entries(exts, n) ==
    [mime: {IgnSubtype, OtherSubtype}, exts: SeqsUpTo(exts, n)]
    \cup {[mime |-> NotMime, exts |-> <<>>]}

Exts == VersionExts \cup QExts({BadQ, 5, 10}) \cup {OtherExt}

Get(accept, conf) ==
    [route |-> "config", method |-> "GET", pathEmpty |-> FALSE, accept |-> accept, conf |-> conf]

MCRequests ==
    {Get(a, <<3, 1>>) : a \in SeqsUpTo(Entries(Exts, 2), 2)}
    \cup {Get(a, <<3, 1>>) : a \in [1..3 -> Entries(Exts, 1)]}
    \cup [route: {"config"}, method: {"GET", "HEAD", "POST"}, pathEmpty: BOOLEAN,
          accept: SeqsUpTo(Entries(Exts, 1), 1),
          conf: {ConfErr, ConfNone, ConfInvalid, <<2, 2>>, <<3, 1>>, <<3, 5>>}]
    \cup [route: {"healthz", "default"}, method: {"GET", "HEAD", "POST"},
          pathEmpty: {FALSE}, accept: {<<>>}, conf: {ConfNone}]

\* Three entries: Ignition entries with a version and q 0.5 or 1.0, and
\* other entries, e.g. "*/*;q=NaN", whose q may be NaN.
QEntries ==
    {[mime |-> IgnSubtype, exts |-> x] :
        x \in {<<v>> : v \in VersionExts} \cup {<<v, q>> : v \in VersionExts, q \in QExts({5})}}
    \cup {[mime |-> OtherSubtype, exts |-> x] : x \in {<<>>} \cup {<<q>> : q \in QExts({NaN})}}
QRequests == {Get(a, <<3, 1>>) : a \in [1..3 -> QEntries]}

=============================================================================
