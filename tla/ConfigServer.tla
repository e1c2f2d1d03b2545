---------------------------- MODULE ConfigServer ----------------------------
(***************************************************************************)
(* The Machine Config Server's request handling (pkg/server/api.go): the  *)
(* mux NewAPIServer builds sends /config/ paths to APIHandler.ServeHTTP,  *)
(* /healthz to healthHandler and every other path to defaultHandler.      *)
(* APIHandler.ServeHTTP negotiates the                                     *)
(* Ignition spec version from the Accept header (parseAcceptHeader,       *)
(* detectSpecVersionFromAcceptHeader), fetches the pool's config and      *)
(* converts it to that version.  Each request is handled on its own with  *)
(* no shared mutable state, so one request is modelled; every loop        *)
(* iteration of the parse and of the selection is one step.               *)
(*                                                                         *)
(* Data abstraction: a request's path is the mux pattern it matched      *)
(* (route) and whether it is empty; an Accept entry is its MIME class (no "/", the       *)
(* Ignition subtype, any other subtype) and its "key=value" extensions;   *)
(* a version is <<major, minor>> (patch 0) or BadVersion when semver      *)
(* does not parse it; a q is a number of tenths, BadQ when ParseFloat     *)
(* fails, or NaN, which ParseFloat accepts.  The pool's config is         *)
(* ConfErr, ConfNone, ConfInvalid (bytes IgnParseWrapper rejects) or the  *)
(* lowest spec version that can express it.                               *)
(***************************************************************************)
EXTENDS Naturals, Sequences, SequencesExt, FiniteSets

CONSTANTS
    Requests,     \* the requests the handler may receive
    Supported,    \* the converter's supported minor versions
    NaN, BadQ, BadVersion, NotMime, IgnSubtype, OtherSubtype,
    ConfErr, ConfNone, ConfInvalid,
    Nil

V22 == <<2, 2>>
QOne == 10                     \* q defaults to 1.0

VARIABLES
    req,      \* the request: route, method, pathEmpty, accept entries, conf
    pc,       \* "method", "parse", "select", "fetch" or "sent"
    k,        \* loop index of the parse or of the selection
    header,   \* parsed entries [subtype, v, q]
    version,  \* the negotiated version, or Nil
    resp      \* [status, served version (sizes Content-Length), body written] or Nil

vars == <<req, pc, k, header, version, resp>>

-----------------------------------------------------------------------------
(* Defective variants, each a plausible slip in the code.                 *)

\* The sort comparison written as >=: equal q values trade places.
QGreaterOrEqual(a, b) == a # NaN /\ b # NaN /\ a >= b
\* The requested version returned as is when some lower minor is supported.
GetSupportedMinorVersionUnresolved(v) ==
    IF \E s \in Supported : s[1] = v[1] /\ s[2] <= v[2] THEN v ELSE Nil
\* Conversion assumed to succeed whatever the target.
ConvertsAlways(conf, target) == TRUE

-----------------------------------------------------------------------------
(* Helpers translated from api.go.                                        *)

\* The patterns NewAPIServer registers on its mux: "/config/", "/healthz"
\* and "/", the handler a request reaches.
Routes == {"config", "healthz", "default"}

\* *header[i].QValue > *header[j].QValue on float32: false when either is NaN.
QGreater(a, b) == a # NaN /\ b # NaN /\ a > b

\* One extension of an entry: the first valid version and the first valid
\* q are kept; invalid values and other keys are skipped.
ParseExt(acc, ext) ==
    CASE ext.key = "version" /\ acc.v = Nil /\ ext.val # BadVersion -> [acc EXCEPT !.v = ext.val]
      [] ext.key = "q" /\ acc.q = Nil /\ ext.val # BadQ -> [acc EXCEPT !.q = ext.val]
      [] OTHER -> acc

ParseValue(e) ==
    LET acc == FoldLeft(ParseExt, [v |-> Nil, q |-> Nil], e.exts)
    IN  [subtype |-> e.mime, v |-> acc.v,
         q |-> IF acc.q = Nil THEN QOne ELSE acc.q]

\* sort.SliceStable on fewer than 20 elements: Go's insertion sort, which
\* moves element j left while less(j, j-1).
RECURSIVE SinkLeft(_, _)
SinkLeft(s, j) ==
    IF j > 1 /\ QGreater(s[j].q, s[j - 1].q)
    THEN SinkLeft([s EXCEPT ![j] = s[j - 1], ![j - 1] = s[j]], j - 1)
    ELSE s
SliceStableByQ(s) ==
    FoldLeft(LAMBDA acc, i : SinkLeft(acc, i), s, [n \in 1..(Len(s) - 1) |-> n + 1])

\* A v2 version at or above 2.2.0 is handled as 2.2.0.
NormalizeV2(v) == IF v[1] = 2 /\ v[2] >= 2 THEN V22 ELSE v

\* GetSupportedMinorVersion: the highest supported minor at or below v in
\* v's major, or Nil when there is none.
VLeq(a, b) == a[1] < b[1] \/ (a[1] = b[1] /\ a[2] <= b[2])
GetSupportedMinorVersion(v) ==
    LET c == {s \in Supported : s[1] = v[1] /\ VLeq(s, v)}
    IN  IF c = {} THEN Nil ELSE CHOOSE s \in c : \A t \in c : VLeq(t, s)

\* ConvertRawExtIgnitionToV3_5: IgnParseWrapper's error, or the config
\* re-marshalled at 3.5, which needs the same lowest version as before.
ConvertRawExtIgnitionToV3_5(conf) == IF conf = ConfInvalid THEN ConfErr ELSE conf

\* ConvertRawExtIgnitionToVersion succeeds when the 3.5 step succeeds and
\* the target version can express the config.
Converts(conf, target) ==
    LET c == ConvertRawExtIgnitionToV3_5(conf) IN c # ConfErr /\ VLeq(c, target)

-----------------------------------------------------------------------------

Init ==
    /\ req \in Requests
    /\ pc = "method"
    /\ k = 1
    /\ header = <<>>
    /\ version = Nil
    /\ resp = Nil

Reply(status) ==
    /\ resp' = [status |-> status, served |-> Nil, body |-> FALSE]
    /\ pc' = "sent"

\* healthHandler.ServeHTTP: 200 for GET and HEAD, else 405; no body.
healthHandler ==
    /\ pc = "method"
    /\ req.route = "healthz"
    /\ Reply(IF req.method \in {"GET", "HEAD"} THEN 200 ELSE 405)
    /\ UNCHANGED <<req, k, header, version>>

\* defaultHandler.ServeHTTP: 404 for GET and HEAD, else 405; no body.
defaultHandler ==
    /\ pc = "method"
    /\ req.route = "default"
    /\ Reply(IF req.method \in {"GET", "HEAD"} THEN 404 ELSE 405)
    /\ UNCHANGED <<req, k, header, version>>

\* APIHandler.ServeHTTP: method and path checks.
CheckRequest ==
    /\ pc = "method"
    /\ req.route = "config"
    /\ \/ req.method \notin {"GET", "HEAD"} /\ Reply(405)
       \/ req.method \in {"GET", "HEAD"} /\ req.pathEmpty /\ Reply(400)
       \/ /\ req.method \in {"GET", "HEAD"} /\ ~req.pathEmpty
          /\ pc' = "parse"
          /\ UNCHANGED resp
    /\ UNCHANGED <<req, k, header, version>>

\* One iteration of parseAcceptHeader's loop; entries without "/" are skipped.
ParseEntry ==
    /\ pc = "parse"
    /\ k <= Len(req.accept)
    /\ header' = IF req.accept[k].mime = NotMime THEN header
                 ELSE Append(header, ParseValue(req.accept[k]))
    /\ k' = k + 1
    /\ UNCHANGED <<req, pc, version, resp>>

\* End of the parse: no valid entry means 2.2.0; otherwise the stable sort.
SortHeader ==
    /\ pc = "parse"
    /\ k > Len(req.accept)
    /\ \/ header = <<>> /\ version' = V22 /\ pc' = "fetch"
                        /\ UNCHANGED header
       \/ header # <<>> /\ header' = SliceStableByQ(header) /\ pc' = "select"
                        /\ UNCHANGED version
    /\ k' = 1
    /\ UNCHANGED <<req, resp>>

\* One iteration of the selection loop over the sorted entries.
SelectEntry ==
    /\ pc = "select"
    /\ k <= Len(header)
    /\ LET h == header[k] IN
         \/ /\ (h.subtype # IgnSubtype \/ h.v = Nil)
            /\ k' = k + 1
            /\ UNCHANGED <<pc, version, resp>>
         \/ /\ h.subtype = IgnSubtype /\ h.v # Nil
            /\ LET s == GetSupportedMinorVersion(NormalizeV2(h.v)) IN
                 IF s = Nil THEN Reply(400) /\ UNCHANGED version
                 ELSE version' = s /\ pc' = "fetch" /\ UNCHANGED resp
            /\ UNCHANGED k
    /\ UNCHANGED <<req, header>>

\* No versioned Ignition entry: 2.2.0.
SelectDefault ==
    /\ pc = "select"
    /\ k > Len(header)
    /\ version' = V22
    /\ pc' = "fetch"
    /\ UNCHANGED <<req, k, header, resp>>

\* GetConfig, the conversion and the reply.
FetchAndServe ==
    /\ pc = "fetch"
    /\ \/ req.conf = ConfErr /\ Reply(500)
       \/ req.conf = ConfNone /\ Reply(404)
       \/ /\ req.conf \notin {ConfErr, ConfNone}
          /\ ~Converts(req.conf, version)
          /\ Reply(500)
       \/ /\ req.conf \notin {ConfErr, ConfNone}
          /\ Converts(req.conf, version)
          /\ resp' = [status |-> 200, served |-> version,
                      body |-> req.method = "GET"]
          /\ pc' = "sent"
    /\ UNCHANGED <<req, k, header, version>>

Done ==
    /\ pc = "sent"
    /\ UNCHANGED vars

Next ==
    \/ healthHandler \/ defaultHandler
    \/ CheckRequest \/ ParseEntry \/ SortHeader \/ SelectEntry
    \/ SelectDefault \/ FetchAndServe \/ Done

Spec == Init /\ [][Next]_vars

-----------------------------------------------------------------------------
(* Properties.                                                             *)

Versions == Supported \cup {V22}

TypeOK ==
    /\ pc \in {"method", "parse", "select", "fetch", "sent"}
    /\ k \in 1..(Len(req.accept) + 1)
    /\ Len(header) <= Len(req.accept)
    /\ req.route \in Routes
    /\ version \in Versions \cup {Nil}
    /\ resp = Nil \/ resp.status \in {200, 400, 404, 405, 500}

(* The spec's negotiation (section 4.8), stated over the raw request:     *)
(* among the entries with a "/" whose subtype is Ignition's and which     *)
(* carry a valid version, the first one with the highest q; its first     *)
(* valid version, a v2 at or above 2.2.0 read as 2.2.0, resolved to the   *)
(* nearest supported minor; 2.2.0 when there is no such entry.            *)
FirstValid(e, key, bad) ==
    LET I == {j \in DOMAIN e.exts : e.exts[j].key = key /\ e.exts[j].val # bad}
    IN  IF I = {} THEN Nil ELSE e.exts[Min(I)].val
RefQ(e) == LET q == FirstValid(e, "q", BadQ) IN IF q = Nil THEN QOne ELSE q
Candidates ==
    {i \in DOMAIN req.accept :
        req.accept[i].mime = IgnSubtype /\ FirstValid(req.accept[i], "version", BadVersion) # Nil}
RefEntry ==
    CHOOSE i \in Candidates :
        \A j \in Candidates : RefQ(req.accept[j]) < RefQ(req.accept[i])
                             \/ (RefQ(req.accept[j]) = RefQ(req.accept[i]) /\ i <= j)
RefVersion ==
    IF Candidates = {} THEN V22
    ELSE LET v == FirstValid(req.accept[RefEntry], "version", BadVersion)
         IN  GetSupportedMinorVersion(IF v[1] = 2 /\ V22[2] <= v[2] THEN V22 ELSE v)

\* With numeric q values, the version the handler negotiates (or its 400
\* for an unsupported one) is the spec's choice: the q sort must be stable
\* and descending, the first valid version of an entry must be used, and
\* v2 requests must be normalised before the minor lookup.
NegotiationMatchesSpec ==
    pc = "fetch" => version = RefVersion

\* The reply follows the spec's routes (section 6): /healthz answers 200
\* and any path outside /config/ 404 to GET and HEAD, and any other method
\* gets 405.  On /config/ it reflects the checks in ServeHTTP's order: 405
\* for a method other than GET/HEAD, 400 for an empty path or unsupported
\* version,
\* 500 when GetConfig fails, the stored config does not parse or it cannot
\* be expressed at the negotiated version, 404 when there is no config, and otherwise 200
\* with the config at the negotiated version, its body written for GET
\* only.
ResponseFollowsChecks ==
    pc = "sent" =>
      resp = CASE req.method \notin {"GET", "HEAD"}
                    -> [status |-> 405, served |-> Nil, body |-> FALSE]
               [] req.route = "healthz"
                    -> [status |-> 200, served |-> Nil, body |-> FALSE]
               [] req.route = "default"
                    -> [status |-> 404, served |-> Nil, body |-> FALSE]
               [] req.pathEmpty \/ RefVersion = Nil
                    -> [status |-> 400, served |-> Nil, body |-> FALSE]
               [] req.conf \in {ConfErr, ConfInvalid} \/ (req.conf # ConfNone /\ ~VLeq(req.conf, RefVersion))
                    -> [status |-> 500, served |-> Nil, body |-> FALSE]
               [] req.conf = ConfNone
                    -> [status |-> 404, served |-> Nil, body |-> FALSE]
               [] OTHER
                    -> [status |-> 200, served |-> RefVersion, body |-> req.method = "GET"]

\* An Accept entry can only raise its own precedence: the version comes
\* from a versioned Ignition entry whose q no other versioned Ignition
\* entry with a numeric q exceeds, whatever the other entries say.
QPrecedence ==
    (pc \in {"fetch", "sent"} /\ k <= Len(header)) =>
      \A i \in DOMAIN header :
        (header[i].subtype = IgnSubtype /\ header[i].v # Nil /\ header[i].q # NaN)
          => (header[k].q # NaN /\ header[i].q <= header[k].q)

=============================================================================
