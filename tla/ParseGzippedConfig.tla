------------------------ MODULE ParseGzippedConfig ------------------------
(***************************************************************************)
(* The whole read path of a stored Ignition config: ParseAndConvert-      *)
(* GzippedConfig (GzippedConfig) finds the JSON bytes, ParseAndConvert-   *)
(* Config (helpers.go 555-577) parses them with IgnParseWrapper and, for  *)
(* a spec v2 config, runs removeIgnDuplicateFilesUnitsUsers (RemoveIgn-   *)
(* Duplicates, instantiated here as N) before converting it to v3.        *)
(*                                                                         *)
(* A document is a record: V3Doc parses as spec v3, V2Doc(c) as spec v2   *)
(* with files, units and users c, BadDoc as neither.  The v2 -> v3        *)
(* translation of a normalised config is taken to succeed: it is the      *)
(* vendored ignition-config-transpiler, not under src/.                   *)
(***************************************************************************)
EXTENDS GzippedConfig, SequencesExt

CONSTANTS
    V2Inputs   \* the v2 configs a V2Doc may carry

VARIABLES
    v2in, nphase, ni, nFiles, nUnits, nseen, nUser, nresult  \* the normaliser's

nvars == <<v2in, nphase, ni, nFiles, nUnits, nseen, nUser, nresult>>
allvars == <<vars, nvars>>

N == INSTANCE RemoveIgnDuplicates
       WITH in <- v2in, phase <- nphase, i <- ni, outFiles <- nFiles,
            outUnits <- nUnits, seen <- nseen, outUser <- nUser,
            result <- nresult, Inputs <- V2Inputs

V3Doc == [spec |-> 3]
BadDoc == [spec |-> 0]
V2Doc(c) == [spec |-> 2, config |-> c]
EmptyV2 == [files |-> <<>>, units |-> <<>>, users |-> <<>>]

\* IgnParseWrapper: v3 first (ParseCompatibleVersion), then v2 on
\* ErrUnknownVersion; anything else is an error.
IgnParseWrapper(t) ==
    IF t.kind = "text" /\ t.body.spec \in {2, 3} THEN t.body.spec ELSE 0

Init ==
    /\ CodecInit
    /\ v2in = EmptyV2 /\ nphase = "idle" /\ ni = 0 /\ nFiles = <<>>
    /\ nUnits = <<>> /\ nseen = {} /\ nUser = Nil /\ nresult = Nil

Codec == (Decode \/ Gunzip) /\ UNCHANGED nvars

\* The normaliser is called with config c: the state N!Init sets up.
removeIgnDuplicateFilesUnitsUsers(c) ==
    /\ v2in' = c /\ nphase' = "files" /\ ni' = Len(c.files)
    /\ nFiles' = <<>> /\ nUnits' = <<>> /\ nseen' = {} /\ nUser' = Nil
    /\ nresult' = Nil

\* ParseAndConvertConfig on the bytes found: a v3 config is returned, a v2
\* config goes to the normaliser, anything else is an error.
ParseStep ==
    /\ pc = "parse"
    /\ \/ IgnParseWrapper(out) = 3 /\ result' = "config" /\ pc' = "done"
          /\ UNCHANGED nvars
       \/ IgnParseWrapper(out) = 2 /\ pc' = "normalize" /\ UNCHANGED result
          /\ removeIgnDuplicateFilesUnitsUsers(out.body.config)
       \/ IgnParseWrapper(out) = 0 /\ result' = "error" /\ pc' = "done"
          /\ UNCHANGED nvars
    /\ UNCHANGED <<rawIgn, err, out>>

\* One step of removeIgnDuplicateFilesUnitsUsers.
Normalize ==
    /\ pc = "normalize"
    /\ \/ N!FileStep \/ N!FilesDone \/ N!UnitStep \/ N!UnitsDone
       \/ N!UsersNone \/ N!UserStart \/ N!UserStep \/ N!UserFinish
    /\ UNCHANGED vars

\* The normaliser returned: its error is returned, or its config converted.
Converted ==
    /\ pc = "normalize"
    /\ nphase \in {"done", "error"}
    /\ result' = IF nphase = "done" THEN "config" ELSE "error"
    /\ pc' = "done"
    /\ UNCHANGED <<rawIgn, err, out, nvars>>

\* ParseAndConvertGzippedConfig has returned.
Returned ==
    /\ pc = "done"
    /\ UNCHANGED allvars

Next == Codec \/ ParseStep \/ Normalize \/ Converted \/ Returned

Spec == Init /\ [][Next]_allvars

-----------------------------------------------------------------------------
(* Properties.                                                             *)

RECURSIVE Leaf(_)
Leaf(t) == IF t.kind \in {"gzip", "b64"} THEN Leaf(t.body) ELSE t

\* The three encodings the function's comment promises to read.
Encodings(d) == {Text(d), Gzip(Text(d)), B64(Gzip(Text(d)))}

\* What the spec says is a readable document: a v3 config, or a v2 config
\* whose users are all "core" (the only user v3 conversion allows).
Readable(d) ==
    \/ d = V3Doc
    \/ d.spec = 2 /\ \A j \in DOMAIN d.config.users : d.config.users[j].name = "core"

TypeOK ==
    /\ pc \in {"decode", "gunzip", "parse", "normalize", "done"}
    /\ err \in {Nil, "corruptInput", "notGzipped", "peek", "gzipHeader", "inflate"}
    /\ result \in {Nil, "config", "error"}
    \* What is handed to the parser is the input with at most its outer
    \* encodings removed: a successful decode never loses the gzip layer.
    /\ (pc \in {"parse", "normalize", "done"} /\ err = Nil)
          => Gzip(out) \in {rawIgn, rawIgn.body}
    /\ nphase # "idle" => N!TypeOK /\ pc \in {"normalize", "done"}

\* A config is returned exactly when the input is raw, gzipped or base64 of
\* gzipped JSON of a readable document: the decode fallbacks of
\* ParseAndConvertGzippedConfig and the v2 normaliser together accept
\* exactly those, whatever the layering.
DecodesTheThreeEncodings ==
    pc = "done" =>
      (result = "config" <=>
         /\ Leaf(rawIgn).kind = "text"
         /\ Readable(Leaf(rawIgn).body)
         /\ rawIgn \in Encodings(Leaf(rawIgn).body))

\* The normaliser's own guarantees, on the configs it is reached with.
FilesLastWins == N!FilesLastWins
DropinsMerged == N!DropinsMerged
UsersMerged == N!UsersMerged

=============================================================================
