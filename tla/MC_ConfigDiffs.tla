--------------------------- MODULE MC_ConfigDiffs ---------------------------
(***************************************************************************)
(* Inputs for ConfigDiffs: configs of up to two files over the paths /a,  *)
(* /a/b and /ab with two modes, or up to two units over two names with    *)
(* enabled set or not; policy lists of up to two policies over /a, /a/b,  *)
(* /ab and /b with one of two actions (equal paths included).             *)
(***************************************************************************)
EXTENDS ConfigDiffs

PathA   == <<"/", "a">>
PathAB  == <<"/", "a", "/", "b">>
PathAb  == <<"/", "a", "b">>
PathB   == <<"/", "b">>

\* Sequences of up to n elements of S with pairwise distinct F.
DistinctSeqs(S, n, F(_)) ==
    {s \in UNION {[1..k -> S] : k \in 0..n} :
       \A j, k \in DOMAIN s : j # k => F(s[j]) # F(s[k])}

Files == [path: {PathA, PathAB, PathAb}, mode: {420, 493}, contents: {"c1"}]
Units == [name: {"u1", "u2"}, enabled: BOOLEAN]
Policies == [path: {PathA, PathAB, PathAb, PathB}, actions: {<<"Reboot">>, <<"None">>}]

MCFileConfigs == DistinctSeqs(Files, 2, LAMBDA f : f.path)
MCUnitConfigs == DistinctSeqs(Units, 2, LAMBDA u : u.name)
MCPolicyLists == UNION {[1..k -> Policies] : k \in 0..2}

=============================================================================
