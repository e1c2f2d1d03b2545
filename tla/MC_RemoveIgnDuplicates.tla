---------------------- MODULE MC_RemoveIgnDuplicates ----------------------
(***************************************************************************)
(* Inputs for RemoveIgnDuplicates: v2 configs with up to three files over *)
(* two paths and up to three units over two names whose drop-ins share   *)
(* names with different contents (no users), and configs with up to two   *)
(* users of up to two keys each.                                          *)
(***************************************************************************)
EXTENDS RemoveIgnDuplicates

SeqsUpTo(S, n) == UNION {[1..k -> S] : k \in 0..n}

V2Files == [path: {"/etc/a", "/etc/b"}, contents: {"c1", "c2"}]
Dropin(n, c) == [name |-> n, contents |-> c]
DropinLists ==
    {<<>>, <<Dropin("d1", "x")>>, <<Dropin("d1", "y")>>, <<Dropin("d2", "x")>>,
     <<Dropin("d1", "x"), Dropin("d2", "x")>>}
V2Units == [name: {"u1", "u2"}, dropins: DropinLists]
V2Users == [name: {"core", "other"}, keys: SeqsUpTo({"k1", "k2"}, 2)]

MCInputs ==
    [files: SeqsUpTo(V2Files, 3), units: SeqsUpTo(V2Units, 3), users: {<<>>}]
    \cup [files: SeqsUpTo(V2Files, 1), units: {<<>>}, users: SeqsUpTo(V2Users, 2)]

=============================================================================
