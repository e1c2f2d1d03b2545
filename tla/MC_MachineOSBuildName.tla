----------------------- MODULE MC_MachineOSBuildName -----------------------
(***************************************************************************)
(* Options for MachineOSBuildName: a worker pool's MachineOSConfig whose   *)
(* multisource fields are set or empty, an OSImageURLConfig whose fields  *)
(* are set or empty, two rendered configurations; plus one option set per *)
(* failure (a missing object, a pool name mismatch, an unparseable        *)
(* pushspec) and MachineOSConfig names of 95 and 96 characters, the       *)
(* longest that fits an image tag and the shortest that does not.  The    *)
(* options of the FromAPI constructors have no OSImageURLConfig yet; the  *)
(* server holds one of two configs differing in the release, or none.     *)
(***************************************************************************)
EXTENDS MachineOSBuildName

Specs(valid) == [pool: {"worker"}, base: {"", "quay.io/os:1"}, ext: {"", "quay.io/ext:1"},
                 release: {"", "4.17"}, pushspecValid: {valid}]
OSImageURLConfigs == [base: {"", "quay.io/os:1"}, ext: {"", "quay.io/ext:1"},
                      release: {"", "4.17"}]
Pool(n, c) == [name |-> n, configuration |-> c]
Mosc(len, spec) == [name |-> "layered", nameLen |-> len, spec |-> spec]

AnySpec == CHOOSE s \in Specs(TRUE) : TRUE
AnyOSI == CHOOSE c \in OSImageURLConfigs : TRUE
Opt(m, p, c) == [mosc |-> m, pool |-> p, osImageURLConfig |-> c]

MCOpts ==
    {Opt(Mosc(7, s), Pool("worker", r), c) :
        s \in Specs(TRUE), r \in {"rendered-worker-1", "rendered-worker-2"},
        c \in OSImageURLConfigs \cup {Nil}}
    \cup {Opt(Nil, Pool("worker", "rendered-worker-1"), AnyOSI),
          Opt(Mosc(7, AnySpec), Nil, AnyOSI),
          Opt(Mosc(7, AnySpec), Pool("infra", "rendered-infra-1"), AnyOSI),
          Opt(Mosc(7, AnySpec), Pool("worker", "rendered-worker-1"), Nil),
          Opt(Mosc(7, CHOOSE s \in Specs(FALSE) : TRUE), Pool("worker", "rendered-worker-1"), AnyOSI),
          Opt(Mosc(95, AnySpec), Pool("worker", "rendered-worker-1"), AnyOSI),
          Opt(Mosc(96, AnySpec), Pool("worker", "rendered-worker-1"), AnyOSI)}

MCClusterConfigs ==
    {[base |-> "quay.io/os:1", ext |-> "quay.io/ext:1", release |-> r] : r \in {"4.17", "4.18"}}
    \cup {Nil}

=============================================================================
