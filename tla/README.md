# TLA+ models of the machine-config-operator helpers

This directory holds TLA+ modules, TLC configurations and `PROJECT.json`.
They model the parts of `src/` that have control flow worth checking:

- the MachineConfig merge engine;
- the Ignition V2 normalizer;
- the managed-key migration;
- the gzipped-config codec, composed with the config parser and the normalizer;
- the config file/unit diffs and the node-disruption file policy match;
- the Machine Config Server's routes, Accept-header negotiation and conversion;
- MachineOSBuild naming, including the constructors that read the cluster's OSImageURLConfig;
- the kubelet bootstrap, with the TLS security profile it injects.

Every module is translated from the Go source. `PROJECT.json` `map` names the lines each definition stands for.

## Inventory: the system's parts and how they interact

| Part | Source | Module |
|---|---|---|
| Merge engine (`MergeMachineConfigs`, compression workaround) | `pkg/controller/common/helpers.go` 64-236 | `MergeMachineConfigs` |
| V2 normalizer (`removeIgnDuplicateFilesUnitsUsers`, `dedupePasswdUserSSHKeys`) | helpers.go 670-887 | `RemoveIgnDuplicates` |
| Managed key migration (`GetManagedKey`) | helpers.go 832-860 | `GetManagedKey`, abstract `ManagedKeyStore` |
| Gzipped config codec (`ParseAndConvertGzippedConfig`, `DecodeAndDecompressPayload`, `decompressPayload`) | helpers.go 583-659 | `GzippedConfig` |
| Config read path (`IgnParseWrapper`, `ParseAndConvertConfig` composed with the codec and the normalizer) | helpers.go 521-611 | `ParseGzippedConfig` |
| Diffs and policy match (`CalculateConfigFileDiffs`, `CalculateConfigUnitDiffs`, `IsSubdirectory`, `FindClosestFilePolicyPathMatch`) | helpers.go 893-959, 1128-1157 | `ConfigDiffs` |
| Config server (mux routes, `healthHandler`, `defaultHandler`, `ServeHTTP`, `parseAcceptHeader`, `detectSpecVersionFromAcceptHeader`) | `pkg/server/api.go` 48-62, 111-331 | `ConfigServer` |
| Config conversion (`ConvertRawExtIgnitionToV3_5`, `ConvertRawExtIgnitionToVersion`) | helpers.go 293-337 | `ConfigServer` |
| MachineOSBuild naming and constructors (`NewMachineOSBuild`, `NewMachineOSBuildFromAPI`, the `OrDie` wrappers) | `pkg/controller/build/buildrequest/machineosbuild.go` 41-247 | `MachineOSBuildName` |
| Server start-up (`GetBootstrapAPIServer`, `GetGoTLSConfig`, `getHTTPServerCfg`, `APIServer.Serve`) | helpers.go 1202-1232, api.go 64-93, 333-344 | `ServerStartup`, composed with `ConfigServer` in `MC_MachineConfigServer` |
| TLS security profile resolution (`GetSecurityProfileCiphers`, `GetSecurityProfileCiphersFromAPIServer`) | helpers.go 1160-1196 | `TLSProfile` |
| Kubelet bootstrap | `pkg/controller/kubelet-config/kubelet_config_bootstrap.go` 16-121 | `KubeletBootstrap` (instantiates `TLSProfile`) |

How the parts interact:

- The merge engine parses every config through `ParseAndConvertConfig`. That function sends V2 configs through the normalizer.
- The config server serves the merged config converted to the negotiated version.
- At start-up the bootstrap server reads the APIServer manifest and resolves its TLS profile with `GetSecurityProfileCiphersFromAPIServer`. `GetGoTLSConfig` turns the result into the `tls.Config` of the secure listener. The insecure listener serves plain HTTP. Requests are handled once a listener is up.
- The kubelet bootstrap resolves each KubeletConfig's TLS security profile with `GetSecurityProfileCiphers` and writes it into the pool's rendered kubelet config. `KubeletBootstrap` instantiates the operator-only module `TLSProfile` as `T` for this.
- The sub-controllers name their generated configs through `GetManagedKey`.
  - The kubelet bootstrap calls it without a client.
  - Its `generateBootstrapManagedKeyKubelet` adds a per-pool uniqueness check.

Most of these interactions pass a value, not shared state, so each part is its own module. There are two exceptions.

`MC_MachineConfigServer` composes `ServerStartup` (instantiated as `S`) with `ConfigServer`. A request step is enabled only once a listener is up. The handler reads neither the manifest nor the listener's TLS settings, and start-up never reads the request. So the two parts interact only through "a listener is up". `ServerInit` therefore explores:
- every request behind one start-up (no manifest, a loadable cert);
- every start-up in front of one request (a `/healthz` probe).

This avoids the product of the two state spaces.

The second exception is the read path: `ParseGzippedConfig` extends `GzippedConfig` and instantiates `RemoveIgnDuplicates` (as `N`, its variables renamed), so one behaviour runs the decode fallbacks, the parse dispatch and every step of the normalizer, exactly as `ParseAndConvertGzippedConfig` calls them.

- The merge module abstracts parsing to "this config's Ignition record".
- The server module abstracts the stored config to "the lowest version that can express it, or bytes that do not parse, or an error, or none".
- The bootstrap module models the client-less branch of `GetManagedKey`.

## Modules and their correspondence to the code

Every module has the same shape:

- The code's local variables and loop indices are `VARIABLES`.
- Each loop iteration or API call is one action.
- A definition named like a Go function translates that function.
- "Defective variants" are defined first, before the definitions they would replace. They are plausible slips in the code, and the mutants in `PROJECT.json` use them.
- Each checked module has an `MC_` module that fixes its constants for TLC. `GetManagedKey` is the exception: its constants are model values given in the cfg. `GzippedConfig` and `ManagedKeyStore` are checked through the modules that use them.

The modules:

- **MergeMachineConfigs**
  - Covers the sort into worker and custom-pool configs, the base parse, and one `MergeNext` step per further config.
  - The compression workaround is applied around `IgnMerge`.
  - `Finish` carries the overwrite default, FIPS/kernel type, concatenations, the kernel-devel check and image overrides.
  - `ign3.Merge` is vendored and not under `src/`, so it is modelled from the spec (`MergeField`, `IgnMerge`).
- **RemoveIgnDuplicates**
  - The reverse file walk (`FileStep`), the unit walk with drop-in merging (`UnitStep`) and the user folding (`UserStart`/`UserStep`/`UserFinish`).
- **GetManagedKey**
  - Two workers each run Get, Get, Create and Delete against a shared store.
  - Any call may fail, and a worker may restart mid-sync (`Crash`), within `MaxFailures`.
  - A worker whose sync returned an error is requeued, as the controllers' work queues do.
- **ManagedKeyStore**
  - The abstract specification of what the migration promises of the API server's store: `Migrate` copies the deprecated config to the free managed name, `Retire` removes the deprecated one once the copy exists, and `Migrate` is weakly fair.
  - `GetManagedKey` instantiates it with the identity mapping on `store` and checks `MigrationRefined == Abstract!Spec`: every Create, Delete, failure and restart of the workers is a `Migrate`, a `Retire` or a stutter.
- **GzippedConfig**
  - A byte string is a term (`Text`, `Gzip`, `B64`, `Empty`, `HalfMagic`).
  - `decompressPayload` decides on the two magic bytes exactly as the Go code does, including its `&&`.
  - It has no `Next` of its own: `ParseGzippedConfig` composes it.
- **ParseGzippedConfig**
  - A document is a record: `V3Doc`, `BadDoc` (neither version) or `V2Doc(c)` carrying normalizer input `c`.
  - `IgnParseWrapper` dispatches on the version the document declares; `ParseStep` returns a v3 config, starts the normalizer on a v2 one, or fails.
  - `Normalize` takes one step of `RemoveIgnDuplicates`; `Converted` returns the normalizer's error or its converted config. The vendored v2-to-v3 translation is taken to succeed.
- **ConfigDiffs**
  - One generic state machine for both diff functions (`Key` is the path or the unit name). `Next` has one disjunct per function, `CalculateConfigFileDiffs` and `CalculateConfigUnitDiffs`, each taking the loop steps `DiffStep`, one step per iteration of each `range` over a Go map. Each step picks any key not yet visited, because Go randomises map iteration.
  - A path is the sequence of its characters. `Clean` folds repeated and trailing slashes (the inputs have no dot components), so `IsSubdirectory` is the code's string prefix test.
  - `FindClosestFilePolicyPathMatch` is a `FoldLeft` over the policy list, comparing raw path lengths with `>` as the code does.
- **ConfigServer**
  - Handles one request; requests share no mutable state.
  - The request's `route` is the mux pattern it matched. `healthHandler` and `defaultHandler` answer `/healthz` and every other path outside `/config/`; `CheckRequest` starts `ServeHTTP` on `/config/`.
  - Accept entries are parsed one per step.
  - `SliceStableByQ` is Go's insertion sort, which `sort.SliceStable` uses on fewer than 20 elements. It uses the code's `>` comparison on float32, which is false with NaN.
  - Version selection follows, then the fetch/convert/reply chain.
  - `ConvertRawExtIgnitionToV3_5` fails on stored bytes that `IgnParseWrapper` rejects (`ConfInvalid`). Otherwise it keeps the lowest version that can express the config, and `Converts` checks that version against the target.
- **MachineOSBuildName**
  - Two builds are named side by side, so properties can compare their names.
  - md5 over the YAML is modelled as injective: the digest is the sequence of hashed objects behind the salt.
  - Each build is made by one of `NewMachineOSBuild`, `NewMachineOSBuildOrDie`, `NewMachineOSBuildFromAPI` or `NewMachineOSBuildFromAPIOrDie` (`caller`).
  - The `FromAPI` constructors first read the cluster's OSImageURLConfig (`NewMachineOSBuildOpts`). The read fails when there is none. `UpdateOSImageURLConfig` lets an administrator edit it between two builds' reads.
  - The `OrDie` wrappers end in `"panic"` where the others return the error (`Fail`).
- **KubeletBootstrap**
  - The validation pass, then per KubeletConfig the selector parse and one step per pool.
  - Each pool step renders the kubelet config's TLS settings (`KubeletTLS`). A KubeletConfig with a profile gets `T!GetSecurityProfileCiphers`; one without keeps the template's. The result is written into the generated MachineConfig (`MachineConfigFromIgnConfig`). `originalKubeConfig` holds the last rendered config, so a variant that reuses it can be expressed.
- **ServerStartup**
  - `ReadAPIServer` calls `GetBootstrapAPIServer`. Only a missing file means "no APIServer". Another read error or a failed unmarshal ends start-up.
  - `ConfigureTLS` passes the resolved profile through `GetGoTLSConfig`. It models `k8sapiflag`'s version and cipher tables as constants, and its Intermediate fallback as the code has it.
  - `ServeInsecure` and `ServeSecure` are the two branches of `Serve`. On the secure branch a cert that cannot be loaded makes `klog.Exitf` end the whole process. Otherwise it installs the watcher's `GetCertificate` on the `getHTTPServerCfg` server, which has HTTP/2 off.
  - The bootstrap command that chains these calls is outside `src/`, so its steps follow spec section 5 (spec_modelled).
- **TLSProfile**
  - Operators only. `configv1.TLSProfiles` and the OpenSSL-to-IANA name table are vendored, so they are constants (`TLSProfiles`, `OpenSSLToIANA`).
  - `GetSecurityProfileCiphers` resolves a nil profile, a Custom profile without a spec and an unknown type to Intermediate. `OpenSSLToIANACipherSuites` drops names without an IANA name.

## Runs

| Run | Expect | What it shows |
|---|---|---|
| merge_files | pass | Up to three worker/custom-pool configs, declaring one file or varying kernel type and extensions, the OS image or the extensions image. A file's decoded contents (`DecodeIgnitionFileContents`) are those of its last declaration with contents. The last explicit overwrite survives, and custom pools win. A non-default kernel survives, and kernel-devel is refused exactly with one. The OS and extensions images are the last custom pool's override, else the last worker's, else the default. |
| merge_compression_bug | violation | A later file declaration without contents resets gzip compression while the gzip contents stay (helpers.go:133). |
| dedup_file_order | violation | Survivors come out newest first, while spec section 4.4 says input order (helpers.go:747). |
| managed_key | pass | Two workers under failures and restarts never lose the config, and never return the managed key while the config is only under the old name. The store only changes as `ManagedKeyStore` allows (`MigrationRefined`), and with fair requeueing both workers end with a successful sync (`EventuallySynced`). |
| managed_key_stale | violation | A Create-then-crash leaves the deprecated config beside the managed one for good (helpers.go:838/858). |
| server | pass | Start-up serves only after a good manifest read, under every manifest and cert state. The secure listener carries the manifest profile's version and IANA ciphers, has HTTP/2 off and has the cert watcher installed (`ListenerFollowsProfile`). For requests, the negotiated version is the spec's. The reply's status and body follow the routes and ServeHTTP's checks: 500 for a GetConfig error, for stored bytes that do not parse, and for a config the negotiated version cannot express. |
| server_nan_q | violation | `q=NaN` on an unrelated entry lets a lower-q Ignition entry win (api.go:228/260). |
| build_name | pass | This holds whichever constructor made the builds and whether or not the cluster's OSImageURLConfig was edited between their reads. Two named builds share a name only when they agree on every input the build depends on, and always when they also agree on the OSImageURLConfig (`NameIdentity`). This deliberately does not say that a change of the OSImageURLConfig alone renames a build: that is line 92's behaviour, which `build_name_sources` shows to contradict the spec. A build is named exactly when its options are complete and consistent and its name fits a tag. A failed build panics exactly in the `OrDie` wrappers (`BuildOutcome`). |
| build_name_sources | violation | The name changes with where a multisource value comes from, against spec section 8 scenario 4 (machineosbuild.go:92). |
| kubelet_bootstrap | pass | One MachineConfig per selected pool, exactly when all configs validate and no pool is selected twice. Each generated config carries the TLS settings of its own KubeletConfig's profile (`KubeletTLSFollowsProfile`): the template's for no profile, Intermediate for an unresolvable one, and ciphers renamed to IANA names. |
| pipeline | pass | Through decode, parse and normalize, a config comes back exactly for raw, gzipped or base64-gzipped text of a v3 config or of a v2 config whose users are all `core`. On the way, the normalizer keeps the newest copy of each file, merges drop-ins without duplicates, and folds core users into one whose keys are unique and in first-seen order, newest user first (`UsersMerged`; `dedupePasswdUserSSHKeys` preserves that order on purpose). |
| diffs | pass | In every map iteration order, the file and unit diffs name each removed, added or deeply changed entry exactly once. Each diff path gets the policy of its nearest enclosing directory, the first of equal paths winning, and `/a` does not enclose `/ab`. |

Every property of every passing run has a mutant in `PROJECT.json`: a defective variant of a mapped definition that TLC finds violates it.

## Bounds and why they suffice

- **Merge:** up to three configs, one file path, every source/compression/overwrite combination, and both pools. Beside the file configs, one config may vary its kernel type and extensions. Kernel types are none, default and realtime; 64k pages behaves as realtime does and is left out. Another config may carry one of two OS image overrides or one of two extensions image overrides, so the precedence between two overrides shows for both images.
  - Three configs is the least that lets a declaration without contents follow gzip contents.
  - It also lets a custom config sit between two worker configs.
- **Normalizer (in the pipeline run):** inputs of up to three files, up to two units, or up to two users, over two names each. Duplicates, drop-in overlap and non-core users all occur. Each input appears in all three accepted encodings.
  - `dedup_file_order` still runs the normalizer alone on up to three units.
  - Three units in all three encodings make TLC's evaluation of the payload set too slow, which is why the pipeline run stops at two.
- **GetManagedKey:** two workers with `MaxFailures = 2`.
  - This is enough for a crash between Create and Delete plus an interleaved second worker.
  - Every initial store the cluster can be in is enumerated.
- **ConfigServer:** Accept headers of up to three entries, covering:
  - invalid and repeated `version`/`q` extensions;
  - v2 above 2.2 (pinned to 2.2) and below it (2.1, which must fail rather than be pinned), supported and unsupported v3 minors;
  - `*/*` and non-MIME entries;
  - every method, empty path and stored-config outcome (GetConfig error, none, unparseable bytes, configs needing 2.2, 3.1 or 3.5);
  - GET, HEAD and POST on `/healthz` and on another path.
  - Start-up, with the cert loadable or not, from these manifests:
    - missing, unreadable or malformed;
    - an APIServer without a profile;
    - Old, Modern, an unknown type, Custom without a spec;
    - Custom TLS 1.1 with one cipher that has an IANA name and one that does not.
  - The TLS tables (`MC_TLSTables`) are shared with the kubelet bootstrap run.
- **MachineOSBuildName:**
  - Two option sets that move a value between the MachineOSConfig and the OSImageURLConfig.
  - Each error option set.
  - Names of 95 and 96 characters: the longest that fits the 128-character tag and the shortest that does not.
  - Every constructor for each build, and two cluster OSImageURLConfigs (release 4.17 or 4.18) plus none.
- **KubeletBootstrap:** three pools, one carrying two roles' labels, and up to three KubeletConfigs with every selector kind.
  - Profiles are: none; Old; Modern; an empty type; Custom without a spec; and Custom with a TLS 1.3 spec that includes a cipher with no IANA name.
  - The profile table is trimmed to three ciphers per profile. Intermediate includes one cipher with no IANA name, so the renaming drops something.
  - Up to two KubeletConfigs take any profile, and three take none, Modern and Custom without a spec. So a KubeletConfig without a profile is rendered after one with a profile, with or without one in between.
- **Codec (in the pipeline run):** every layering of depth two over seven leaf payloads: a v3, an invalid, and two v2 documents (core-only and not), no bytes, half magic, truncated gzip.
  - `HalfMagic` (first byte 0x1f, second not 0x8b) exercises the `&&` at helpers.go:642.
  - The `&&` means `||`, as the comment above it says, so such a payload reaches the gzip reader instead of being reported "not gzipped".
  - It still ends in an error either way, so only the error it reports differs. `DecodesTheThreeEncodings` checks that it is an error.

- **Diffs:** configs of up to two files over `/a`, `/a/b` and `/ab` with two modes, or up to two units with `enabled` either way. Policy lists have up to two policies over `/a`, `/a/b`, `/ab` and `/b`, equal paths included.
  - So added, removed, mode-only changes, nested and sibling-prefix paths, and equal-length ties all occur.
  - Every map iteration order is explored.

## Fairness

Only `managed_key` checks temporal properties, under `FairSpec == Spec /\ Fairness`.

- `Fairness` is weak fairness of each worker's own steps (`WorkerSteps(p)`: the Get, Get, Create and Delete steps and `Requeue`).
- The code justifies it:
  - a controller worker that is not blocked keeps processing its queue;
  - a sync that returns an error is put back on the rate-limited work queue and retried.
- `Crash` and the failing outcomes are not fair: failures are bounded by `MaxFailures`, so eventually every call succeeds.
- Under this, `EventuallySynced` says both workers end with a successful sync.

The other runs check safety only. Their terminal states are explicit stuttering actions (`Returned`, `Synced`, `Finished` and the like), so deadlock checking stays on.

## Not modelled

- The Ignition libraries' parsing and conversion are abstracted to success or failure.
- Validation predicates, template and Ignition construction helpers (except `DecodeIgnitionFileContents`), and the generated informers are left out (see `components` in `PROJECT.json`). The validators hold no state, their work is mostly the vendored Ignition validators', and their callers are outside `src/`.
- `cipherOrder` (api.go 346-384) is not modelled: nothing in `src/` calls it. The cert watcher's later reloads are not modelled either: they change no state the server reads.
- `GetGoTLSConfig`'s fallback (helpers.go 1207-1211) is modelled, but the passing run's manifests never reach it. When a profile's ciphers convert to an empty list, the fallback replaces the profile's minimum version with Intermediate's TLS 1.2. The fallback's cipher list is also nil: it passes Intermediate's OpenSSL names to `k8sapiflag.TLSCipherSuites`, and the error is ignored. Add `APIServer("Custom", ProfileSpec("VersionTLS13", <<"DHE-RSA-AES128-GCM-SHA256">>))` to `MCManifests` and TLC reports `ListenerFollowsProfile` violated: the secure listener serves at `VersionTLS12`.
- A spec v2 config handed to `ConvertRawExtIgnitionToV3_5` comes back re-marshalled as v2, not translated to 3.5 as the function's comment says. `ign3.Parse` at helpers.go:322 then refuses it, and `ServeHTTP` answers 500. The model's stored configs are v3, as rendered configs are. The `GetConfig` implementations are outside `src/`.
  - `ValidateMachineConfig` checks extensions only inside `if cfg.Config.Raw != nil` (helpers.go 446-456). A MachineConfig with extensions and no Ignition config is therefore not checked against the allowlist, while the spec's Validator row rejects unsupported extensions. This is read from the code; no run checks it yet.
- The policy match is checked for clean, non-root policy paths only. A root policy `/` never matches a file under it (`Clean("/") + "/"` is `//`), and a trailing slash adds to a policy's length. Whether the API admits such paths is decided outside this repository; see the hazard at helpers.go:1130.
- The v2-to-v3 translation and the Ignition parsers are vendored and abstracted to the version a document declares.
