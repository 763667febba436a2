# Specifications of stelarctl

`stelarctl` prepares a Kubernetes namespace for a STELAR KLMS data lake. An
operator keeps a *workspace* of Tanka environments. In an environment, products
(selections of features) are turned into *fullspecs*, one of which is the
active one. `lake verify` asks whether a cluster can hold the lake. `lake
bootstrap` creates the Secrets the active fullspec calls for and records the
lake in the ConfigMap `stelar-lake-state`; Tanka then deploys the manifests,
whose init jobs create more Secrets and ConfigMaps; `lake unbootstrap` removes
all of it; `lake status` reports.

This directory holds TLA+ modules of that system, TLC configurations that check
them on small instances and proofs that TLAPS checks for every instance.

## Inventory

| Component | State it keeps | Operations | Correct when |
|---|---|---|---|
| **lake bootstrap** (`operations/cluster.py`, `kubernetes_secrets.py`) | Secrets in the namespace; its own position | read state ConfigMap, guard reads, per Secret read and create, create state ConfigMap | a recorded lake has all its Secrets; its values are one bootstrap's; success is recorded |
| **lake unbootstrap** (`lake_unbootstrap.py`) | a plan (names), the identities its preflight read | plan, confirm, preflight, delete with preconditions | only inspected objects go; the marker goes last; a successful cleanup leaves nothing it planned for |
| **lake state ConfigMap** (`lake_state_configmap.py`) | the fullspec and product of the bootstrapped lake | create, read, parse | one record at a time, never replaced |
| **lake environment** (`lake_environment.py`, `environment_spec.py`, `environment_target.py`, `lake_product.py`) | `spec.json`, `<product>.json`, `<product>_fullspec.json` | add, create, switch, remove, target updates; whole-file rewrites | what is selected under a name was written to its file; a command that reports success has had its effect; foreign entrypoints are not written over |
| **lake status** (`lake_status.py`) | none (reads the cluster) | read record, Secrets and workloads one by one, poll init jobs to a deadline, summarise | the verdict is one the cluster justified while it was read; polling ends |
| **secret names and values** (`secret_resources.py`, `manual_tls.py`) | none | names and data from a fullspec | what bootstrap creates, status expects and unbootstrap deletes are the same names; bad input is found before anything is created |
| **feature model, validation** (`models/feature.py`, `models/product.py`) | the working copy of a product, what is enabled, errors | five passes over the feature tree | what is accepted is acceptable and nothing acceptable is refused; a fullspec is its own fullspec |
| **preflight, target, storage** (`cluster_preflight.py`, `kube_context.py`, `storage_inference.py`, `deployment_config.py`, `fullspec_validation.py`) | none | read-only requests, inference of storage classes | what passes was met, what is refused was lacking |
| **minimal product builder** (`minimal_product*.py`) | answers so far | prompts to a product | its product validates |
| **workspace** (`lake_workspace.py`, `workspace.py`) | `jsonnetfile.json` and directories | init | dependencies and pins survive |
| **Jsonnet library** (`lib/`) | none | components and workloads of a fullspec | the commands select the same components; status expects or owns up to every workload |
| presentation, legacy script, notebooks, `goal.py`, tests | | | not modelled |

How they interact: commands share nothing but files of the environment and the
objects of the namespace. No command takes a lock; Kubernetes gives atomicity
of one call at a time, `409` when a created name exists, and deletion that is
conditional on UID and resourceVersion. Any number of operators may run commands
against the same namespace at the same moment, init jobs create objects beside
them, and a command may die, lose an answer or be refused by RBAC at any call.
Nothing is rolled back. The hard behaviours are therefore interleavings of
calls, plans and guards that are stale when acted on, reports pieced together
from reads of different moments, failures halfway, the order of deletions, and
agreements between functions that are written apart. The `hazards` list of
`PROJECT.json` names each at its line.

## Modules

| Module | Models |
|---|---|
| `LakeNamespace` | the objects of one namespace, their identities, the API calls, and what changes them besides stelarctl: init jobs, editors, `lake switch` |
| `LakeBootstrap`, `LakeUnbootstrap` | one `lake bootstrap`, one `lake unbootstrap`, one action per API call |
| `LakeCluster` | any number of both on one namespace; the properties |
| `LakeRecord` | abstract specification: what the commands promise about the record |
| `LakeStatus` | the bootstrap half of `lake status`, one action per API call |
| `LakeInspection` | composes `LakeStatus` with `LakeCluster`: what a report is worth while commands run |
| `LakeWorkloads` | the deployment half of `lake status`: reads, polls, deadline, verdict, against a cluster that moves |
| `LakeFiles` | the directory of one environment: its files, and what opening, filling and unlinking one does |
| `LakeEnvironment` | the commands on that directory: `lake add`, `create`, `switch`, `remove`, the local part of `bootstrap` and the local tail of `unbootstrap` |
| `LakeSettings` | abstract specification: what commands run in turns may do to `spec.json` |
| `LakeComponents` | the components a fullspec selects and the workloads of each, as Python and as Jsonnet compute them |
| `LakeSecrets` | the Secrets of one lake by name, over `LakeComponents`: who creates, expects and deletes which |
| `FeatureModel` | feature trees, groups, and what a product of the product line is |
| `ProductValidator` | one validator and the products it is given, one action per visit of a feature |
| `LakeConfig` | the part of a fullspec that decides what a cluster has to offer: how it is made and validated |
| `LakePreflight` | `lake create --minimal`, `switch`, `verify` and the checks of `bootstrap` over `LakeConfig`, one request at a time |
| `LakeWorkspace` | `workspace init` and `jsonnetfile.json` |
| `MC...` | small instances for TLC |
| `...Proofs` | inductive invariants and theorems |

### The cluster

An object is `[by, rev, holds]`: the invocation that created it, the number of
edits since, and, in the state ConfigMap, the recorded fullspec. `by` and `rev`
stand for UID and resourceVersion. One invocation creates a name at most once
(names are distinct within a product), so two objects of one name never share
an identity, as two UIDs never do. Secret data is not represented: who created
a Secret says whose generated values it holds.

`bpc` follows `bootstrap_lake`: `StartBootstrap` reads the active fullspec and
the state ConfigMap (local files belong to the call after them, because
selections can change back and forth at any time in the model); `GuardRead` is
one read of `check_secret_existence`, with the verdict of
`_guard_against_duplicate_bootstrap` after the last; `GuardForbidden` is its
403 branch, after which `mode` is `"blind"` and `allow_conflict=False`;
`ApplyRead`, `CreateSecret` and `CreateConflict` are `apply_secret_if_missing`
and `create_secret`, and the same for CKAN and TLS Secrets, which come last in
the list of names; `RecordState` and `RecordConflict` are
`apply_lake_state_configmap`. `CreateUnanswered` is a create that took effect
without the command learning so. `AbortBootstrap` is every other way to stop:
API errors, failed preflight or validation, a crash.

`upc` follows `lake_unbootstrap_command`: `PlanFromState` or
`PlanFromSelection` fixes the names, `Inspect` is one read of the preflight and
remembers the object it met, `DeleteCandidate` deletes that object if it is
still the one, `SkipMissing` covers names that were missing in the preflight or
answer 404, `DeleteConflict` is the 409, `DeleteUnanswered` and
`AbortUnbootstrap` are failures, including a declined confirmation.

`ipc` follows `inspect_lake_status`: `FindLake` reads the record, `InspectSecret`
is one read of `inspect_bootstrap_status`, with `BootstrapState` after the last;
`InspectRefused` is its answer other than 200 or 404. Inspections write
nothing, so one that starts again and again stands for all.

`deleted`, `whole` and `restored` are history variables: the objects
unbootstraps removed, whether the Secrets of the inspected lake have existed
together, and those created during the inspection. No action reads them.

### Workloads

`LakeWorkloads` goes through `expected_workloads` in order. A workload is absent,
or counts replicas (ready and available are separate counts), or is a Job in
one of four phases. `ReadReplicas`, `PollSettled` and `PollUnsettled` are single
requests; a Job that has neither succeeded nor disappeared is asked again after
a `Sleep` that never outlasts the deadline, until `Expire`. Time is what is
`left` of the deadline and of the `nap`; between any two steps any amount of it
may pass. `JobTimeout = 0` is a status without `--wait`. The cluster moves on
towards the lake (`Progress`) or loses something (`Disruption`); `before` and
`disturbed` are history.

### The environment

`write_text` is two steps: `OpenForEdit` empties the file, `FillForEdit` puts
the text there, and a command that dies in between leaves the file empty. A
second writer may fill over a first one's text and leave the end of a longer one
behind (`Garbled`); a file unlinked while open takes the text with it. A file is
what it says: settings, an input, a fullspec, the managed or a foreign
entrypoint, or nothing readable. Inputs are those the feature model accepts,
`FullspecOf` what it makes of them; context and namespace are one target,
except where a bootstrap takes them from two reads.

A file has a name, and product names are free: `SourceFile(p)` is named after
the product, `FullFile(p)` has the name `FullName[p]`, and nothing keeps the
first from being `spec.json` (for the product `SpecName`) or the fullspec file of
another product. `NamesAssumption` is what appending `_fullspec` guarantees. A
document is a fullspec to whoever finds a consistent `klms` object in it, so an
input that carries one is in `Inputs` and in `Fullspecs`: that is when `lake
switch a` selects what was created as the product `a_fullspec`. A product written
over `spec.json` is read as settings that say nothing (`Blank`). A product that
carries the annotation of `stelarctl` in its own `metadata` is left out.

An environment can start from nothing, from a foreign directory without the
mark, or from a lake of an older release, the last with the managed or somebody
else's entrypoint: the commands accept a marked environment whatever its
`main.jsonnet` says.

Each command is a `Job` with its arguments. `Start...` and `CheckAdoption` are
the decision what to edit; then come the edits in the order of the code, named
in `edit`: `"main"` and `"mark"` (`_ensure_main_jsonnet`, `_ensure_spec_json`),
`"target"`, `"source"` and `"full"` (`product_data_to_fullspec`), `"first"` and
`"select"` (`_switch_if_first_product`, `update_environment_active_product`),
`"retarget"` (`update_environment_spec_json`), `"forget"`
(`clear_bootstrapped_product`). `ReadForEdit` reads the whole of `spec.json`
into `snap`, `SkipEdit` is an edit that finds nothing to do, and `NewSettings`
changes the one aspect the edit is for. `Abort` is a refusal, an error or a
crash; the reading of an unreadable file is one. A `lake create` of a product
file looks the environment up again to report what it wrote (`Report`), one with
`--minimal` does not, and only that one takes target flags. `written` and
`overlapped`, which says that a command has gone on while another was at work,
are history variables that no action reads.

### Names and components

`LakeSecrets` writes out the four lists of the code: `Plan` (`product_secrets`,
the CKAN Secret, manual TLS), `ExpectedNames` (`expected_bootstrap_secret_names`),
`InitGeneratedNames` (`_init_generated_resource_names`) and, external,
`InitJobSecrets`. A lake chooses its names freely, so they may collide; a Secret
is its name and its keys. One command runs at a time and the selection stays:
interleavings are the matter of `LakeCluster`. Files of manual TLS are missing,
not PEM, or PEM, and a pair matches or not.

`LakeComponents` has the Python and the Jsonnet reading of one selection side by
side: `ExpectedWorkloads` from `expected_workloads`, `Rendered` from
`build_lake` and the manifests. The chart of `airflow` stands for one workload;
`UncheckedComponents` are those that the report of status names as not inspected.

### Products

A product is a nested JSON object, given by which features are keys of their
parent's object (`direct`) or of their group's (`grouped`), by what the value of
each group is, and by what is out of place in it. Each pass of
`ProductValidator` visits one feature of `todo` at a time, in any order, since
the order of the keys is the product's; `EndStep` is `_raise_if_errors`. The
working copy (`present`, `chosen`, `known`, `values`) is the `deepcopy` the
passes rewrite. `enabled` and `errors` belong to the validator and outlive a
product.

### Preflight

A requirement is what one check asks for. `ChecksOf` lists them in the order of
`run_preflight_checks`; the ingress controller takes several lists of pods
(`scan`). `met` and `lacked` are history: what has held, and what has not, at
some moment since the preflight began. `InferClass` reads the storage classes of
the context of the command line or of the active one; `TargetOf` is
`resolve_environment_target`.

## What the runs check

| Run | Instance | Result |
|---|---|---|
| `racing` | 2 bootstraps of 2 products that share a Secret, 1 unbootstrap, 1 status; or 1 bootstrap, 2 unbootstraps, 1 init job, one edit of each object; every interleaving | a recorded lake is complete, save deletions; a blind record is the bootstrap's own; success is recorded; the commands implement `LakeRecord`; a Secret that status misses was deleted; a bootstrapped report is a snapshot, or a deleted Secret came back meanwhile; the marker goes last; only inspected objects go |
| `serial` | 2 bootstraps, 2 unbootstraps, one command at a time, 2 products, failures anywhere | records are the bootstrap's own; a lake is erased whole; a cleanup is complete |
| `environment` | 11 commands, 3 of them in a behaviour: creates, a switch and a bootstrap at once, adds and removals at once, or any in turns; crashes; products `p`, `p_fullspec` and `spec` | nothing unreadable is taken for data; selection and record pair a name with what was written to its file; foreign entrypoints are not written over; in turns, the commands implement `LakeSettings` and success is effective |
| `workloads` | a StatefulSet, a Deployment, a Job, in a cluster that progresses and loses things, fairness | readings and verdict lie between what was and what is; a Job is given up only at its deadline; the inspection ends |
| `secret_names` | 15 lakes: default, renamed and colliding names, optional and repeated components, one of them without a mapping in status, good and bad TLS files | the lists agree in every use |
| `products` | a tree of 7 features and 5 groups of all four kinds, every way to nest and fill it, two products in a row | what passes is acceptable; nothing acceptable is refused, save with an undecided empty group; a fullspec is a fixpoint |
| `preflight` | 10 written and all minimal products, 2 contexts, 2 storage classes, 3 pods, 2 changes of the cluster | passes were met, but for classes an alias hides; refusals are founded; generated products are accepted; inferred classes are served |
| `workspace` | 3 inits, 3 edits, deaths anywhere | pins are kept |
| `conflict` | 2 bootstraps | violated: a creation conflict does not stop a bootstrap |
| `status_cleanup` | 1 bootstrap, 1 unbootstrap, 1 init job, status, in turns | violated: a failed cleanup may be reported as `not_bootstrapped` |
| `empty_group` | the instance of `products` | violated: a product is refused for being silent about a group without members |
| `storage_alias` | the instance of `preflight` | violated: the class of the volumes is not among those checked |

Bounds. Two rivals of each kind are what the races need: one command between
two calls of another. `racing` explores two kinds of behaviour (`MCScenario`), on
products of their own: in `Racing`, of two Secrets and of one, there are overlap,
difference and a last element; `Cleanup`, with init jobs and edits
(`MaxEdits = 1`), uses the smallest product, because each name multiplies the
identities two preflights can hold. `serial` needs the second bootstrap and
unbootstrap for retries after failures; its two products differ in one of two
Secrets. `environment` needs no bound but its jobs, each done at most once, and
three of them in a behaviour (`MCScenario`): two inputs for one product
(regeneration), a product whose input is stored where the other's fullspec is, one
whose input is `spec.json`, two targets; a third command is the one that meets
what two others left.
`workloads` takes `JobTimeout = PollInterval = 2`, so that a poll falls before, at
and after the end of a sleep, and one replica; `MaxReplicas` and the timeouts
are the only bounds. `products` nests and fills the tree in every way, with
values of attributes, foreign keys and malformed values on a few trees of it;
after a first product the validator is given one that only lists, or the
fullspec it has just made. `preflight` allows `MaxChanges = 2` changes: one to
break or move something, one to mend it; `MCFocus` explores either written
fullspecs in one context with every kind of change, or creation first, with
changes of classes and of the current context; a product is created once.
`workspace` needs a third init for a success after two deaths. Commands end and
nobody has to start another, so deadlock is not checked.

Fairness. An inspection is a sequential program that issues its next request when
the last is answered: weak fairness of `InspectionStep`. The clock runs: weak
fairness of `Tick`. Nothing obliges the API server to fail or the cluster to make
progress, so those carry none. The other commands go once through lists that are
fixed when they start; that they end is not worth a property.

### Findings

*A creation conflict is tolerated.* `docs/stelarctl_failure_cases.md` says a
bootstrap fails on Secret creation conflicts before it records. `create_secret`
does so only when the guard could not read Secrets. With reads allowed, two
bootstraps that both pass the guard interleave their creations, each skips the
Secrets the other made, and the first to record a lake records a mixture.
That is also why `SerialRecordIsOwn` holds with operators taking turns and is
not claimed without.

*A failed cleanup can look clean.* `unbootstrap_lake` deletes bootstrap Secrets
first, then what init jobs made, then the marker, "so a failed init-resource
cleanup remains discoverable as a bootstrapped/partial lake on the next
inspection". `inspect_bootstrap_status` counts bootstrap Secrets only: when all
of them are gone it reports `not_bootstrapped`, marker or not.

*An empty group needs a selection.* In `_select_features` a group without members
and without a selection is excused ("an error, unless the group is empty"), and
reported a few lines below, since it is still not in the product. `VerdictIsRight`
claims that acceptable products are accepted for all others. The feature model
that ships has no such group.

*An alias hides the class that is used.* `configured_storage_class_names` is to
"check both PVC storage classes used by the render". The second has an older key,
and when a fullspec has it, the newer one is not looked at; the claims of
postgres, minio and llm_search read the newer one. `PassedWasMet` allows for that
class and no other.

### Limits the model shows

The properties are stated so that they allow for these and nothing else.

- A product can have a name whose files are taken. `lake create --minimal spec
  ENV` replaces `spec.json` by the product, selects that product as if it were the
  first, and reports success; mark, earlier target and earlier selection are gone,
  though the help of `lake create` says "Later products do not replace
  spec.stelar.active_product". `lake create spec.json ENV` does the same and then
  ends in an error, because it looks the environment up once more. The properties
  say so: `Overwrite` in `LakeSettings`, the exception in
  `SerialSuccessIsEffective`. `lake switch a` selects the document of a product
  `a_fullspec` if that has a consistent `klms` object:
  `SelectionWasWritten` is about what was written to the file.
- A marked environment with somebody else's `main.jsonnet` is used with a warning;
  `lake remove` deletes that file with the rest.

- An unbootstrap that runs while a bootstrap is between its Secrets and its
  record cannot see it, plans from the local selection and deletes Secrets the
  record will claim. `RecordedLakeIsComplete` excuses Secrets an unbootstrap has
  deleted.
- A plan can outlive its lake: if the lake is replaced by another operator
  between the plan and the preflight, the new record goes with the old names,
  and the Secrets only the new product has remain. It needs two operators.
- After a failed bootstrap and a switch, an unbootstrap goes by the new
  selection; nothing records the failed product.
- A bootstrapped report can be pieced together when Secrets are deleted and
  created again during the inspection; that takes an unbootstrap and a second
  bootstrap, or two unbootstraps, within one status.
- Readings and verdict of the workloads are bounded only while nothing is
  deleted, scaled or lost. An init Job that is missing at the first poll is
  reported at once, with all of `--wait` left.
- `lake bootstrap` reads the fullspec from `spec.json` and the input from the
  product file, which `lake create` may have rewritten since; the recorded pair
  need not match.
- Every edit of `spec.json` writes back all it read, so recording a selection
  can undo a new target, and the same holds of every other pair of edits;
  `LakeSettings` is what is left when operators take turns. A bootstrap takes
  its context from its first read and its namespace from its last.
- A `spec.json` that a crash left empty is refused by every command, `lake add`
  and `lake remove --force` included (in `LakeSettings`, `Lost` is final); a
  crash of `lake add` between entrypoint and `spec.json` needs
  `--adopt-existing-main` to go on; a selection may be an older fullspec of its
  product; a `lake create` that selects while a `lake remove` deletes loses its
  selection.
- Two fields that name one Secret: the second value is skipped, and the lake
  counts as bootstrapped. A blind bootstrap stops at the conflict instead.
- A component that is listed twice passes every command and cannot be rendered
  by Jsonnet. A `visualizer` or `previewer` section with a name of its own makes
  status look for a Deployment that the manifests call otherwise.
- `airflow` can be selected and is rendered from a Helm chart; status does not look
  at it and says so in its report.
- A Secret name that Kubernetes does not allow is refused by the API only, when
  Secrets before it may have been created.
- An edit of `jsonnetfile.json` between the read and the write of one
  `workspace init` is lost. The ConfigMap `ckan-config` that a manifest mounts is
  created by nothing in the repository.

## What is proved

For every value of the constants, from the named assumptions of the modules
alone, save where a hypothesis is named:

| Module | Theorem | States |
|---|---|---|
| `LakeClusterProofs` | `TypeCorrect` | `TypeOK`, and every index is within the names of a real product |
| | `RecordedComplete`, `BlindOwn`, `SuccessRecorded` | `RecordedLakeIsComplete`, `BlindRecordIsOwn`, `SuccessIsRecorded` |
| | `OnlyInspected`, `MarkerLast` | `OnlyInspectedObjectsGo`, `MarkerDeletedLast` |
| | `Refinement` | `ImplementsLakeRecord` |
| | `LakeErasedWhole` | `SerialLakeIsErasedWhole` |
| | `RecordOwn`, `CleanupComplete` | `SerialRecordIsOwn`, `SerialCleanupIsComplete`, when `KindsApart` |
| `LakeInspectionProofs` | `InspectionType` | `InspectionTypeOK` |
| | `MissingWereDeleted`, `BootstrappedSnapshot` | `MissingSecretsWereDeleted`, `BootstrappedIsASnapshot` |
| `LakeEnvironmentProofs` | `EnvironmentTypeCorrect` | `TypeOK`: nothing unreadable is taken for data |
| | `SelectionsAreWritten`, `RecordsAreNamed` | `SelectionWasWritten`, `RecordNamesItsFullspec` |
| | `ForeignUntouched` | `ForeignIsUntouched` |
| | `SerialInvariant`, `SuccessIsEffective`, `ImplementsSettings` | `SerialInv` until commands overlap, `SerialSuccessIsEffective`, `SerialImplementsSettings` |
| `LakeSecretsProofs` | `PlanMatchesExpected` | the names in `Plan` are those in `ExpectedNames` |
| | `SecretsType`, `SecretsRecorded`, `SecretsFound`, `SecretsInputFirst` | `SecretsTypeOK`, `RecordedIsComplete`, `StatusFindsAll`, `InputErrorsCreateNothing` |
| | `SecretsInspected`, `SecretsCleanup` | `DeployedIsInspected`, `CleanupLeavesNothing` |
| `LakeWorkloadsProofs` | `WorkloadsType` | `WorkloadsTypeOK` |
| | `ReadingsBounded`, `VerdictBounded`, `JobsWindow` | `ReadingsAreBounded`, `VerdictIsBounded`, `JobsGetTheirWindow` |
| `LakePreflightProofs` | `PreflightType` | `PreflightTypeOK` |
| | `GeneratedAccepted`, `InferredServed` | `GeneratedIsAccepted`, `InferredIsServed` |
| | `PassedMet`, `RefusalFounded` | `PassedWasMet`, `RefusalIsFounded` |
| `ProductValidatorProofs` | `ValidatorType` | `ValidatorTypeOK` |
| | `AcceptedConfiguration` | `AcceptedIsConfiguration` |
| | `FullspecFixpoint` | `FullspecIsFixpoint` |
| | `VerdictRight` | `VerdictIsRight` |
| `LakeWorkspaceProofs` | `WorkspaceType` | `WorkspaceTypeOK` |
| | `SerialKeepsPins` | `PinsAreKept`, when commands do not race |

*Cluster.* The inductive invariant `LakeInv` joins to the properties what makes
them inductive: a command at work has a product and an index in range
(`InRange`); every Secret a bootstrap has passed exists or was deleted, and in
blind mode is its own (`PassedApplied`); whoever recorded is over and has passed
all its Secrets (`RecorderFinished`); the state ConfigMap holds the fullspec of
its recorder (`StateIsOfRecorder`). The argument turns on `StoreEffect`: any step
leaves the namespace alone, adds one object, removes one into `deleted` or edits
one, and each of these keeps what is accounted for (`AccountsPersist`). The
refinement maps the state ConfigMap to `record` and `bpc` to `outcome`.
`MarkerDeletedLast` needs a second invariant beside `LakeInv`, `IdentityInv`: no
name returns to an object it once held, since whoever created an object or was
seen as its creator is `Spent` for that name and an edit only raises its
revision (`CreatorsSpent`, `BoundIsOfThePast`). What a preflight read and has
gone is then gone for good (`OutlivedStays`), so a deletion has outlived every
candidate it is past (`PassedOutlived`), and the marker is its last.

The `Serial` properties say nothing about a namespace in which commands overlap.
Where operators take turns, `TurnsInv` holds: one command runs (`OneCommand`), it
planned from the only record there is (`PlanIsOfRecord`), and the names its
preflight found free, or it has deleted, are free still or an init job's
(`CleanupClears`). That is why a lake whose record is gone is gone whole.
`OwnershipInv` adds that names the guard has seen free stay free until the
bootstrap creates them (`GuardedNamesAreFree`), so that all it has passed is its
own, in checked mode too. `RecordOwn` and `CleanupComplete` assume `KindsApart`:
no product names a bootstrap Secret what an init job names its own. The default
names are apart, and the instances check it; a product may choose a name that is
not, and then an init job left from an earlier lake can create the Secret
between the guard's read and the bootstrap's, and TLC finds
`SerialRecordIsOwn` violated.

*Inspection.* `InspectionInv` stands on `LakeInv`. The record is written last, so
when an inspection finds it every Secret of that lake exists or was deleted
(`RecordedAccounted`), and stays so. `Snapshot` carries the second property
through the reads: either the Secrets have existed together, or one of them is
missing still and has not been counted as found, or was created since. A step of
a command can end the second case only by creating that Secret; a read of a
missing Secret puts it in `absent`, and then the report is not "bootstrapped".

*Environment.* `SelectionWasWritten` alone is not inductive, since a command
writes back what it read long before: `EnvInv` says of every `snap` what it says
of `spec.json` (`SelectionsSound`), that what a fullspec file holds was written to
it, by whatever create (`FullFilesSound`), what a command about to select or
record has found (`FindingsSound`), and which edits belong to which command
(`EditFits`). `ForeignBlocks` adds that beside a foreign entrypoint no command is
about to write one; `UntakenStep` and `ForeignStep` are the two halves of
`ForeignIsUntouched`. Of names the proofs use `NamesAssumption` alone
(`FilesDiffer`). Each action has a lemma that it keeps `EnvInv`; `Undisturbed`
serves those that write no file.

As long as commands have not overlapped, `SerialInv` says that one is at work
(`Alone`), that what is open belongs to it and is empty (`OpenFiles`), that what
it read of `spec.json` is what that said until it was emptied (`SnapFits`), that
the other files it has read are as it found them (`StillFound`), that it works in
a marked environment unless it has just written its product over `spec.json`
(`InLake`, `Lapsed`), and that the edits it has behind it are on disk (`Made`).
`TurnTaken` shows action by action that a turn keeps this, and that it ends in
success only with its `Effect`; the step that overlaps ends the claim. The
refinement maps the settings to `snap` while they are written and to `files`
otherwise (`CurrentIs`), so that `spec.json`, emptied and filled in two steps,
changes in one; an empty or garbled file left by a crash is `Lost`, and so is
everything once two commands were at work, since two that read the settings before
either writes lose one of the edits. One lemma per kind of step maps it to a step
of `LakeSettings` or a stutter.

*Secrets.* `SecretsInv` says that each entry of the plan the bootstrap has passed
has a Secret of its name; when names differ, or it is blind, the Secret also has
the keys. `PlanMatchesExpected` turns that into the statements about the other
lists. `SecretsInspected` goes through the components one by one.

*Workloads.* Verdict and readings follow from one fact about each workload: while
nothing is lost it never falls behind what it was (`Advanced`), so whatever is
read in between lies between (`Between`), the answer a Job may be left with at
its deadline included (`AnswerIsBounded`). The verdict is then a function of the
readings (`Reports`).

*Validator.* Each pass has visited some set `V` of features and still has `todo`
before it, and what is below `V` is in one of the two (`Covers`); that the tree
has no cycle (`IsTree`, `Climb`) makes a pass that is over one that has visited
all it should. `StructurePass` to `AttributesPass` say what each pass has
established of `V` if it reported nothing: keys have moved to their parents,
groups list what is there, what is enabled is closed under parents, no group is
broken, values are valid. Each ends where the next begins (`StructureEnds` and
the lemmas after it), and only together do they give a product of the product
line (`EnabledIsConfiguration`). `Unchanged` says that a fullspec gives no pass
anything to do, because it is `Complete` (`FullspecIsComplete`).

That nothing acceptable is refused needs more than what a pass has established:
where it is going. Each product describes one selection of features
(`SelectionExists`, `GoalIs`), which no order of visits enters into. `VerdictInv`
says that the walk of the second pass stays inside that selection and fills each
group the way the selection has it (`SelectVerdict`), that what it leaves behind
is that selection (`SelectionMade`), that attributes below it have a valid value
of their own or a default (`AllValued`), and that an error, whichever pass
reports it, is a reason to refuse (`ErrorsAreReasons`) or comes of an empty group
left undecided. With `AcceptedIsConfiguration` this makes the verdict exact but
for those.

*Preflight.* `ChecksCover` shows that the checks of an acceptable fullspec contain
all its lake needs, less a class that the alias hides; `Observed` says that what
holds now is in `met`, what does not is in `lacked`, and each check already passed
is in `met`; `CheckIsHonest`
relates the answer of a check to the cluster, where the last list of pods
decides for the controller. `Sourced` follows an inference into the product, the
active fullspec and the one under check: its class is served still or was
deleted. `MinimalIsAccepted` compares the generator with the validation.

*Workspace.* With commands in turns the file is what the running one read until
that one writes, and what it writes contains it (`SerialInv`).

`InspectionTypeOK` and `WorkspaceTypeOK` are proved and in no run.

Every property of a passing run is stated by a theorem but one: liveness under
fairness (`InspectionEnds`) is outside what TLAPS proves and is model-checked
only, as are the counterexamples of the findings.

## Not modelled

- *Presentation*: help texts, prompts and progress output keep no state. What
  prompts accept is in `LakeConfig` and `LakeSecrets`.
- *Content*: the values of Secrets, the parsing of certificates and the rest of
  the manifests are data the properties do not tell apart. A value is a key, a
  pair of files matches or not, an attribute is valid or not. The check of a
  default against its own schema and the loading of YAML are left out.
- *Manifests beyond components and workload names*: they are declarative. What a
  pod waits for is run by Kubernetes and by images outside the repository.
- *External programs* (`tk`, `jb`, init job images): only what the code relies on
  them for. `lake list`, `lake info` and the workspace version check only read.
- `legacy/`, notebooks, scripts and tests; `goal.py`, which nothing calls.

## What is left

The composition of `LakeEnvironment` with `LakeBootstrap`, whose `active` it
supplies.
