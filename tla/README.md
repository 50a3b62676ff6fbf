# OpenLocus: TLA+ models of the persistent index and of the B4 replication control

OpenLocus answers code questions with *evidence*: a path, a line range, the hash
of the file and an excerpt. It is a workspace of Rust crates (`crates/`) with a
command line, plus several hundred Python programs (`eval/`, `scripts/`) that
evaluate it. Two parts carry state across processes, and these are the parts
where order, crashes and staleness matter: the persistent BM25 index of
`crates/openlocus-index`, and the control plane of the B4 replication
(`eval/product_bakeoff_b4_control.py`), which authors and freezes a holdout over
days, runs one formal experiment on it that may never be run twice, and closes
it in public whatever happens. This project models both, the search that reads
the index, and the algorithms that cut files into chunks and chunks into
evidence. It has TLA+ modules, TLC configurations that check them on small
instances, and proofs that TLAPS checks for every value of the constants.

## The system

| Part | State | Operations | Works with | Correct when |
|---|---|---|---|---|
| Persistent index (`openlocus-index/persistent.rs`, `manifest.rs`) | `.openlocus/index/tantivy`, `.openlocus/index/manifest.json` | build, update `--dirty`, update `--path`, status, dirty, validate, purge | scan, policy, Tantivy, AST chunker | the two stores tell one story; reports can be trusted; an update settles what it can |
| Persistent search, `PersistentBm25Index` | an open searcher (never reloaded) | open, search, drop | index on disk, source tree | evidence is of the policy asked with; the answer does not depend on accidents of the index |
| Line windows and spans (`compute_chunks`, `find_best_matching_line`) | none | cut, locate, tighten | build, update, search | windows partition the file; a span shows the line it is about |
| AST chunks (`openlocus-ast/chunk.rs`) | none | collect, split, sort, de-duplicate, fill | build, update | chunks partition the file; definitions stay whole |
| Scan and read (`openlocus-repo`) | none | `scan_repo`, `read_file`, `validate_path` | policy, ignore files | hash and content belong together; nothing outside the root is read |
| Path safety (`openlocus-index/path_safety.rs`) | none | preflights, `checked_write_file_atomic` | every writer | files are replaced whole |
| Store interface, conservative and TDB adapters (`openlocus-store`) | none of their own | search with fallback, status | index crate | a fallback is never less current than what it replaces |
| Derived views (`openlocus-derived`) | `views.jsonl`, `audit.jsonl` | upsert, list, purge | generator, validation | no view is lost |
| Rank fusion, in-memory search (`openlocus-retrieval`) | none | RRF, BM25, symbol, regex | CLI, context | deterministic order |
| Provider (`openlocus-provider`) | cache and audit files | gate, embed, rerank | policy | nothing leaves without the gate |
| Graph and context (`openlocus-graph`, `openlocus-context`) | none | build, expand, plan | search | evidence only from current files |
| B4 holdout authoring (`prepare_holdout`, `freeze_holdout`) | private directory: author state, and per panel the candidate plan, slot checkpoints, manifests, completion, query report, binding and clones; freeze outputs | prepare, freeze | candidate catalog, git clones, readiness | it can go on wherever it was interrupted; panels are disjoint and never change after their commit |
| B4 readiness and authorization | public readiness, private binding, launch authorization | publish, bind, authorize | holdout, attempt | no worker gets past its validations on a holdout that is not frozen |
| B4 attempt (`run_formal_replication`, its observer thread, the panel children, `reset_preboundary_launch_state`, `closeout_interrupted_failure`, the shell launcher) | run directory: envelopes, admission, release, observations, outcome reports, boundary receipt; public closeout, private terminal state; the launcher's receipts | launch, release, run panels, observe, reconcile, score, publish, record; reset; close out | child processes, thread, launcher, operator | one shot, one verdict; the verdict stands on its evidence; a released attempt is closed in the end |
| Other `eval/` and `scripts/` programs | their own output files | one sequential run | recorded artifacts | not a protocol |

What is hard here: the source tree, its ignore files and its policy change while
a command runs (every command reads each file two or three times at different
moments); a command may die between any two writes; the index is two stores
without a common transaction; readers check the manifest and open the documents
separately, and keep what they opened; scores tie and the order inside a tie is
an accident; and the chunk arithmetic has an edge at every window end. The B4
control is a chain of one-time writes by five kinds of process or thread (launcher, worker,
observer thread, panel child, recovery command) that share nothing but files:
any of them may die, time out or lose what it has not synced, the operator may
repeat any command, and the same receipt is written by two threads with a check
and a replace.
`PROJECT.json` lists these hazards one by one with their lines.

## Modules

| Module | Models | Checked by | Proved in |
|---|---|---|---|
| `IndexOps` | per-file decisions: scan record, entry and documents of a file indexed for the first time or again, `dirty_index`, `status_index`, `validate_index`, the single-path plan | through `PersistentIndex` | |
| `PersistentIndex` | the commands, step by step, the environment, crashes and the readers | `index_crash`, `index_readers`, `dirty_loop`, `duplicate_docs`, `stale_policy` (instances in `MCPersistentIndex`) | `PersistentIndex_proofs` |
| `TopDocs` | `collect_deterministic_top_docs`, materialization, `sort_dedup_and_truncate_bm25_results` | `top_docs`, `tail_order` | `TopDocs_proofs` |
| `Spans` | `compute_chunks`, `find_best_matching_line`, tightening | `spans` | `Spans_proofs` |
| `AstChunks` | `extract_ast_chunks` from the definition nodes on | `ast_chunks` | `AstChunks_proofs` |
| `B4Protocol` | what the B4 modules share: panels, and a bounded number of faults | through `B4Control` | |
| `B4Holdout` | `prepare_holdout` and `freeze_holdout`, write by write | `b4_control`, `b4_freeze_resume` | `B4Holdout_proofs` |
| `PanelLedger` | abstract: an append-only ledger of panel selections, sealed when full | implemented by `B4Holdout` | `B4Holdout_proofs` |
| `B4Attempt` | launcher, worker, observer, panel children, reset, closeout | `b4_control`, `b4_orphan` | `B4Attempt_proofs` |
| `OneShot` | abstract: an experiment released once, observed by one worker, with one verdict | implemented by `B4Attempt` | `B4Attempt_proofs` |
| `B4Control` | holdout, readiness, authorization and attempt together (instance in `MCB4Control`) | `b4_control` | `B4Control_proofs` |

Names that end in a description of a fault (`FreshEntryRehashed`,
`StageModifyKeepsOld`, `EnoughIgnoresTies`, ...) are broken variants of the
definition after them. No specification uses them: put in the place of that
definition, each makes the property named in `PROJECT.json` fail.

### PersistentIndex

State and code correspond as follows. `src` is what is at each path of the
source tree, in the classes the code tells apart (text, not UTF-8, empty,
absent, outside the root, unreadable); `excluded` the paths the policy and the
ignore files keep out of `scan_repo`; `policy` the policy file. `manifest`,
`dir` and `docs` are `manifest.json`, the Tantivy directory (absent, present
but no index, usable) and the documents of its last commit. `records`, `plan`,
`files`, `staged`, `strat`, `pol` are the local variables of the running
command: the scan, `paths_to_delete/modify/add`, `new_manifest_files`, the
writer's uncommitted documents, the chunk strategy and the policy it was given.
`handle` is an open `PersistentBm25Index` (or one `search_persistent_bm25`
under way) and `evidence` the last evidence emitted. `torn`, `orphans`, `quiet`
and the `settled` fields only record history.

A *build* is `StartBuild` (scan), `BuildRemove`/`BuildRemoved`
(`remove_dir_all`, in two steps because a reader or a crash can find the
directory half gone), `BuildCreateDir`, `BuildOpen` (`create_in_dir`, writer),
one `StageAdd` for each record, `Commit`, `SaveManifest`. An *update* is
`StartUpdate` (scan and gates), `PlanDirty` or `PlanPath`, one
`StageDelete`/`StageModify`/`StageAdd` for each path planned, `Commit`,
`SaveManifest` and `Report` (the second dirty check, on the scan the command
started with). A *purge* is `StartPurge` (manifest), `PurgeRemove`,
`PurgeRemoved`. Each `Stage` step reads the file at the moment it is reached, as
the code does, so edits fall between scan, plan and indexing. `Abort` ends any
command between any two steps, by death or by an error returned with `?`; what
is on disk stays. `ReaderGate` checks directory, manifest and policy,
`ReaderOpen` opens the documents of that moment, `ReaderHit` re-reads the file
of one document and emits evidence if the hash is still the one indexed. That is
one step because the code reads the file once: the hash it compares and the
evidence it emits are both made of what this read returned. Of the evidence only
the two policies and `settled` are kept.

Abstractions: blake3 has no collisions, so a hash is the content; all chunks of
one file are added and deleted together, so one document stands for them (the
chunks themselves are `Spans` and `AstChunks`); the dirty walk of an update is
one step (edits fall before it or after it; the files are read again anyway);
the order in which the paths are staged is arbitrary within the plan; the
manifest is replaced atomically (temporary file and rename) and parses; schema
version and roots are the supported ones. One command writes at a time: see the
plan.

`TypeOK` apart, the properties are:

- `ManifestAndDocsAgree`: with a manifest on disk, no command between its two
  writes and none that died there, the directory opens and each path has the
  documents its entry claims, once, under the manifest's strategy and policy -
  or none, if it is not indexed. One exception is in the code and is named
  `orphans`: an indexed path that is modified but no longer in the scan (or
  unsafe to index without a record) has its documents deleted and keeps its
  entry.
- `CleanIndexServesFiles`: clean means that every scanned text file is in the
  index with its present content, unless a command died between its two writes
  and nothing was built since, or the path is one of `orphans`.
- `CleanImpliesValid`: the research log's "Status must not say clean if validate
  would fail", and more: valid is exactly "status asks for no rebuild".
- `UpdateSettlesOrdinaryFiles`: after an undisturbed dirty update, only files
  that are not readable text, or no longer scanned, can still be dirty.
- `SettledReadersKeepPolicy`: a handle opened while no write was pending or torn
  emits only evidence indexed under the policy it was opened with, whatever is
  rebuilt under it.

The exemptions are what the code does, and no property looks inside them. After a
command that died between its two writes status and dirty may report a clean
index over documents that are missing or of another content, until the next
build. An orphaned path whose content returns to the one its entry records is
reported clean as well, and is not served until it is indexed again. The
repository promises nothing for either; `PROJECT.json` lists both.

### TopDocs, Spans, AstChunks

`TopDocs` starts from any ranking (scores fall, the order inside a score is
arbitrary, several documents may come down to one range, any ranges may fail
verification) and runs the probing loop and the assembly of the answer.
`CompleteTie` is the contract of the loop; `AnswerIdealToBoundary` compares the
answer with that of a search that looked at everything, for all results that
score at least the boundary score; `OrderingAuthoritativeIfEnoughSurvive` says
when this is the whole answer: when no fewer results than asked for are left at
or above the boundary, once skipped hits and duplicates are gone (`tail_order`
shows what happens otherwise). `Termination` says every search ends. The answer
is sorted by `Sorted`, the one sequence of a set of hits in the order of
`Before`.

`Spans` cuts a file of any token distribution into windows, then locates and
tightens each. `SpanShowsBestLine` compares the recursive scan of
`find_best_matching_line` with its definition (first line with most tokens,
nothing if no token occurs) and states that the range contains that line and
lies in the file; `SpansDistinct` that two windows never come down to one range,
so that de-duplication never drops a hit of a line-window index.

`AstChunks` starts from definition nodes in source order, which may share a
line. `ChunksPartition` is the doc comment of `extract_ast_chunks` ("covering
the entire file (1..total_lines) with no overlaps and no gaps");
`DefinitionsStayWhole` says that a definition that fits and shares no first line
with its predecessor becomes one chunk.

### B4Holdout and PanelLedger

`author` is the author state (how many panels are done and the cursors into the
catalog); `plans`, `checkpoints`, `locks`, `derived` and `clones` are the files
and clones of each panel, `frozen` the number of outputs of the freeze that
exist, `step` and `rejected` the place of the running command. The catalog is
fixed, so that a candidate plan is determined by the cursors it starts from, and
everything derived from the selected candidates is kept as that selection.

*prepare* is `StartPrepare` (the replay of the completed panels), then for each
panel `WritePlan`, `RejectCandidate`/`AcceptCandidate` for one candidate of one
slot after the other (`NoneAdmitted` when the list ends), `WriteManifests`, three
`WriteDerived` (completion, query report, binding), `RemoveClone` for each clone
that was not selected, and `CommitPanel`. Every file but the author state is
written once or compared with what is there. *freeze* is `StartFreeze` and a
`WriteFreezeOutput` per file. `CommandFails` ends a command between any two of
these, by death or by an exception.

- `AuthoringResumable`: wherever a run stopped, the next one gets past every
  comparison with what is on disk. It relates all files of all panels to the
  cursors, after any number of interrupted runs.
- `PanelsAreLedger`: the completed panels implement `PanelLedger`. Each selection
  lies beyond all earlier ones of its slot - hence the panels are disjoint - and
  a committed panel never changes.

What the author's gates look at inside a repository is a nondeterministic
rejection. A clone killed half-way is one that is there and is rejected later.
Runtime, history and exclusion inputs are fixed. One command runs at a time.

### B4Attempt and OneShot

A command is a process: `cmd` says which one runs (`run`; `failing` and
`succeeded` are its exception handler; `closeout`; `reset`), `ctl` where it is.
`observer` is the state of the boundary observer, `child` the panel child,
`launcher` that of the shell script. The other variables are files: `started`
(the launcher's receipts), `admission`, `release`, `runsMade` and `envelopes`
(the run directory), `entries` (observations; `synced` are those that survive a
power loss), `outcomes` (outcome reports), `boundary` (the attempt-boundary
receipt), `public` and `terminal`. `observed` only records history.

The worker is `StartRun` (or `RefuseRun`, when one of its validations fails),
`WriteEnvelope` per panel, `Admit`, `SeeRelease` or
`ReleaseTimeout`, then `StartChild` and `ReapChild` per panel, `JoinObserver` or
`JoinTimeout`, `Reconcile`, `Score`, `Publish`, `WriteTerminal`. `Raise` is an
exception: inside the `try` block of `run_formal_replication` it leads to
`Handle`, which keeps a public success or goes to `Reconcile` and publishes a
failure; outside it ends the process. `closeout_interrupted_failure` enters at
`Reconcile`. `_write_json_exclusive` is two steps wherever two threads may be in
it (`ObserverCheck`/`ObserverReplace`, `CheckReceipt`/`ReplaceReceipt`): the last
look at the target, and `os.replace`, which overwrites what has appeared since.
The reset is `StartReset` with all its refusals, `RemoveTree`, `RemoveAdmission`,
`RemoveReceipts`.

Faults, at most `MaxFaults`: `IOError` in any step of the worker, `SyncError`
after the last write, `ObserverError`, `Crash` of the running command,
`PowerLoss`, which may take any set of observations nobody has synced. Timeouts
(release, observer join, launcher gate) and the death of the launcher are not
counted: they may happen at any time.

Properties:

- `AttemptIsOneShot`: the attempt implements `OneShot`. It is released at most
  once, only a released worker that still runs makes the first observation or
  publishes a success, an attempt whose worker has stopped is over for good - no
  reset, relaunch or late release revives it - and a public verdict never changes.
- `ReceiptHasEvidence`: a boundary receipt has a synced observation.
- `ReceiptWrittenOnce`: an existing receipt is replaced only by, or under, an
  observer that has outlived its ten-second join.
- `SuccessIsComplete`, `TerminalAgrees`: a success stands on all reports and a
  receipt; the private terminal state never contradicts the public closeout. It
  may be missing for ever: a worker that cannot write it goes on without it, and
  the closeout refuses once something is public. Nothing in the repository says
  otherwise, so that no property does; that such an attempt stays closed is
  `AttemptIsOneShot`.
- `CloseoutCoversEvidence`: a public failure names the boundary as the receipt
  has it and no observation is on disk that it does not count.
- `ReleasedCloses`, `EvidenceReceipted` (liveness): a released attempt is closed
  in public in the end; an observation gets its receipt, unless a power loss
  takes it back.

Abstractions. The first lexical-existence check of `_write_json_exclusive` is
merged with the second (its result is the same or an earlier error). Observations
are whole or absent: a torn file is not modelled. The receipt and the closeouts
are durable once written (they are written with fsync); removing the run
directory is one step. Of the public failure only the flag and the count are kept,
not its class; the private analysis file is left out. One launcher runs at a
time, and a recovery command starts only when no worker runs: this is what the
confirmation of the PID identity is for. The PID file names the shell and not the
Python process under it; `PROJECT.json` lists that as a hazard no property covers.

### B4Control

`B4Control` extends both and adds the files between them: `PublishReadiness`,
`BindReadiness` (two writes, possibly of two runs), `AuthorizeLaunch`, and the
two places where the attempt looks at them. `run_formal_replication` validates the
frozen holdout, the bound readiness and the authorization before it does anything
(`RunAdmitted`: `StartRun` needs it, and `RefuseRun` needs it to fail, or a launch
state to exist); `closeout_interrupted_failure` loads the freeze and the
authorization (`CloseoutAdmitted`). Nothing else looks at them: a launch, the
launcher's receipts, its giving up and a reset may come at any time, in the middle
of the authoring too. `RunAdmitted` is checked in one step although the code reads
file by file, because each of its parts stays true once it is. That the checkout
is at the authorized commit is taken as given.

`AttemptUsesFrozenHoldout` is the property of the composition: however early a
launch comes, from the moment a worker has made its runs directory (or a
closeout has published) the holdout is frozen, its readiness bound and the launch
authorized, and no command writes any of them again.

## Runs

| Run | Instance | Shows |
|---|---|---|
| `index_crash` | 2 paths, 2 texts, 1 non-UTF-8 content, 1 policy, 1 strategy, 3 edits, 1 abort; no readers | the properties of the index under edits and crashes |
| `index_readers` | 1 path, 2 texts, 2 policies, 2 strategies, 2 edits, 1 abort; readers | the properties of readers |
| `top_docs` | up to 5 hits, 1 more document, 3 scores, 3 cells, up to 2 results | the loop and the answer |
| `spans` | up to 8 lines, up to 2 tokens a line; windows of 3, context 1, span 3 | windows and ranges |
| `ast_chunks` | up to 7 lines, up to 4 nodes, `max_lines` 2 | the chunk pipeline |
| `b4_control` | 2 panels of 2 observations, 2 slots with 3 and 2 candidates, 3 faults | all of `B4Holdout`, `B4Attempt` and `B4Control` together |
| `dirty_loop`, `duplicate_docs`, `stale_policy`, `tail_order`, `b4_freeze_resume`, `b4_orphan` | the smallest instance that shows it | a statement of the repository that the code does not keep |

Bounds. Every decision about a file depends on that file alone, and two paths
are enough for one to be settled while the other is disturbed. Three edits put
one before the scan, one between scan and plan and one between plan and
indexing, or change and revert a file around a crash; one abort reaches every
torn state, and for the invariants proved below the proofs, which have no bound,
cover what more crashes could add. Two policies and two strategies let a rebuild change them under a
reader. In `top_docs` a target of 4 hits (2 results) is below, at and above the
number of hits, and the probe doubles past it. In `spans` the constants keep the
code's relations (window longer than twice the context, span longer than twice
the context), and eight lines are three windows with a short last one. In
`ast_chunks` seven lines give oversized nodes of one, two and three pieces,
whole or short last pieces, and nodes that share a line on either side. In
`b4_control` two panels are one done and one in work, for authoring and attempt;
three candidates leave room for a rejection in one slot, two leave none in the
other, so that a depleted list is reached; two observations let a panel be
incomplete. Launches and resets are not bounded. Three faults interrupt the
worker, its closeout and a second closeout, or the authoring, the freeze and the
attempt. The proofs have no such bounds.

Symmetry (paths, texts, policies, strategies) is used in the two large runs only,
which check safety properties. `index_crash` and `index_readers` check
deadlock: an idle index can always be purged or built. `b4_control` does not:
a holdout whose catalog is exhausted, or whose freeze was interrupted, really
cannot go on (see `b4_freeze_resume`). `top_docs` and `spans`
end, hence `CHECK_DEADLOCK FALSE`, and `top_docs` checks with `Termination` that
they end where they should; `ast_chunks` has an explicit final stutter and checks deadlock, so
that a file on which the pipeline got stuck would be reported.

Fairness. `TopDocs` assumes weak fairness of its next-state relation,
because the loop is one thread that nothing blocks. `B4Attempt` assumes weak
fairness of the worker, of the panel child, of the observer thread and of a reset
that has begun. The launcher-side waits are bounded by deadlines in the code; the
worker's wait for the panel child is not, but the child ends, because every
adapter command and every request it waits for has a timeout of its own. It also
assumes that the operator closes out a released attempt whose worker
has stopped without a public closeout, which is what the recovery command is
documented for. No launch, release or reset has to happen. The index commands are
started by people and may die, so that nothing has to happen; the properties
about them are safety properties.

### What the code does not keep

- `dirty_loop`: `dirty_index` reports a changed, still unindexable file "so
  update_index can refresh the manifest entry's SHA / skipped_reason"; the
  `read_error` branch of the update does not touch the hash, so the file is
  dirty forever.
- `duplicate_docs`: "prevent duplicates" holds for modified paths only. An
  update that dies between commit and manifest makes the next one add the same
  file again. (The error text of that very step asks the caller to re-run the
  update or to rebuild; only a rebuild repairs it.)
- `stale_policy`: the gate reads the manifest; a build under another policy that
  died before its manifest leaves an old manifest that passes the gate over
  documents of that other policy. The evidence is still compared with the file.
- `tail_order`: below the boundary score the collector's last tie may be cut by
  document address, and that decides the answer when hits above are skipped.

- `b4_freeze_resume`: every output of `freeze_holdout` is written "exclusive or
  equal", so that an interrupted freeze could be completed, but its first lines
  refuse as soon as the first of them exists.
- `b4_orphan`: a panel child that outlives its killed worker goes on to write
  observations after the closeout has counted them, while the documentation
  promises an exact count. `CloseoutCoversEvidence` holds when the child dies
  with the worker (`Orphans = FALSE`, as in `b4_control`).

These are stated in `PROJECT.json` with the lines they contradict.
`UpdateSettlesOrdinaryFiles`, `ManifestAndDocsAgree`, `SettledReadersKeepPolicy`
and `AnswerIdealToBoundary` say exactly how far the promise holds in each case.

One more thing a reader of the code should know, which is no property because it
would restate a constant: `update --path` on a file with nothing to do reports
`post_status_clean: true` without looking at any other file.

## Proofs

All proofs are checked by TLAPS with no assumption but those in the modules:
`ContentsAssumption` (the classes of contents are disjoint), `BoundsAssumption`,
`SpanConstants` (true of 30, 2 and 7), `ChunkConstants`, `TopDocsBounds`, and for
B4 `PanelCountAssumption`, `MaxFaultsAssumption`, `CellsAssumption` (finitely many
observations per panel), `SlotsAssumption`, `CandidateCountAssumption`.

- `PersistentIndex_proofs`. `ManifestAndDocsAgree` is not inductive: it says
  nothing of what a command has prepared when it comes to write. `IndInv` adds
  that what is left to do fits what is prepared (`PlanFits`: a path to add has
  no entry yet - this is why adding without deleting is safe until a crash), the
  relation of the control state to the disk (`ControlFits`), that the two halves
  a command prepares agree before they are written (`PreparedAgrees`, for an
  update as long as the halves it started from did) and that the documents a
  settled handle holds are of its policy (`SettledHandle`). `Inductive` proves
  it action by action; `Agreement`, `SettledPolicy`, `TypeCorrect` follow, and
  `CleanServes`: with clean, no path is deleted, added or modified, so that a
  text file's entry is indexed under its present hash, and its documents are the
  entry's. `CleanIsValid` needs the types only.
  `UpdatesSettle` is the action property: by `UpdateSettles`, while an
  undisturbed update is under way each path is settled (`SettledPath`: its entry
  answers to the file, or it is one of the named exceptions) or still in the
  plan, so that nothing but the exceptions is dirty when the plan is empty.
- `TopDocs_proofs`: `TieIsComplete`. The limit is never below the target, the
  collection is a prefix of the ranking, and when the loop ends at a strict
  drop everything beyond the prefix scores below the boundary. `AnswerInv` adds
  that the answer is made of the collection alone. For `IdealToBoundary` one
  lemma says that a set of hits, one per cell, has a sorted sequence
  (`SortedIsSorted`: counting what comes before each hit is a bijection onto the
  places), another that a hit stands in it after exactly those that come before
  it (`SortedPlaces`); above the boundary the wanted hits and the answered ones
  are the same (`WantedAnswered`, `AnsweredWanted`), so that their places are,
  too. `IdealIfEnoughSurvive` follows by counting. `ProbingRises` is the safety
  half of `Termination`: the limit rises strictly up to the size of the index.
- `Spans_proofs`: the windows partition the file (`Partition`), a range
  fits (`TightFits`) and tells lines apart (`TightTellsLinesApart`), for any
  constants that satisfy `SpanConstants`. `BestLineShown` is about a recursion
  over the lines of a window: `ScanExists` shows that it has a solution, hence is
  what the model defines, and `BestFound` that it finds the first line with most
  tokens. `SpansToldApart` adds that the windows before the last are full: with
  two windows the file is long enough to tell any two lines apart.
- `AstChunks_proofs`: `Partition`, from `ChunksInv`: what is collected lies in
  the file in pieces of at most `max_lines`, what is kept rises without overlap,
  and the next kept chunk does not start before the cursor. `WholeDefinitions`
  needs `WholeInv`: what is collected before a definition that stands alone ends
  before it, what is collected later starts no earlier (`CollectedWhole`), so
  that the stable sort leaves nothing before it that overlaps it
  (`AwaitedWhole`) and it is kept, then pushed.

- `B4Holdout_proofs`. `AuthoringResumable` is not inductive: it does not say
  where the command is. `HoldoutInv` adds the order of the phases (`Phases`), that
  earlier panels rise strictly and replay (`Completed`), that the files of the
  panel in work are those of its checkpoints and exist only once all slots have
  one, each derived file before the next (`InWork`), and that later panels are
  untouched (`ToCome`, needed when the commit makes one of them the panel in
  work). `AuthoringImplementsLedger` is the
  refinement: only the commit appends, only the last freeze output seals.
- `B4Attempt_proofs`. `AttemptInv` is a stack of five groups, each inductive over
  those before it: which command can be where (`Control`), nothing before the
  release (`Children`), an observer that outlives its join has a failing worker
  above it (`Threads`), whoever is about to write the receipt has synced an
  observation, and a handler that finds a receipt it did not expect has a live
  observer (`Receipts`), and the verdict keeps its evidence (`Verdict`: the
  failure published with no receipt is safe from a late receipt because a busy
  observer has synced an observation, which forbids that very branch). From it
  follow the safety properties, `ReceiptWrittenOnce`, and the refinement
  `AttemptImplementsOneShot`; `CloseoutsCoverEvidence` adds `Covered` and assumes
  that no child is orphaned.
- `B4Control_proofs`: both invariants hold in the composition (`ControlInvariant`),
  with all that follows from them (`ControlIsSafe`, `ControlImplements`,
  `ControlCoversEvidence`), and `AttemptsUseFrozenHoldout`, from `Gated`: frozen
  after the last panel, bound and authorized after the freeze, and of an attempt
  that is not authorized nothing but the launcher's receipts, the worker's start
  and a reset (`AttemptGated`, action by action: the places of a worker past its
  validations, a panel child and a launcher about to release are all reached
  through `StartRun`).

Inductions over data are first-order: the library's induction theorems take an
operator as a parameter, which the provers cannot instantiate, so that
`ScanExists` and `BestFound` argue by least counterexample instead. The set of
numbers for which the statement fails would have a least element
(`LeastElement`, from the well-foundedness of the naturals), which one step of
the recursion refutes.

Model-checked only: `ReleasedCloses`, `EvidenceReceipted` and `Termination`.
They are liveness properties under fairness, which the prover cannot reason
about. Every other property of a passing run is a theorem.

## Not modelled

Parsing (tree-sitter), scoring and storage (Tantivy), glob and ignore-file
matching, path-safety preflights beyond their outcome, output formatting. The
store adapters, derived views, rank fusion, providers, graph and context are not
modelled; `PROJECT.json` gives the reason for each.

Nearly all of the repository's text is its more than 500 Python programs in
`eval/` and `scripts/`. Almost every one is a single sequential run: it reads
recorded artifacts, computes a report, compares it with thresholds and writes it
once. They share no state, wait for nothing and have no state between two runs;
what could be said about them is that a given field of a given report has a given
value, which their own self-tests say. The exception is the B4 control, the only
one that coordinates processes and survives restarts; earlier generations of the
same experiment (B2, B2.1, B3) appear where B4 calls them. So the models cover a
small share of the Python lines, and a larger share would have to be made of
models without behaviour.

## Plan

1. done: `IndexOps`, `PersistentIndex`, `TopDocs`, `Spans`, `AstChunks` and their
   proofs.
2. done: `B4Holdout`, `B4Attempt`, `B4Control`, their abstract specifications
   `PanelLedger` and `OneShot`, and the proofs of all their safety properties and
   both refinements.
3. done: the proofs about what the algorithms compute (`TopDocs`, `Spans`,
   `AstChunks`) and of `UpdateSettlesOrdinaryFiles`.
4. Modules left, each for a hazard in `PROJECT.json` that no property covers:
   `ConcurrentUpdate` (two updates, the manifest loaded before the Tantivy writer
   lock, composed from `IndexOps`), `DerivedStore` (upsert and purge with another
   writer or a crash between read and rewrite), `ReadEvidence` (the two reads of
   `read_file`), `SearchFallback` (the fallback chain of the conservative store).
