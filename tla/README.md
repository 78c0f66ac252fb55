# zec-ironwood-reconcile: specifications

TLA+ models, TLC configurations and TLAPS proofs for `zec-ironwood-reconcile`.
The program captures the evidence for a height interval of the Zcash chain from
a node (`capture`), and later reconciles the Orchard and Ironwood pool balances
from that evidence alone (`reconcile`, `verify`, `inspect`).  Paths below are
relative to the repository.

## The system

| Component | State it keeps | Operations | Hard behaviour |
|---|---|---|---|
| Capture session (`src/capture/run.rs`, `fetch.rs`, `plan.rs`, `guard.rs`, `src/commands/capture.rs`) | the request, what was read from the node, the entries recorded for the manifest | preflight, open, anchor, one fetch or adoption per height, closing re-read, metadata, manifest | the chain moves between requests; a session can die between any two writes; sessions follow each other in one directory |
| Bundle writer (`src/capture/writer.rs`) | the directory: final names and `.partial` names | open in three modes, remove an old bundle, write atomically, adopt, record, finish | partial removal, leftovers, a manifest older than the files under it |
| Bundle layout and manifest (`src/evidence/layout.rs`, `manifest.rs`, `src/domain/height.rs`) | none (values) | paths, file list, structure checks | interval bounds |
| Bundle validation (`src/evidence/validation.rs`) | none | digest of the manifest, listed files, unlisted files | what only warns |
| Offline verification (`src/commands/reconcile.rs`, `verify.rs`, `src/reconcile/binding.rs`, `continuity.rs`) | the position of the walk, the first error | validate, anchor, heights, links, report | which mistake is an error, a failed check or a warning |
| Interval accounting (`src/reconcile/interval.rs`, `ledger.rs`, `src/domain/zatoshi.rs`) | running balances | accumulate, narrow, compare, first divergence | overflow, absent balances |
| Checks (`src/checks/`) | the registry | record, overall status, canonical order | not-applicable against pass; activation boundary |
| RPC transport (`src/rpc/client.rs`, `dto.rs`) | time of the last request | pace, attempt, retry, decode | retries across a reorganisation, answers that come late, pacing |
| Pool states (`src/evidence/pool_state_file.rs`, `src/domain/pool_state.rs`) | none (values) | project a response, parse a stored file, require balances | nodes that list pools in other orders, twice, or without a figure |
| Archive (`src/evidence/archive/`, `src/commands/verify.rs`) | the archive file and its digest, the extraction directory | refuse, pack, extract, compare hashes | limits met exactly, a digest older than its archive, lost writes |
| Reports (`src/report/`, `reconcile` in `src/commands/`) | the three files of a bundle's folder of reports | rows, summary, rendering, digest | a folder left half written; what a shortened rendering shows |
| Command line (`src/cli/`, `src/commands/`, `src/rpc/auth.rs`, `src/error.rs`) | none | resolve the request, the credentials and the endpoint; exit code | which of several mistakes is reported, and before which request |
| The node (external) | its chain and tip | answers | reorganisations; empty pool values during an upgrade |

The components interact by calls within one process; the directory is what
sessions share, and what `capture` hands to `reconcile`.  There are no threads.
Concurrency comes from the node, whose chain moves between two requests, and
from the operator, who runs the command again after an interruption.

What makes each correct:

- *capture and writer*: a final name is a complete file; the manifest describes
  what is there; a session that succeeds leaves exactly its interval, pinned;
  sessions that cannot succeed destroy nothing; resuming loses nothing, mixes
  nothing and eventually finishes; the evidence is one chain.
- *verification*: what it accepts is one chain whose records describe their
  blocks; it accepts what a capture of one chain produces.
- *accounting*: no balance is wrapped; the end balance is the anchor's plus all
  deltas; the first divergence is the first.
- *checks*: a failure is never hidden by a warning or a pass; checks that do not
  apply are not passes.
- *transport*: requests are paced, across calls and retries; a call ends; a
  failure has used up its attempts; an answer is what the node held during the call.
- *pool states and reports*: what is stored is what the node said; two operators who
  capture one block store the same evidence and compute the same report; what
  the report leads with is what its verdict rests on.
- *command line*: a mistake of the operator is found before the node is asked
  anything; the exit code blames the right side; what is captured can be decoded offline.
- *archive*: the digest beside an archive is the archive's; nothing published is
  replaced unasked; extraction stays within its limits and restores what was
  packed; a reproduction that succeeds is of the whole archive.

## Modules

| Module | Models |
|---|---|
| `Blockchain` | blocks, heights and branches; hash chaining as an assumption |
| `Node` | the node: `GrowTip`, `Reorg` (external, modelled from how `capture` uses it) |
| `Bundle` | bundle layout, contents per path, the manifest |
| `Validation` | `validate_bundle`; what a *sealed* bundle is, and one of a single chain |
| `Capture` | the capture command, one action per step, over any sequence of sessions |
| `CaptureSafety` | its properties |
| `Verify` | the offline walk, and its properties |
| `Accounting` | the reconstruction: deltas, block sums, running balances, narrowing |
| `Judgement` | the checks recorded about it, and the verdict |
| `JudgementSafety` | what the verdict means, against sums over the whole interval |
| `Archive` | `capture --archive` and `verify` on one archive path |
| `ArchiveSafety` | its properties |
| `Reports` | the report of a completed judgement, and what its rendering shows |
| `Transport` | `HttpTransport::call`: limiter, attempts, pauses, timeout |
| `RemoteRead` | what a caller of it relies on: one read of the node per call |
| `Invocation` | `capture` from its arguments to the first write, with exit codes |
| `PoolStateFile` | from a `getblock` response to the pool-state file and back |
| `Lists` | a list filtered in its order |
| `ManifestFile` | how the manifest's list is built, what a reader requires of it |
| `EvidenceFiles` | operators who capture and reconcile one block, over the two above |
| `MCChain`, `MCCapture`, `MCVerify`, `MCAccounting`, `MCArchive`, `MCInvocation`, `MCEvidenceFiles` | small instances |
| `CaptureProofs`, `VerifyProofs`, `AccountingProofs`, `ArchiveProofs`, `TransportProofs`, `InvocationProofs`, `EvidenceFilesProofs` | theorems |
| `Folding` | lemmas on the folds and sums of the community modules, used by the four that speak of lists and totals |

`Capture` composes `Node` (the chain and tip are its variables) with the
directory of `Bundle`; `Verify` reads a directory of the same kind.
`SealedOneChain` in `Validation` is the interface between the two: `SuccessIsVerifiable` says
that a capture that succeeds establishes it, `SealedChainPasses` that
verification passes it without a warning.  `AnswersAreReads` in `Transport` is the interface
below `Capture`: it justifies that a request there is one atomic step, or an
interruption.  `Invocation` ends where `Open` of `Capture` begins.  `Reports`
extends `Judgement` by what is made of its verdict.

### Capture

A session is one execution of the command; `pc` is the step it is at.  Each
request to the node and each operation on the file system that others can
observe is a step of its own.

| Action | Code |
|---|---|
| `Start` | `commands::capture::capture`, up to `run::run` |
| `Preflight`, `Probe` | `plan::preflight`: tip distance, then the anchor's pool state |
| `Open`, `ClearOne`, `Cleared` | `BundleWriter::open`, `ensure_no_blocks_outside`, `clear_existing_bundle` with `remove_dir_all` entry by entry |
| `CreatePartial`, `FillAndSync`, `Publish*` | `write_atomically`: create, fill and `sync_all`, rename, then `record` |
| `AdoptAnchor`, `FetchAnchor` | `write_anchor` |
| `AdoptHeight`, `FetchBlock`, `FetchObject` | `fetch::height`: adopt both files, or two requests and two writes |
| `Recheck` | the closing re-read and `check_end_block_unchanged` |
| `PublishManifest`, `PublishDigest` | `BundleWriter::finish` |
| `Interrupt` | any error returned by the node or the file system, and the death of the process |

`disk` and `partial` map every path to what is under its final and its
`.partial` name; `Torn` is a file not completely written.  `mem` holds what the
session has read and `recorded` what the manifest will list.  An error and a
crash leave the same directory, so both are `Interrupt`.  A digest is the
content it is computed from: equal digests mean equal contents.

Abstractions.  A block is a value with a height and a parent.  A pool record is
the block it names and whether both balances are there; capturing a height of a
chain twice gives the same record, since `pool_state_file::project` keeps only
fields that describe the block.  Files whose content depends on the time
(`node-info.json`, the two `blockchain-info` files,
`capture-environment.json`) hold a `Stamp`.  A session that meets a malformed
answer, another network or another activation height ends before the directory
is opened or as an interruption.  The process may die; the machine does not
lose what it has synced, nor the order of its renames (there is no directory
fsync in the code).  Folders as such are not modelled: one left empty by an
interruption makes `--output` non-empty to the program and empty to the model,
which matters only to refusals of `create` and `--overwrite`.  One session runs
at a time.

### Verify

`phase` follows `reconcile_with_manifest`: `Validate`, `ReadAnchor`, one
`ReadHeight` per height, one `Link` per link, `Report`.  The verdict is the first
error, or the overall status of the checks: *failed*, *warned* or *passed*.  A
missing `manifest.sha256` is a validation warning that no check records, so it
changes no verdict; unlisted files make it *warned*.  The accounting over the
blocks is not part of this module: it can turn a pass into a failure, so
`AcceptedIsOneChain` does not depend on it and `SealedChainPasses` speaks of the
rest.

### Accounting and Judgement

These two modules follow the same command for the amounts that `Verify` leaves
out.  What `Verify` finds about the directory (`linked`, `anchorBlock`,
`unlisted`) is part of the evidence here.

| Action | Code |
|---|---|
| `ReadAnchor`, `ReadBlock` | `pool_state_file::parse`, `parse_block` with `extract_delta` and `value_balance` |
| `SumTransaction`, `CloseBlock` | `Zatoshi::try_sum` one addition at a time, `BlockLedger::from_parsed` |
| `RequireAnchor` | `require_balance` on the anchor's record |
| `Accumulate` | one height of `reconcile_interval`, with `narrow` |
| `NarrowTotals` | its last lines |
| `Judge` | the checks of `structural`, `activation`, `accounting`, `record_manifest_agreement`, and `overall_status` |

A verdict that is neither *failed*, *warned* nor *passed* is the error that ended
the run: *unsupported* (undecodable), *foreign* (another branch),
*unrepresentable* (a figure or sum out of range) or *incomplete* (no anchor
balance).  `Accepted` holds the verdicts with exit code 0.

Abstractions.  A transaction is the value balance of each pool and whether its
branch identifier is the expected one; the library refuses a value balance
outside the money range while it decodes, so that comes before any
comparison.  The sum over a block is 64 bits wide (`Long`) and checked; the
accumulators of `reconcile_interval` are 128 bits wide and hold at most 2^32
such sums, so they cannot overflow and are integers.  `Absent` stands for a
figure the node left out.  The registry is a set: order does not enter the
overall status.  Checks that only state what reading has already enforced are
recorded as passes, as the code does.

What can be absent matters.  `Agreement` has three outcomes, and a figure that
was not reported neither agrees nor differs.  At the end height an absent
balance fails a check, at the anchor it is an error; in between nothing notices
(`ACCOUNTING_MODEL.md:220` says that a pass needs every per-height comparison to
agree).

`Reports` adds no step: a report is a function of the judged state.  `Row`,
`Summary`, `BuiltReport` follow `src/report/builder.rs`, `RenderedRows` the
shortening of `render_per_height`.  `MaxRows` is 1, so every interval of two
heights is shortened: with two diverging heights the rendering shows the first
alone, although `markdown.rs:14` says that diverging heights are always shown.

`ValidIntervalPasses` assumes that the sums over the first transactions of a block fit 64
bits, which the size of a block sees to (`Fits`), and that the gross flows of the interval do not exceed
the money supply.  `ACCOUNTING_MODEL.md` reports flows without asserting
anything of them, but `reconcile_interval` narrows them to the money range,
so a long interval over which more than the supply passes through a
pool is refused although every balance is right.

### Archive

Captures and verifications follow each other on one archive path; `pc` is what
the running command is doing.

| Action | Code |
|---|---|
| `CaptureTo` | `refuse_existing_archive`, before the node is read |
| `Captured` | `run::run`, as in `Capture`: some finished bundle |
| `CreateArchive`, `AppendEntry`, `FinishArchive` | `pack`: the paths collected and the file created, one sorted entry at a time, the encoder finished |
| `WriteDigest` | the digest computed from the file and written beside it |
| `Die` | any error up to there, or the death of the process |
| `Verify`, `ExtractEntry`, `EndOfArchive` | `verify_archive` and `extract`: each entry refused, skipped or written |
| `Judge` | reconciliation, `hash_matches`, the exit code |

An archive is a sequence of entries and whether the stream is cut short.  A
digest is the archive it is computed from, a report hash the evidence it is
computed from, a content its size.  What is on disk of an archive that is not
finished is any beginning of it, since the encoder writes through a buffer.
`pack` drops that buffer after `finish()` without flushing it, so
`FinishArchive` may lose the end unnoticed (`archive_unflushed`).  The
conditions on paths and entry types are the entry's `kind`.  Declared sizes
within the limits cannot overflow the counters.  Which directories
reconcile, and how, is the subject of `Verify` and `Judgement`: here `Passing`
and `Failing` are any two disjoint sets, and what is in neither ends in an
error.  `rejected` and `unusable` stand for several exit codes each.  The temporary
extraction directory is kept in `extracted` after the command, only to state
properties about it.

### Transport

One blocking call at a time; `pc` is where it stands.

| Action | Code |
|---|---|
| `Call`, `Resume` | the loop of `call`: `RateLimiter::wait` computes what it sleeps |
| `Send` | `last_request` is set, the request goes out |
| `Accept` | status, size and JSON-RPC envelope accepted, the result returned |
| `AttemptFails` (`Retry`, `GiveUp`) | `Attempt::retryable`, the pause of `RETRY_BACKOFF * attempt`, `final_failure` |
| `TimeOut` | the global timeout of the exchange |
| `Tick` | time, for the sleeping thread and the limiter |
| `Serve`, `Move` (external) | something comes back, or nothing ever does; the chain moves |

Time is counted in ticks up to `Horizon`, beyond which no duration is told
apart.  `Views` are the states of the node.  What comes back is one of five kinds
of answer; bytes, header fields and the wording of errors are left out.  `gap` and
`sent` are history: the code has only `last_request` and the attempt number, and the
properties compare these with what really went out.  A rate above 1000 per
second gives an interval of zero (`client.rs:64`), which `Interval \in Nat` includes.

`RemoteRead` is the abstract specification: a call asks, looks at the node,
may forget what it saw, and returns what it saw or fails.  `Contract` maps a
successful reply that has come back to what was looked at.  Every step of
`Transport` is a step of `RemoteRead` or a stutter (`AnswersAreReads`), so a retry
never hands over what an abandoned attempt was answered: requests are told apart by
their connection, since all carry one identifier (`dto.rs:19`).

Fairness (`FairSpec`).  Time passes, and a thread that may run is scheduled.  Of
the node nothing is assumed, nor that the caller calls again: `CallReturns` rests on
the timeout alone.

### Invocation

One behaviour is one invocation; `args` and `world` are what the operator asked
for and what machine and node hold.  Each step of `commands::capture::capture` and
`plan::preflight` is an action that makes its checks in the order of the code
(`FirstError`) and ends with the first that fails; the three requests may also
fail for themselves.

| Action | Code |
|---|---|
| `BuildRequest` | `HeightInterval::new`, `validate_interval_size` |
| `ResolveCredentials` | `Authentication::resolve`, cookies included |
| `OpenTransport` | `HttpTransport::new`: endpoint, rate, the warning about clear text |
| `RefuseArchive` | `refuse_existing_archive` |
| `GetInfo`, `GetBlockchainInfo` | `verify_network`, `verify_activation`, `check_tip_distance` of `guard.rs` |
| `ProbeAnchor` | the anchor's record, the advisories of the interval |

`ExitCode` is `src/cli/exit.rs` over all stable identifiers.  An upgrade table maps branches,
numbered in the order of upgrades, to heights.  `MaxHeight` is the width of a height.

### PoolStateFile, ManifestFile, EvidenceFiles

`PoolStateFile` holds operators: `Project` (the allow-list), `Unreadable` and
`Stated` (the parser; of two entries for one pool the last that states a figure
counts), `Usable` (what capture requires).  `ManifestFile` likewise: `AddFile`,
`RecordFile`, `Build`, `Loads` (`validate_structure`), `Validates`
(`validate_bundle`), `EvidenceComplete` (`inspect`).  A path is its rank in the order of
strings, or one of `UnsafePaths`; a digest is the content it is computed from.

`EvidenceFiles` runs them: every operator has a node and a directory of its
own, captures one height, resumes after interruptions, finishes, reconciles, and writes the three
report files one after the other, in place, each of which an interruption may tear.
The steps of a capture are coarser than in `Capture`, which has the
interleavings; here the contents are looked into.  The actions are named after
the code: `WriteNodeInfo`, `FetchHeight`, `AdoptHeight`, `Finish`, `Reconcile`,
`WriteReport`.  A report is its inputs, so equal reports mean equal bytes.

`GeneratedPaths` are the three names of `layout.rs`: `EVIDENCE_FORMAT.md` exempts
everything under `reports/` from the list of evidence, the code these names only.

`ValidatedIsFinished` compares every bundle just finished with what one change makes of it:
an entry dropped, doubled, exchanged or edited, another field of the manifest, a file
dropped or altered, and any pair of these.

## Model checking

| Run | Instance | Shows |
|---|---|---|
| `capture_sessions` | intervals 2..2 and 1..2, every mode, two stamps, a tip that may be too low at first, one interruption | `SuccessIsSealed`, `SuccessIsClean`, `DoomedSessionTouchesNothing`, `TypeOK` |
| `capture_reorg` | one height, two chains that part below the anchor, a reorganisation, two interruptions | `CompleteNames`, `RecordedIsPresent`, `ResumeKeepsEvidence` |
| `capture_shallow` | two heights, three chains, two reorganisations no deeper than the tip distance, two interruptions, fairness | `StoredIsSettled`, `SuccessIsVerifiable`, `ResumeConverges` |
| `verify_directories` | an interval of two heights, two branches, about four thousand directories | `AcceptedIsOneChain`, `SealedChainPasses` |
| `accounting` | intervals 1..1, 2..2 and 1..2 with activation at 2, up to two transactions a block, about eight thousand evidences | `BalancesAreExact`, `AcceptedIsAccounted`, `AxesDivergeTogether`, `PoolsFollowActivation`, `ValidIntervalPasses`, `ReportTellsVerdict`, `TypeOK` |
| `archive` | three paths, files of one to three bytes, limits of four bytes, two entries and depth two, six bundles, 375 initial states (any archive of up to three entries, cut short or not, or none), two faults | `NothingReplacedUnasked`, `DigestIsOfArchive`, `ReproducedIsWhole`, `ExtractionIsBounded`, `PackedIsReproduced`, `TypeOK` |
| `transport` | three attempts, an interval of 3 ticks, pauses of 2 and 4, a timeout of 2, two views, fairness | `Paced`, `GivesUpHonestly`, `AnswersAreReads`, `CallReturns`, `TypeOK` |
| `invocation` | four groups of arguments and circumstances varied together, heights up to 7, intervals up to 3, two networks, three upgrades | `MistakesCostNoRequest`, `CredentialsAsNamed`, `ExitBlamesRight`, `CapturedIsDecodable`, `AdvisoryIsTrue` |
| `evidence_files` | two operators, one height, 24 answers of sound, faulty and stray nodes, any number of interruptions | `IndependentCapturesAgree`, `ReportsAgree`, `StoredIsWhatWasSaid`, `ManifestListsBundle`, `ValidatedIsFinished` |

Bounds.  `MaxTip` bounds the chain, `MaxFaults` interruptions, `MaxReorgs`
reorganisations.  Two heights are the least at which a first, a last and a
neighbouring block differ; two nested intervals make every relation between an
earlier and a later request occur.  Two interruptions let a session continue
what an interrupted continuation left behind; a record without balances counts
on an interruption to come, so it is offered only while one remains.  Chain *n*
of `MCChain` leaves the trunk at height *n*, which places the reorganisation
below, at or above the anchor as the run needs.  The bounds are shortcuts of
TLC, not of the proofs.

`accounting` sets `MaxMoney` to 2 and `MaxLong` to 3: two transactions can exceed
the money range and, by one, the 64-bit range, and a balance can fall below
zero.  The three intervals put the boundary before activation at the anchor,
inside the interval and at its end.  The evidences are: every pair of blocks that
touches one pool, or both, as an honest node reports it; the same blocks with every
choice of balances of the node's own; and three honest evidences with each
field in turn wrong, absent or out of range.

`archive` lets bundles and archives meet every limit exactly, and exceed each by
one; two faults are an interrupted or truncated packing and another one over it.

`transport` has an interval shorter than one pause and longer than another, and a
timeout shorter than the interval, so that both waits of a retry and both orders of
timeout and answer occur.  `invocation` varies the arguments of one group together
and leaves the others valid: mistakes of different groups never
occur together, but every two of one group do, and the order of the groups is fixed by the
control.  In `evidence_files` the second moment is asked of one sound answer
only: what depends on the moment does not depend on the pools.

`SuccessIsClean` holds with an overwrite and one interruption only
(`capture_sessions`).  Two break it: an interrupted overwrite removes one file of a
height, an interrupted resume that fetches the height again leaves a partial file, and the
next resume adopts the height and leaves it there, although `writer.rs:26` says that
the next attempt removes it.
`ResumeKeepsEvidence` is checked, and proved,
for create and resume: a directory thinned by an interrupted overwrite can hold a pool
record without its block, and its record is then rightly fetched again.

Fairness (`FairSpec`).  A session that can take a step takes one: the program
is sequential and blocks on nothing but the node, and a request that fails is an
interruption, of which there are finitely many.  The tip keeps growing.  The
operator comes back to each mode again and again: strong fairness, since between
visits a session may be running.

### Where the code and its documentation differ

Each of these runs checks one sentence of the repository and ends in a counterexample.

| Run | Sentence | What happens |
|---|---|---|
| `capture_unbound` | `binding.rs:14`: the capture path performs the equivalent check | block and pool state come from two requests that are never compared; verification catches it later |
| `capture_stuck` | `writer.rs:246`: `--overwrite` to replace the bundle or `--resume` to continue it | after a reorganisation of a stored block every mode is refused for ever |
| `archive_unflushed` | `args.rs:98`: the archive and its digest are what a third party needs to reproduce the result | an error of the last write is ignored: a truncated archive is published with the digest of its truncation |

`capture_unbound` produces bundles that `Verify` rejects (`Soundness`), so it
costs a capture, not a wrong verdict.  A reorganisation between two heights goes
unnoticed in the same way as one between two requests: the closing re-read
compares the end block only with itself.

Smaller differences, met while modelling and left without a run of their own:

- `writer.rs:11` calls a bundle with a manifest one whose capture finished; a
  resume into a finished bundle that is interrupted leaves rewritten files under the
  old manifest.  Validation notices.
- `writer.rs:91` says that resuming does not start a different capture; an interval
  that contains the old one adopts the old anchor.  Verification rejects the result.
- `ACCOUNTING_MODEL.md:220`, `markdown.rs:14` and `EVIDENCE_FORMAT.md`: see
  *Accounting and Judgement* and *EvidenceFiles* above.

## Proofs

All theorems hold for every set of chains, blocks, intervals and modes, every
tip distance and every bound that satisfies the named assumptions:
`ChainAssumption` (hash chaining), `NodeAssumption`, `IntervalAssumption`,
`SentinelAssumption`, `CaptureAssumption`, for verification
`DirectoriesAssumption` (a file that is there is readable as its kind), for an
invocation `CasesAssumption` and `ScheduleAssumption` (the compiled table knows every
upgrade up to Ironwood, in order), for the transport `AttemptsAssumption`, `DurationAssumption` and `ViewAssumption`,
for the amounts `MoneyAssumption`, `EvidenceAssumption` and `RowsAssumption`, and for the archive
`PathAssumption`, `SizeAssumption`, `LimitAssumption` and `ContentAssumption`.

- `CaptureProofs`: the inductive invariant `IInv` is `TypeOK`, `CompleteNames`,
  `RecordedIsPresent` and `StoredRecordsUsable`, strengthened by what the session
  has in memory at each step (`MemoryInv`), where its cursor is (`CursorInv`), that
  nothing is recorded before the directory is open (`OpeningInv`: otherwise
  removing files would falsify `RecordedIsPresent`), and that a synced partial
  file holds what the step has to write (`WriteInv`: otherwise a rename could publish
  a torn file).  One lemma per action.
  Of a session that succeeds: the files recorded so far are exactly those of the steps
  done (`ListedInv`) and the manifest written is the one its digest pins (`PinnedInv`), hence
  `SuccessSeals`.  Where no directory is overwritten, `KInv` says more: a height's record
  is written after its block (`OrderInv`), a partial file is left only beside what a
  resumed session writes again (`LeftoverInv`) and is gone once its file is recorded
  (`TidyInv`), and an open directory holds no height outside the interval
  (`HeldInv`).  It gives `SuccessLeavesNothingElse` and `ResumingKeepsEvidence` for any
  number of interruptions and resumes, of any intervals.
  Of the moving chain: `SafeTip` (after preflight the end height is far enough below
  the tip, and the tip never falls) gives `DoomedSessionsTouchNothing`; with `Shallow`,
  that is `MaxReorgDepth <= TipDistance`, the blocks stored and about to be stored
  are settled, so no reorganisation reaches them (`StoredStaysSettled`).  The anchor is
  settled in the same way when all captures into the directory start at one height
  (`SameStart`), and the end a manifest claims is the record stored there (`EndInv`): a
  finished capture is one chain, namely the node's (`SuccessMakesOneChain`).
  Without the first hypothesis the evidence of one height can already come from two
  chains (`capture_unbound`), without the second an interval can adopt another's
  anchor.
  `SuccessVerifies` puts these together: what a finished capture leaves is, where nothing is
  overwritten, what `Completeness` of `VerifyProofs` asks of a directory.  So whatever
  sessions it was pieced together from, the walk over it, elsewhere and later, ends without a warning.
- `VerifyProofs`: the invariant states what the walk has established below its
  position.  Induction along the chain is done by the walk itself: each `Link` step
  extends the agreement with one branch by a height, using hash chaining.
  `Soundness` and `Completeness` follow at the last step.
- `AccountingProofs`: from `MoneyAssumption` and `EvidenceAssumption`,
  `TypeCorrect` bounds every stored sum.  `StepInv` says that each reconstructed balance
  is the preceding one plus its block's delta; against a node whose deltas are
  differences of its balances this telescopes, so the two axes agree up to the
  same height (`AxesAreOneComparison`), for intervals of any length.  That a
  block's sum does not grow when none of its transactions does is carried along
  `SumTransaction`, so that the check per transaction bounds the block and the
  balance (`ActivationIsFollowed`).  `LedgerInv` and `TotalsInv` add what has
  been summed: of a block the sum of its first transactions, of the interval that of the
  heights reckoned.  With `StepInv` the least height at which a balance were not the
  anchor's and every delta's since would follow one at which it is: there is none (`Exactness`).
  `NativeInv` and what every check of an accepted interval has established give
  `AcceptedIsSound`.  Conversely `Vouched` carries along that valid evidence meets no
  error and no failed check (`ValidIsAccepted`), under the two hypotheses of the
  property.  `ReportIsTrue` needs that the rows which diverge are as many as the
  heights the node contradicts, and begin with the least.
- `ArchiveProofs`: `StandingInv` says what may stand on the archive path and its
  digest's at each step (without `--overwrite` neither does, once the capture has
  begun), which gives `NothingReplaced` and `DigestMatches`; `ExtractionInv` says
  that every path holds the last of its entries extracted so far, for archives of
  any length, which gives `ReproductionIsWhole`.  `CountedInv` says that what stands in the
  extraction directory has been counted, an overwritten file included, which gives
  `ExtractionStaysBounded`; for the packing of a bundle within the limits `RestoringInv` makes count and
  total exactly those of the files restored, so that none is refused
  (`PackedIsRestored`).
- `TransportProofs`: the invariant says that the limiter's clock is the time since a
  request went out, that what is still to be slept makes up for what the interval or the pause
  lacks (`Pacing`), and that attempts are requests (`Counting`).  It gives
  `RequestsPaced` and `FailuresHonest` for every number of attempts and every
  duration, and with one lemma per action `CallsAreReads`: `Transport` implements
  `RemoteRead`.
- `InvocationProofs`: one lemma per group of checks says what passing it establishes
  and what its refusals are called; the invariant carries these facts from step to step.
  `AdvisoriesAreTrue` and `CapturesAreDecodable` also need that
  the branch in force at a height is the greatest that has begun, for every table
  (`BranchFacts`), and that heights rise with branches.

- `EvidenceFilesProofs`, from `PoolAssumption`, `SchemaAssumption`, `HeightAssumption`,
  `ResponseAssumption` and `BundleAssumption` (what capture writes has safe paths, a
  well-formed digest and a total that fits): `BundleInv` says that the files and the list of every operator are
  those of one usable response of its own, and its manifest and reports functions of it
  (`BundlesAreOwn`), so that one operator's step touches nobody else's
  (`OneMoves`).  Each property follows from it and a fact on data: the last entry that
  states a figure is the one both parser and comparison pick (`StatedIsLastWord`), three
  files added in the order of capture are listed in the order of paths (`ThreeSorted`), and a strictly increasing list has
  no path twice (`StrictlyOrdered`).

`Folding` makes up for the induction theorems of the library, which no installed
prover can instantiate.  A nonempty set of naturals has a least element (`LeastNat`), since
`<` is well-founded; whoever wants an induction takes the least
counterexample.  `FoldExists` then constructs the recursive function that
`MapThenFoldSet` chooses, so that sums over sets and left folds over lists have
their recursive laws (`SumAdd`, `SumRemove`, `SumUpTo`, `RetainSteps`), and from these
what the proofs cite.

Model-checked only:

- `ResumeConverges` and `CallReturns` need fairness and `ENABLED`.
- `SuccessIsClean` and `SuccessIsVerifiable` where directories are overwritten: the first is
  checked with one interruption, and fails with more (above).

Every other property of a passing run is a theorem, the two last named, `StoredIsSettled` and
`ResumeKeepsEvidence` under the hypotheses above.

## Plan

What the modules above leave to do, in this order:

1. `Verify` and `Judgement` composed, so that one walk yields the whole verdict,
   and `Archive` over it.
2. `CaptureSpec`, an abstract specification of a capture directory (nothing,
   part, finished), implemented by `Capture` for a single interval.

## Not modelled

- Two captures that run in one directory at a time: nothing in the code locks
  it, and both write the same `.partial` names.  The models run one session at a time.
- Decoding of consensus bytes, JSON and compression, which libraries do.
- The bytes of canonical JSON, of the rendering and of HTTP messages: equal values
  stand for equal bytes.  Nor the wording of messages and the scrubbing of secrets from them,
  the canonical order of checks, and the performance record, which enters no artifact.
- A member that is `null` rather than left out (stored differently, read alike), and
  timestamps.
- The rules that make a path in an archive or a manifest safe: a path is safe or not.
- Loss of power: what has been synced and renamed stays.
