# TauGo: TLA+ models, checks and proofs

TauGo decides whether an exchange between two agents is handled by a
deterministic program (`Deterministe`), by a probabilistic reasoner
(`Probabiliste`) or refused (`Refus`). This directory holds TLA+ models of that
decision and of the concurrent parts around it, the TLC configurations that
check them, and theorems that TLAPS proves about them for every value of their
constants. Paths are relative to `src/`.

## 1. The system

| Component | State | Operations | Interacts with |
|---|---|---|---|
| tau value types, `internal/tau` | none (values) | `FrontierCheck`, `Inside`, `Ordered`, JSON codecs of the enumerations | everything |
| Dimension scores, `internal/tau/dimensions` | none | `ScoreDAuthority`, `ScoreDSens` (asks the LLM client), `ScoreDInvariant` | called by the dispatcher |
| Invariant evaluators, `internal/tau/invariants` | none; I3 reads `time.Now` | `EvaluateI1` … `EvaluateI5`, `Summary` | called on every dispatched decision |
| Dispatcher, `internal/orchestration` | immutable: thresholds, profile or nil, LLM client, clock | `Decide`, in eight steps; called by any number of goroutines | scores, evaluators, LLM client, profile |
| Atomic thresholds, `internal/calibration/thresholds_atomic.go` | six atomic cells | `SetTuning`, `Snapshot`, getters | not wired into the dispatcher |
| Profile store, `internal/calibration/store.go` | a directory: versioned files, `current.json`, its sidecar | `Save`, `Load`, `LoadCurrent`, `ExportSHA256` | the file system |
| Calibration grid, drift, weights, `internal/calibration` | none | `LoadCorpus`, `Calibrate`, `CheckDrift`, `CalibrateWeights`, canonical JSON | `cmd/tau`, a corpus file |
| File adapter, `internal/bridge/agentmeshkafka` | per stream a goroutine, two channels, a derived context; `f.stop`, `f.once` | `Stream`, `scan`, `sendErr`, `Close` | the converter, by channels |
| I4 classifier, same package | none | `ClassifyI4`, `EmpiricalI4Summary` | recorded decisions |
| Stream converter, `internal/app/agentmesh.go` | per stream a goroutine and two channels | `StreamAsTauExchanges`, `ToTauExchange` | the adapter and a consumer |
| LLM client, `internal/bridge/llm` | none | `Interpret` (stub: a hash modulo 1000) | step 4 of `Decide` |
| Corpus generator, `cmd/generate-corpus` | a corpus file, rewritten line by line | the modes plain, annotated and scored | the dispatcher, the scores; the file system |
| `tau` command, `cmd/tau` | a profile file | `calibrate` (reads the corpus twice), `decide` | calibration, drift's fingerprints; the file system |
| Wiring, errors, examples | none that lasts | defaults, exit codes | everything |

What is hard to get right, and what a correct component promises:

* **Dispatcher.** The guards of steps 1, 2, 3 and 5 are coded a second time by
  the evaluators of step 8, and the clock is read twice, so the two can disagree.
  A decision must be the verdict of *one* instant of its call, refuse an expired
  profile whatever else holds, consult the reasoner last, and be explained by
  its own trace.
* **Atomic thresholds.** Six stores and six loads without a lock. What can be
  relied on in a torn copy, and when is a copy whole?
* **File adapter and converter.** Two goroutines and a consumer, four channels
  (two unbuffered, two bounded and lossy), a context, its child, and `Close`.
  Nothing may be lost, doubled or reordered on the exchange channels; errors
  may be lost only by a full buffer; a cancellation must end both goroutines.
* **Profile store.** A `Save` is up to ten system calls, of which two have
  their errors ignored; it may crash between any two, or overlap another.
  A completed `Save` must be found again, whatever others left behind.

* **Calibration.** The rule of `Decide` is coded again by `simulate`, by the
  labels of the generator and by the I4 classifier, on scores computed again: the
  four must agree where they are meant to. The grid search must return the first
  best point in the documented order, whatever ties.
* **Generator and `tau calibrate`.** Two commands and a clock around one corpus
  file, which is truncated, written line by line, and read twice, without a
  lock, each time in several system calls. A finished corpus must be sound and
  reproducible until the default profile expires, an exit code must say what
  happened, a profile must notice when its corpus moves.

`PROJECT.json` lists each hazard at its line with the properties that cover it.

## 2. The modules

| Module | Models | Built on |
|---|---|---|
| `Tau` | value types, frontier, thresholds, expiry | |
| `Dimensions` | the three scores and their probes | `Tau` |
| `Invariants` | the evaluators I1–I5 and the summary of violations | `Dimensions` |
| `Composition` | `Aggregate` and `BoundsHold` of I5 on stacks of any depth | |
| `Policy` | what a dispatcher is configured with; weights, composite, regime | `Invariants` |
| `Verdict` | *reference*: the verdict on an exchange as a set of reasons and their precedence | `Policy` |
| `Kernel` | *abstract*: `Decide` is one instantaneous verdict | `Verdict` |
| `Dispatcher` | `Decide`, one action per step, any number of callers | `Policy`, instance of `Kernel` |
| `AtomicThresholds` | `SetTuning` and `Snapshot`, one action per `Store` and `Load` | `Tau` |
| `OrderedStream` | *abstract*: what the reader of an exchange channel is promised | |
| `FileAdapter` | streams, their contexts, and `Close` | instance of `OrderedStream` |
| `Pipeline` | `StreamAsTauExchanges` between the adapter and a consumer | `FileAdapter`, instance of `OrderedStream` |
| `ProfileStore` | `Save` by system call, crashes and faults | |
| `Calibration` | corpus entries, `LoadCorpus`, `simulate`, the agreement count, the grid, `CheckDrift` | `Dimensions` |
| `GridSearch` | `Calibrate`, one action per kind of loop iteration | `Calibration` |
| `Corpus` | the generator's plan, builders and labels; the two entrances of a mode; the I4 classifier | `Verdict`, `Calibration` |
| `Campaign` | labels and classes of the decisions that concurrent calls return | `Dispatcher`, `Corpus` |
| `Workshop` | `generate-corpus` and `tau calibrate` around one corpus file and one profile file | `Corpus` |
| `MC*` | the instances TLC checks | |
| `DispatcherProofs` (with the campaign's), `CompositionProofs`, `ThresholdsProofs`, `GridSearchProofs`, `WorkshopProofs`, `ProfileStoreProofs`, `FileAdapterProofs`, `PipelineProofs` | theorems | |

Some modules hold, just before a definition and marked "Mutant", a variant of it
with a plausible bug. They are in no specification: they exist to confirm that
each checked property fails when the code is broken that way.

### How the dispatcher's state corresponds to the code

`pc[c]` is the step the call of goroutine `c` is about to take; `arg`, `auth`,
`sens`, `inv`, `dec` are `x`, `authPtr`, `sensPtr`, `invPtr` and the `Decision`
of that call; `start` is the local of the same name. `guardClock` is history:
what step 3 read. `Call` enters `Decide`, `Frontier`, `Authority`, `Expiry`,
`Score`, `Coherence`, `Decision` and `Evaluate` are its steps, `Take` is the
caller going on with the result, `Tick` the clock.

Scores are `float64` in the code and integers in millionths here (the composite:
billionths). Every weight is a multiple of 1/1000 and every probe of 1/4 or, for
the reasoner, 1/1000, so these products are exact. Rounding was looked at
separately: over all 256 000 combinations of probe values inside the frontier,
exact arithmetic and IEEE doubles give the same verdict, the sixteen composites
that fall exactly on 0.65 included. That enumeration used the default thresholds
and weights; for others, rounding is not covered. `Context`, a free-form map, is the four Booleans its
probes extract from it; a string compared with `""` only is a Boolean.

### Streams

`apc[s]` is the goroutine of the adapter, `vpc[s]` the converter. An exchange is
the position of its line. An unbuffered channel is a step its two ends take
together: `Receive` is `Give` of the adapter and the converter's receive,
`Deliver` the converter's send and the consumer's receive. `errs` and `errOut`
are bounded buffers. The deferred calls are steps of their own, in the order Go
runs them: `close(errs)`, `close(ex)`, `cancel()`; `close(errOut)`, `close(out)`.
The propagation of a cancellation to a derived context is a step too. `Continue` is
the `continue` on a closed `errs`, a step that changes nothing.

### The profile store

A file is known by an identity, as an open descriptor knows it: a version for
`<ID>-<Version>.json`, the `Save` that created it for a plain copy. `current` is
the file `current.json` leads to, so it is a symbolic link exactly when that is
a version. `os.WriteFile` is an open with truncation, then a write from its
start. A write that fails or dies may be done in part (`Torn`). `Symlink` fails
without symbolic links, on an existing name, or by a fault. `os.Remove` may fail;
its error is ignored, as in the code.

### Calibration, the generator and the commands

A corpus entry keeps its three scores, the attestation and its labels; an ID is
whether it is empty. A line of a corpus file is what `json.Decode` makes of it:
an entry, an exchange (which has none of an entry's fields, so its scores are 0
and its label is empty), or `Torn`. `LoadCorpus` is decided by the first line that
cannot be decoded or is invalid.

`GridSearch` keeps the loop counters in steps of 0.05; `Skip` is the `continue`
of `pM > 950`, `Improve` and `Keep` the two outcomes of the comparison.

In `Workshop`, `gen` is the process of `generate-corpus` and `cal` that of
`tau calibrate`. `Generate` is `os.Create`, `WriteLine` one round of the loop (the
decision at the clock of that instant, and one `Write` of the encoder),
`GeneratorDies` a kill, a failed write or the panic of `app.NewDispatcher`.
`OpenCorpus` opens the path, once for the digest and once for the entries;
`HashCorpus` and `DecodeCorpus` are one `Read` of the open file each, as many as it
takes to the end; `OpenOutput` and `WriteOutput` are the two halves of
`os.WriteFile`. Of the profile only what the grid
search is given is kept, its entries, so that a property can say which corpus the
thresholds come from. The digest of a file is its content. `modes`, `disturbed` and
`truncated` are history.

A reader (`cal.reader`) is the lines its offset has passed, the last of them perhaps
in part, and what it has got. As long as the file begins with those lines it reads
on where it stopped. When a run of the generator has emptied and rewritten the file
(`os.Create` truncates the same inode) the file no longer begins with them (`Moved`),
and the offset stands anywhere in it: the next read may find the end of the file, or
begin with the end of one of the new lines, which `json.Decode` may take, alone or
after the beginning of an old one, for anything in `Mixtures`, a constant: for no
JSON, or for an entry that nobody wrote.

`Composition` stands apart: no decision reifies a stack yet, so nothing in the
program calls it. An identifier is a natural number, as only equality and the order
of `sort.Strings` matter. What `Aggregate` may return is a set, for the order of a
Go map is any; that the set has one member is a theorem.

The generator calls `Decide` in a row, so `Corpus!Decide` is the verdict at one
instant; that `Decide` is such a verdict is `DispatcherProofs!Refinement`. The
permutation of `rng.Shuffle` and the stub's replies are constants.

## 3. The runs

Every run ends in two minutes or less with two workers.

| Run | Instance | Shows |
|---|---|---|
| `dispatcher_inputs` | one caller, every combination of what the probes read, and a mode outside the constants, five replies, four instants | types; `TraceSupportsVerdict`; `ObservationsOnlyFromLateExpiry`; `LabelsAreGroundTruth`; `ReasonerConsultedLast` |
| `dispatcher_calls` | two callers, an exchange per regime and refusal with and without attestation, clock 1..3 | `ExpiredAtCallIsRefused`; `AttestationOnlyLiftsTheLock`; `ClassifierAgrees`; `ImplementsKernel` (refinement) |
| `thresholds_separated` | two writers, one reader, two tunings on both sides of 0.5 | `QuietIsLastTuning`; `SeparatedTuningsStayOrdered`; `UndisturbedSnapshotIsOneTuning` |
| `adapter_close` | two streams, two racing closers | `CloseCancelsTheLatestStream` |
| `pipeline_files` | one stream, one closer, files of up to three lines, error buffers of two | both channels implement `OrderedStream`; the order, completeness and draining of errors; at most two late exchanges; three liveness properties |
| `store_saves` | three Saves of two versions and two contents, two at a time or serial, all faults | `CompletedVersionsSurvive`; `CompletedSaveIsCurrent`; `SidecarNamesTheCopy`; `CompletedSavesLeaveACurrent` |
| `grid_search` | the full grid of 3348 points, in at most 3672 rounds, 73 corpora of at most three entries, two input profiles | `ReturnsTheFirstOptimum`; `NoWorseThanDefault`; `TieBreakSplitsTheSum` |
| `workshop` | five lines, two seeds and distributions, three modes, two earlier corpora or none, a run of the generator, one calibrate in reads of two lines or less, clock 1..3 | `ScoredCorpusIsSound`; `ReproducibleUntilDrift`; `EntrancesAgree`; `ExitCodesTell`; `DriftSeesTheCorpusMove` |
| `thresholds_moving`, `adapter_active`, `store_layout`, `workshop_drift` | as above | four statements of the documentation that the code does not keep (section 6) |

Why the bounds are enough:

* *Callers.* A dispatcher has no mutable state, so calls interact through the
  clock only; two calls are what a property relating two calls needs. The
  theorems hold for any number.
* *Clock.* In `dispatcher_inputs` the revision date is an instant strictly inside
  the range, so calls fall before it, on it, after it and across it, also between
  steps 3 and 8. `dispatcher_calls` begins on it. A dispatcher without a profile
  is covered by the theorems, not by a run: it differs by one guard never closing.
* *Exchanges.* `AllExchanges` is exhaustive in what the probes read up to
  saturation (a depth of 4 or more, of 0 or less). The replies include 0, 1,
  the stub's answer to an empty intent, and an error. At the default thresholds no
  reply lifts an incoherent pair over 0.50 (contract and D-INVARIANT exclude each
  other), so `dispatcher_calls` raises `SensCoherence` to 0.55 to have that case.
* *Thresholds.* Two tunings and the initial one, not whole thousandths, one of
  them with both regime thresholds equal; two writers are what an overlap needs.
  The theorems hold for any number of both.
* *Streams.* Streams of one adapter share `f.stop` and `f.once` only. Two show the
  overwriting; how lines are treated does not depend on the other stream, so
  `pipeline_files` has one. A file of three error lines overflows a buffer of
  two (8 in the code); the bound only matters relative to the number of errors.
* *Corpora.* The eight entries of the pool lie on a point of the grid, between two,
  or outside it, under labels that pull each threshold both ways, and some pairs
  exclude each other. The theorems hold for any corpus.
* *Workshop.* Five lines give each branch of the generator under one seed or the
  other. A corpus that was there (`EarlierCorpora`) and a run that rewrites it are
  what a race of a reader with a writer takes, and the run may come before, around or
  after any read; a second one would only put other lines under the reader, which
  `Mixtures` allows for, and the theorems hold for any number. A read begins two
  lines (`ReadSizes`) or what is left, whole or not, so a corpus takes two or three.
  `MCMixtures` has a cut line, an entry with a label made of two, which is exit 2, and
  a valid one that nobody wrote. The default profile expires at the second instant,
  so a run may be on one side, on the other, or across.
* *Stacks.* `MCDispatcher` has TLC evaluate, as an assumption, the bounds and the
  uniqueness of `Aggregate` on all stacks of at most three layers of at most two
  identifiers; the theorems hold for any stack.
* *Saves.* Three allow a Save before and after an overlapping or crashed one.

## 4. Fairness

Only `pipeline_files` assumes any (`FairSpec`): weak fairness of each goroutine
(the Go scheduler runs whatever can run), of the propagation of a cancellation,
of a `Close` under way, and of a delivery to a consumer that is still there.
Nobody is assumed to cancel, to call `Close`, or to read the error channel, and
the consumer may leave at any time. One case needs more than the scheduler: once
`errs` is closed and until the source is, the branch of `adapterErrs` in the
converter's `select` is always ready and does nothing (`continue`). In the model
that is the step `Continue`, which changes nothing and is not one of `Convert`, so
weak fairness of `Convert` says that the `select` does not choose it forever; Go's
`select` chooses among ready branches uniformly at random. Without that the
converter may spin for ever, and neither `pipeline_files` nor a theorem says
otherwise.

`CHECK_DEADLOCK FALSE` is stated where the system may really stop: a goroutine
that waits for a consumer that left, streams that have ended, thresholds that
never change again have nothing left to do.

## 5. The proofs

All eight proof modules are checked to the last leaf; there are no recursive
operators and no unproved facts. What a recursive function computes for every
input (`Progress` of the generator, `Pass` of I5) is proved from a least
counterexample, `LeastIndex` and `LeastNumber`: the prover cannot instantiate the
library's induction theorems, but it can cite that a set of naturals has a least
element. The assumptions on constants are those the
modules name, and TLC evaluates them in every run:

| Assumption | Says | Because |
|---|---|---|
| `PolicyAssumption`, `ExchangesAssumption` | ordered thresholds, replies in [0, 1], non-negative weights, values of their type | `NewDispatcher` panics otherwise |
| `TuningsAssumption` | ordered tunings | `SetTuning` panics otherwise |
| `GridAssumption` | corpora are sequences of valid entries | `LoadCorpus` rejects others |
| `StoreAssumption` | versions, Saves and markers are distinct; finitely many Saves, at least one | identities of the model |
| `WorkshopAssumption` | permutations and replies of their type; distributions are the three there are; the thresholds, the profile and its weights are the generator's defaults; a corpus that is there at first is one a scored run may have left; a read begins a line at least, and a mixture of two lines is no JSON or an entry | `app.NewDispatcher`, `DefaultProfile`, `rng.Shuffle`, `weightsFor`; a bound on what the directory holds |
| `LinesAssumption`, `StreamsAssumption` | kinds of line are distinct; `errs` has a buffer | `make(chan error, 8)` |

**Dispatcher.** `DispatcherProofs!Inductive` proves an inductive invariant of
`Decide` whose parts are: types; *what each step has established* (past `frontier`
the exchange is inside, past `authority` the traced score is that of the argument
and the lock does not close on it, past `expiry` the profile was not expired
when the clock was read, past `coherence` the pair is coherent); that
clock readings are ordered, `start <= guardClock <= now`; and what a returned
decision of each diagnostic looks like. `TypeCorrect`, `DecisionsAreAuditable`
(`TraceSupportsVerdict`), `ExpiryIsHard` (`ExpiredAtCallIsRefused`),
`GuardsAgreeWithEvaluators` (`ObservationsOnlyFromLateExpiry`),
`AttestationIsNarrow` (`AttestationOnlyLiftsTheLock`) and `ReasonerIsLast`
(`ReasonerConsultedLast`) follow from it. None of those is inductive alone: a
decision is built from locals that earlier steps constrained, and the evaluators'
answers depend on those guards.

`DispatcherProofs!Refinement` proves `Spec => ImplementsKernel`. A call is
busy until it returns; every step before the last is a stutter of the kernel.
The step that returns is the kernel's verdict *at the instant step 3 read the
clock*, which the invariant places between the call's start and now; a refusal
before step 3 is a verdict of any instant of the call, as its reasons outrank
expiry.

**Campaign.** At the end of `DispatcherProofs`, without an invariant of its own: `LabelsAreSound`
(`LabelsAreGroundTruth`) and `CampaignIsClean` (`ClassifierAgrees`) are facts
about any decision that satisfies the dispatcher's. The second counts: a decision
in the I4 class is counted where the classifier puts it, so the cells of
`EmpiricalI4Summary` that would be errors stay empty.

**Thresholds.** `ThresholdsProofs`, for any number of writers and readers:
`TypeCorrect`; `SeparatedSnapshotsOrdered` (each of the two regime cells stays on
its side of the separating value under every interleaving); `LastTuningIsWhole`
(while a lone `SetTuning` runs, the cells already stored hold its argument); and
`UndisturbedSnapshots` (a Snapshot that nothing overlapped copies it).

**Grid search.** `GridSearchProofs`, for any corpora and input profiles. The loop
counters order the grid (`Before`), and the lemmas `NextPairVisits` and
`NextPointVisits` say that a round of the loop adds exactly one point to the
visited ones. The invariant `Progress`: nothing is visited yet, or `bestT` is the
visited point that `Leads`, with the most agreement and before every other such.
At the end all is visited, which is `FirstOptimum` (`ReturnsTheFirstOptimum`);
`NoLossAgainstDefault` and `TieBreak` compare that point with the default
thresholds and with points that agree equally.

Three more say what a caller of `Calibrate` relies on. `SearchEnds`: every
iteration moves on in the numbering of the four loops, so it returns after at most
3672. `CalibrationIsDeterministic`: the first optimum is unique because `Before` is
total (`BeforeIsTotal`), so the result is `ResultOf(corpus)`, in which neither the
input profile nor the search occurs; `LineOrderDoesNotCount`: nor does the order of
the lines, as the agreement count is preserved by a bijection (`SameCount`).
`ResultIsUsable`: what is returned never makes `SetTuning` or `NewDispatcher`
panic.

**Composition.** `CompositionProofs` proves, for every stack, what the comments of
I5 say: `BoundsAlwaysHold` ("proved algebraically"), `SumReachedIffDisjoint`
("equality iff disjoint"), `AggregateIsDeterministic` ("deterministically ordered,
deduplicated", whatever order the map is ranged over), `BlindSpotsOnlyGrow` and
`LayerOrderDoesNotCount`. The first two need what the loop has computed after each
layer: the union so far, a layer that is as large as `maxLen` and none larger,
and a sum that exceeds the union exactly when two layers share something. The third
counts, for each identifier, those not above it: that number is its place in any
sorted list without repetition, so two such lists are equal.

**Workshop.** `WorkshopProofs`, for any number of lines, seeds and runs, every
permutation and reply, and clocks of any range. Three facts about data carry it:
`LabelIsSimulated` (what the generator labels a sample is what `simulate` says of
it under the default thresholds, whichever verdict `Decide` gave), `LineWritten`
(what one round of the loop may add to the file), and `Loading` (a corpus loads
exactly when all its lines are samples, and only a cut line stops one that holds no
exchange). The invariant `WInv` adds what the file holds while a run writes it,
after it returned, and after scored runs only (`FileInv`); that a reader nobody has
emptied the file under has got a beginning of it, all but a line in part (`Follows`,
in `ReaderInv`), which the lines a run appends leave true (`FollowsAppended`) and each
read advances (`ReadingFollows`); and how far calibrate is, which corpus its entries
are while nobody wrote the file, and how it ended (`CalInv`). What a reader of scored
runs has got fails to load on a cut line only (`FollowedLoads`), so never with 2. The
theorems hold for any sizes of reads and any mixtures. From `WInv` follow
`CorpusIsSound`, `EntrancesAreTheSame`, `CodesTell` and `DriftIsSeen`. For `Reproducible`, `SameVerdict` says that until expiry the
verdict on an exchange does not depend on the clock, and `ProgressInv` that a run
which began before has written what it would have at the first instant.

The golden corpus of the tests holds 170 lines out of 200 (90, 50 and 30 of three
labels). `CorpusIsAsPlanned` says where such numbers come from, for any count,
seed, distribution, permutation and replies: within the validity of the default
profile a finished scored corpus has the planned rows of `refusI3` as
`refus_authority`, those of `probabiliste` as `deterministe`, no `refus_i4` at all,
the rest as `probabiliste`, and lacks those of `refusFrontiere`. The chain:
`BranchesDecide` (the branch that built an exchange decides its verdict, whatever
its index and the reply), `BranchesLabel` (and so its label), `PlanIsFull` (a plan
has `count` rows, of a branch as many as its weight is worth, and the remainder
is never negative), `RowsAreShuffled` (the permutation loses none), and
`ProgressCounts` (round for round the file holds as many of a label as the lines so
far have).

**Profile store.** `ProfileStoreProofs`, for any finite set of Saves. Concurrent
Saves: `SomeoneMayPlaceIt` (without a `current.json` some Save is not past the step
that puts one there) gives `ACurrentIsLeft`. Saves one at a time, crashes and
faults included: `Progress` says what the Save under way has done, `Outcome` what
completed ones have left, and each has a stronger form that holds until an
`os.Remove` fails. `VersionsSurvive`, `CurrentIsTheLastSave` and `SidecarIsRight`
follow; the strengthening is needed because a Save ends in a step that only writes
the last of several files.

**Streams.** `FileAdapterProofs`, for any files and any number of streams and
`Close`s. `Placed` says where in the file each step of the goroutine stands;
`OInv` that `given[s]` holds the wanted lines before that place, in order, whence
`StreamsAreOrdered` (`ImplementsOrderedStream`, a refinement). `CInv` says that one
call runs the body of `once.Do`, and that a stream alive at every `Close` started
before `f.stop` was read, whence `CloseCancels`.

`PipelineProofs` starts from `AdapterInside`: a step of the pipeline is a step of
the adapter or leaves it alone, so the adapter's theorems carry over without a new
proof (`AdapterIsOrdered`). `ConverterInv` says that `seen` is `given` but for the line the converter
holds, whence `OutIsOrdered` (`OutIsOrderedStream`, a refinement) and `Drained`;
`LateInv` counts the lines delivered after a cancellation and those still on their
way, at most two together (`FewAreLate`). For errors, `OrderInv` keeps the errors
received, those in `errOut` and those in `errs` a chain of rising line numbers
(`ErrorsAreOrdered`). `FewInv` says that without a cancellation, and with no more
errors than a buffer holds, every error read is in one of the three; a send then
never finds its buffer full, as its content is rising and does not hold the error
being sent (`Room`). That is `FewErrorsArrive`.

Four theorems are the part of liveness that is safety. `WorkRunsOut` gives each
stream a measure of what is left to do, at most six for a line of the file and 19
besides, which every step of the stream but `Continue` decreases and no step of
another one increases. So the steps other than `Continue` are bounded in number,
under any interleaving. `Continue` is outside of that: it changes nothing, and
nothing but the fairness of `select` bounds it (section 4). `ContinueCostsNothing`
says what depends on that fairness: `Continue` can be taken only when another branch
of the `select` is ready, or `close(ex)` is the adapter's next step, and only once
every wanted line of a stream that nobody cancelled or closed has been delivered; it
stays possible until another branch is chosen. What spinning can put off is the close
of the two output channels. `NobodyWaitsInACircle` looks at a state in which nothing of a stream can
step (`AtRest`, the guards of its actions spelled out, since `ENABLED` is out of the
prover's reach): adapter and converter have then ended, unless the consumer left
without cancelling, and no `Close` hangs. `ReadToTheEnd` adds that a consumer that
stayed, in a stream nobody cancelled or closed, has then seen every wanted line,
once and in order.

**Only model-checked.** The three liveness properties of `pipeline_files`, as
liveness under fairness is out of the prover's reach; with the theorems above what
is left to TLC is that the scheduler goes on choosing what can run, that the `select`
does not choose `Continue` for ever, and that the guards in `AtRest` are those of
`ENABLED`. Every invariant and every refinement a
passing run checks is proved.

## 6. Where the documentation and the code differ

Each of these is a run that TLC refutes:

1. `thresholds_atomic.go:89` says `SetTuning` panics if the order would be
   violated; two overlapping ones violate it silently and lastingly
   (`thresholds_moving`).
2. `file_adapter.go:100` says `Close` cancels any active stream; it cancels the
   last one started, and the first call only (`adapter_active`).
3. `store.go:19` says what a versioned file holds; two overlapping Saves may both
   succeed and leave in one version's file the profile of the other
   (`store_layout`).
4. `PRD.md:636` says a profile's fingerprint is that of its calibration corpus;
   `calibrate.go:64` and `:70` of `cmd/tau` read the corpus twice, and a corpus
   regenerated in between gives a profile calibrated on another one, with exit 0
   (`workshop_drift`).

Met while reading and modelling, without a run of their own.

In the dispatcher:

* `operator.go:211` says a nil score pointer was not computed; the expiry refusal
  drops the D-AUTORITE score that step 2 computed.
* `dispatcher.go:158` says the revision day itself is not refused; the date is a
  midnight, so all of that day but its first instant is. The "one extra day" of
  `drift.go:103` is, for the same reason, one instant, and `drift.go:29` says
  strictly after where the check is inclusive.
* Refusals carry no profile version and no date. `Profile.Thresholds` is never
  read by the dispatcher, so a calibration changes no decision.

In the calibration:

* Exit code 2 is "bad input the caller must fix" (`calibrate.go:120` of `cmd/tau`).
  It is also what comes of sound corpora when `generate-corpus` empties and rewrites
  the file between two reads of the decoder: the beginning of an old line and the
  end of a new one may make an entry whose label, identifier or score is of neither.
  `ExitCodesTell` excepts a corpus emptied under `LoadCorpus` (`truncated`) for that
  reason; without the exception TLC finds the splice. Such an entry may also be valid,
  and then the profile is calibrated on it, with exit 0.
* An empty corpus is accepted with exit 0; every point then agrees equally, and
  the profile is the first of the grid (0.10, 0.15, 0.70, 0.30).
* `simulate` is "a lightweight projection of the dispatcher logic"
  (`calibrate.go:168`) whose two regimes are the other way round from `Decide`'s, so
  under the dispatcher's labels the generator's exchanges meant as deterministic
  are labelled `probabiliste` and conversely. Of the four searched thresholds only
  the sum of the lower one and the gap reaches the objective.
* An empty `Env.CurrentCorpusFingerprint` is said to disable the corpus check
  (`drift.go:62`, `docs/algorithms/drift.md:114`); it does not.
* `CheckDrift`, `Store`, `ClassifyI4` and `AtomicThresholds` have no caller outside
  tests.

In the generator and at the two entrances:

* `buildRefusI4` is built to be refused by I4 and never is, whatever the reply
  (`BranchesDecide`): its D-INVARIANT is 0.25, half of what I4 asks for. A corpus of the
  distribution `i4-heavy`, "I4 incohérence at 60 %" (`generator.go:54`), holds
  no `refus_i4` (`CorpusIsAsPlanned`), and "~50 % total refus (all three kinds)"
  (`generator.go:57`) is 40 % refused, half of it by the frontier and left out of a
  scored corpus.
* The same seed, count and distribution are said to give the same output
  (`main.go:25` of `cmd/generate-corpus`); once the default profile has expired the
  decisions are refusals, and the labels follow the wall clock.
* With an unknown `TAUGO_LLM_BACKEND` the command panics after `os.Create` has
  emptied the corpus.
* An annotated corpus has the regimes as `Decide` spells them, capitalised;
  `LoadCorpus` rejects it.
* The converter maps the modes `Static` and `STATIC` to the dynamic mode, while the
  JSON codec folds their case.

Elsewhere: `adapter.go:59` says `Close` blocks until in-flight items drain, it
waits for nothing; `classifier.go:111` says the ratios are -1 without a
denominator, they are nil.

## 7. What is not modelled

* `WithClock`: a seam for tests, to be used before the first call. The model has
  one clock; both readings of `Decide` are readings of it.
* Durations, log lines, error texts, JSON formatting (`MarshalCanonical`
  included), and of the codecs all but the spellings of a mode. `TraceThresholds`
  omits the hysteresis gap, as `Decide` does.
* In the store: loss of data that was written but not flushed, at a power failure
  (the code calls no `fsync`); reads that overlap a write, and `ExportSHA256`, the
  digest of such a read.
* `CalibrateWeights`, the identity in this version; the two ratios of
  `EmpiricalI4Summary`, divisions of counts that are modelled.
* Errors of a read of the corpus. `FingerprintCorpus` reports one, with exit 1;
  between two entries `json.Decoder.More` takes one for the end of the corpus, so
  `LoadCorpus` returns the entries before it without an error.
* The exit codes of `tau decide`, the wrappers of the error types, the example and
  the builders of tests: they keep no state.
* The hash of the stub: a reply is any of those it may give.

## 8. Plan

Done: the dispatcher and its refinement, the thresholds, the streams, the store,
calibration, the generator and the commands, the composition of I5; theorems for
every invariant and every refinement of the passing runs, for the termination of
the streams and of the grid search, and for what a generated corpus holds. What
remains, in order of worth:

1. Readers of the store that overlap a Save: what `LoadCurrent` may return in the
   window without `current.json`, and how a caller can tell.
2. What a torn `Snapshot` may hold: that each cell is the value of some `SetTuning`
   that overlapped or last preceded it, for any number of writers.
