# Verification of QC-Systematic-Futures: the measurement core

TLA+ models of the program under `src/systematic_futures`, model-checked with
TLC, with theorems checked by TLAPS. `PROJECT.json` names, for every definition
that models code, the lines it stands for; this file explains the whole.

The program measures one futures root inside QuantConnect (LEAN). Raw trade
ticks of the currently mapped contract enter at `main.py`, are turned into
Volume Profiles, bars and indicator states, and end up as *candidate events*:
immutable, pre-outcome observations that later research is allowed to use only
if they were **point-in-time** (nothing later leaked in), **complete** (no trade
lost or counted twice), **unambiguous** (one identity, one content) and **final**
(published facts are never rewritten). A separate hash-chained ledger records
which experiments were registered before which decisions, and an availability
gate withholds external data (CFTC reports) until they were public. These four
words, and the ledger's and gate's promises, are what the properties state.

## 1. Inventory

| Component (source) | State | Operations | What makes it correct |
|---|---|---|---|
| Volume Profile engine (`measurement/volume_profile.py`) | open minute, deque of minute histograms, session histogram, two late guards, frozen final snapshot, flags, seen identities | `ingest_trade`, `finalize_minutes_through`, `snapshot` | volume conserved minute by minute; rolling windows exact; bounded memory; finalized data never rewritten |
| Measurement stream (`measurement/stream.py`) | 5- and 30-minute builders, current Profile and session, final Profiles per session type, published snapshots | `on_trade`, `finalize`, inside them `_process_due_bars`, `_publish_auction`, `_finalize_current_profile` | the order of about ten steps per trade: bars, minutes, publications, session change |
| Auction transition engine (`measurement/events.py`) | location, active excursion, direction, migrated flag, counters | `advance` | the event log is a log of well-formed excursions |
| Snapshot aligner, event generator (`measurement/events.py`) | three bounded deques; events by identity | `add_*`, `align`, `create` | latest available snapshot per component, ready only when current; an event names its own snapshot |
| IAE gap engine (`measurement/iae.py`) | live gaps, three-bar window, seasonal buckets | `on_bar` | gaps never span a hole, one first retest each, identities unambiguous |
| IMSI, ICM, ATR (`imsi.py`, `icm.py`, `volatility.py`) | session VWAP, EMAs, seasonal buckets, states and distances; a window of bars; 24 true ranges | `on_bar` | prior-only baselines, embargoed neighbors, warmup; no snapshot is refused |
| Experiment ledger (`ledger/experiment_ledger.py`) | a JSON-lines file | `pre_register`, `append_decision`, `entries`, `verify` | chain intact, append-only, decisions after registration |
| Availability gate, normalizer, policies (`data/availability_gate.py`, `point_in_time.py`, `policies.py`) | release heap, submitted and released hashes | `normalize`, `submit`, `release` | nothing early, nothing twice, a deterministic order |
| Roll manager (`data/rolls.py`) | mapping observations | `observe_mapping`, `current_roll_state` | no future mapping changes an answer |
| QuantConnect runtime (`qc_adapters/lift2_runtime.py`, `main.py`) | mapped symbol, current and completed streams, summary | `on_slice`, `on_mapping_events`, `_switch_contract`, `finalize` | one stream per mapping; trades under the mapping of their time; finalized once |
| Probe recorders (`qc_adapters/probe_recorder.py`, `cftc_probe_recorder.py`) and the validators of their evidence | counts, clocks, keys, roll history of a root; delivery rows of a dataset | `observe_slice`, `observe_mapping_events`, evidence; `observe_slice`, audit, summary | evidence passes its validators and agrees with what was observed |
| Session engine (`data/sessions.py`) | none (tables) | `session_id`, `classify`, `session_bounds` | segments partition time, across midnight, closures and clock changes |
| Lift 2 rebuild check (`scripts/build_manifest.py`) | five artifacts and a report on disk | `build_lift2_rebuild_check`, `write_manifest` | evidence that passes is of one set |
| Contracts, quality, manifests, schemas, configuration, registration, reports | little or none | validation, tables, reports | pure; listed with the reason in `PROJECT.json` |

How they interact. LEAN calls `main.py`, which forwards to `Lift2Runtime`. The
runtime owns one `MeasurementStream` per mapping period and hands it trades. The
stream owns one Volume Profile engine per session, two bar builders, and one
instance each of ATR, IAE, IMSI, ICM, transition engine, aligner and event
generator, and calls them synchronously in an order that is all of its
difficulty. The probes are other algorithms on the same clock, and see the same
contract, mapping changes and chains. Everything in a run is single-threaded;
concurrency exists only on disk, where several processes open one ledger file and
where exports rewrite artifacts while they are checked. The hard behaviours are
therefore: the order of steps inside one call, late, duplicate and rejected
trades, sessions that change between two calls, two clocks that tick together,
exceptions in the middle of a step, several sources for one mapping change,
snapshots with equal clocks, memories that must not contain the present, local
time at its edges, and crashes and interleavings around the ledger's
read-extend-rename and the reads of the artifacts. `PROJECT.json` lists these hazards at their lines.

## 2. Modules

| Module | Models | Run(s) | Proofs |
|---|---|---|---|
| `VolumeProfile` | the Profile engine as a value: a record and one operator per method | | |
| `VolumeProfileEngine` | one engine as a state machine, every public call in every order | | `VolumeProfileProofs` |
| `RollingPublications` | the same engine, and what one of its rolling snapshots showed | `engine` | `VolumeProfileProofs` |
| `MeasurementStream` | the stream as a value, composed of `VolumeProfile` | | |
| `StreamFeed`, `MCStream` | a feed and the host that drives the stream | `stream`, `stream_empty`, `stream_late` | `StreamFeedProofs` |
| `ExcursionLog` | abstract specification: what the Auction events promise | | |
| `AuctionTransition` | `AuctionTransitionEngine.advance`; implements `ExcursionLog` | | `AuctionTransitionProofs` |
| `ProfileReadings` | what is read off a histogram: POC, value area, places, features, and what the records refuse | | |
| `AuctionPath`, `MCAuction` | from bars over their histogram, its readings and the engine to events | `transition` | `AuctionTransitionProofs` |
| `SnapshotAlignment` | aligner, event creation, and the stream's two clocks that feed them | `aligner`, `aligner_tie` | `SnapshotAlignmentProofs` |
| `IAEEngine` | gaps and their snapshots, and the stream's recording of them | | |
| `MediumStates` | IMSI and ICM: memories, warmups, readiness, and what their snapshots refuse | | |
| `SessionCalendar` | the session engine as functions of a calendar | | |
| `Indicators`, `MCIndicators` | the engines of both clocks over the segments of a calendar, or a calendar alone | `iae` | `IndicatorsProofs` |
| `ExperimentLedger` | ledger operations as several processes execute them | | |
| `EvidenceSet` | the rebuild check over five artifacts that may be rewritten meanwhile | | |
| `ResearchRecords`, `MCLedger` | the ledger or the artifacts | `ledger`, `ledger_separator` | `ResearchRecordsProofs` |
| `AvailabilityGate`, `MCGate` | CFTC policy, normalizer and gate | `gate` | `AvailabilityGateProofs` |
| `RollManager` | mapping observations and roll states, for the runtime and the probe | | |
| `Lift2Runtime` | the runtime under LEAN's callbacks | | |
| `ProbeRecorder` | both probe recorders and the validators of their evidence, as values | | |
| `QuantConnectHost`, `MCHost` | one of the three algorithms on LEAN's clock | `runtime` | `QuantConnectHostProofs` |

`Indicators`, `ResearchRecords` and `QuantConnectHost` put parts side by side
that share an environment (a calendar, the disk, LEAN's clock and mapping) and no
state of their own: a variable (`running`, `keeping`, `deployed`) chooses the part
in the initial state, and a behavior is that of one part.

**Values and state machines.** `on_trade` calls the Profile up to six times in
one call. A call is one atomic step of a single-threaded program, so the Profile
and the stream are records, and their methods operators from record to record;
`VolumeProfileEngine` and `StreamFeed` hold such a record in one variable.
A method that raises sets the field `raised` (or `stopped`) and leaves what it
did before; LEAN ends an algorithm whose handler raises, so nothing follows.
Where a call can be cut in two - the ledger - each file operation is an action.

**Data.** Trades carry a delivery number, and a histogram is the *set* of trades
that went into it: "counted exactly once" is then a statement about sets, and
holds for the volumes. Clocks are whole minutes, or fast bars where only bars
matter. SHA-256 is an injective function of its arguments, and identities are
the tuples hashed, field by field. Averages, scores and fits become free
choices, so the properties hold whatever the numbers are.

**Correspondence, by module.**

* `VolumeProfile`: `Admissible` and `Reason` are the guards of `ingest_trade` in
  their order; `Admit` the updates of an accepted trade; `FinalizeMinutes`
  closes the due minute (`CloseDueMinute`) and expires old ones (`Expire`);
  `Rolling` is `_rolling_histogram`; `TakeFinal` the memoized final snapshot.
  A rolling snapshot changes nothing in the engine: `RollingPublications` keeps
  what one of them showed, any one, in an auxiliary variable, to compare it with
  every later state.
* `MeasurementStream`: `OnTrade` composes, as the code does, `CloseDueBars`
  (both builders, then `ProcessBoundary` per boundary in order), the minutes of
  the Profile, `OpenSession` (final Profile of the old session first) and
  `IngestIntoStream`. `Publication` is what an Auction snapshot is made of:
  developing and rolling Profiles, reference, readiness.
* `AuctionTransition`: `FirstBar` and `NextBar` are the two halves of `advance`;
  `Triggers` are its three kinds of events, and location and POC its inputs.
* `SnapshotAlignment`: `FastBarCloses` and `MediumBarCloses` are the boundaries
  of `_process_due_bars`; `Align` is `align`, `Publish` the tail of
  `_publish_auction`. `SeenWhenPublished` is the order that matters: at a common
  boundary medium state is fed before the Auction snapshot is published. `closed`
  is the clock behind which no trade of an ordered feed falls.
* `ProfileReadings`: operators for `select_poc`, `select_value_area` (a recursive
  function over the loop's bounds), `auction_location` and `auction_features`.
  Quantities are whole contracts, so sums and products are exact in the code's
  floats, and ratios are pairs. `AuctionPath`: `OpenSession` and `AddBar` are
  `_publish_auction` at the first and at a later bar of a session; `Refused`
  collects what the records raise on.
* `MediumStates`: `OnMediumBar` is `IMSIStateCore.on_bar` and then
  `ICMEngine.on_bar`, in the code's order, with every raise between. A memory
  holds the *bars* its numbers were computed from, so that "prior-only" is a
  statement about bars; `Covariance`, `blend` and `regime` are what the
  arithmetic decides, left free. What a memory ought to hold is said with sets
  (`LatestOf`, `SameSlot`, `WithState`), not with the lists the code keeps.
* `SessionCalendar`: `Accepted` is the constructor, `Classify`, `SessionId` and
  `SessionBounds` the three questions; `Local` is a clock that jumps once, and
  `Utc` goes back with `fold=0` as `zoneinfo` does. The code compares wall-clock
  times of one zone, and so does `SessionBounds`.
* `IAEEngine`: `OnBar` is `on_bar` with the ATR's count before it and
  `_record_iae_snapshot` after it; `Turn` is one turn of the loop over gaps. The
  list of gaps is a function of the bar each formed by: at most one forms per bar,
  so the order of the list is that of the bars.
* `ExperimentLedger`: `PreRegister`/`AppendDecision` (read, verify, build),
  `Stage` (read again, write the staging file), `Replace` (rename), `Return`;
  `Abort` is a death or an `OSError` anywhere.
* `AvailabilityGate`: `Submit` is `normalize` and `submit`; a `release` is
  `StartRelease`, one `PopDue` per turn of its loop, `EndRelease`.
* `EvidenceSet`: `Start` hashes the source and tests which artifacts are there,
  `Read` takes the next one and checks its hash, `Validate` is all the validators,
  `WriteReport` the rename of the report, `Raise` any exception or death. `Change`
  is everybody else: a document is written, edited under its old hash, or removed.
* `ProbeRecorder`: `ObserveSlice` observes the mapping, counts the bar, asks for
  its session and reads the chain, raising where the code raises; `Evidence` is
  what `build_results` and `build_runtime_market_evidence` make of the state, and
  `EvidenceAccepted` what the validators require of it.
* `Lift2Runtime`: `Switched` is `_switch_contract` with the call that fails as a
  parameter; `Slice` observes the mapping and then measures the ticks.

## 3. Runs and what they show

Every run finishes the whole state space of its instance. Deadlock is not
checked: every model has a bounded number of deliveries, and ends.

* **engine** (1,083,137 states) - at most 4 trades and clocks 0..5 with a longest
  window of 3 minutes, so minutes leave the memory while trades still arrive; every
  call in every order. Volume is partitioned (`MinutesPartitionTrades`), windows are
  exact (`RollingIsExact`), the hard memory bound is never met, and the final
  Profile is never touched. A rolling snapshot is remembered at any moment (with at
  most 3 trades, `MaxCompared`): of the minutes it covered, those finalized by then
  hold the same trades in every later window (`PublishedMinutesStand`). A minute of
  the window not finalized yet promises no more: the engine refuses what is behind
  the last *non-empty* minute it closed, so a later trade may still join one, as
  *stream_late* shows.
* **stream** - three sessions of two types, one with a tail shorter than a bar
  and a closed minute after it, fast bars of 2 and medium bars of 4 minutes, 4
  trades each clean, unidentified or suspicious, ordered in time, and a
  finalization anywhere. Bars partition the trades (`BarsPartitionTrades`),
  snapshots contain exactly the trades before their clock
  (`PublicationsArePointInTime`), one snapshot per fast bar, the reference is
  the last final Profile of the same session type, `measurement_ready` vouches
  for clean data, and of all the exceptions the components may raise only that
  of an empty Profile can occur (`OnlyEmptyProfileRaises`).
* **transition** - three sessions of 1, 4 and 1 bars (24,605 states). The first
  final Profile is every histogram of up to three contracts a tick on five ticks;
  later bars trade one tick, at the edges heavily, so every place, tie, empty
  level and jump occurs. The value area holds 70 %, is as short as ties allow and
  prefers no side (`ValueAreaIsTight`); no record refuses what is computed, but
  for the entropy below (`OnlyEqualBinsRaise`); engine and features count the
  same closes (`OutsideBarsAgree`); counters agree with events, a stale excursion
  is only possible after a jump across the value area, and the events implement
  `ExcursionLog` (`WellFormedExcursions`).
* **aligner** - a session of 7 fast bars and one of 1, medium bars of 2, trades
  late by up to one bar, deques of 3, two gaps that may be retested by one bar,
  an Auction that may be unready. Availability times are distinct here; see
  *aligner_tie*.
* **iae** (19,803 states) - three parts. Gaps: bars chosen so that a gap forms, is
  tested, absorbed, broken and outlived (`MaxAge` 2), two gaps are retested by one
  bar, and a bar tests one gap while it forms another; missing bars, and a
  closure inside the second session. The identity of snapshots
  (`GuardsNeverStop`) is the bug `docs/DECISION_LOG.md:559` fixed: the mutant of
  this run removes `active_gap_count` again and TLC finds it. Medium bars: five
  days of up to two bars each, the last with a closure, any bar missing; limits of
  1 to 3 instead of 7 to 300, so that every memory fills and forgets.
  `BaselinesArePriorOnly` says which bars each memory and each number of a
  snapshot came from; `MediumStopsOnlyAfterClosure` that, whatever the arithmetic
  gives, the snapshots pass their validation. Calendars: each of the three
  reference policies with every set of four closures (early close, two halts one
  of which crosses midnight, a night closure across the clock change, a holiday)
  and the clock going forward, back or not; every instant of three days
  (`SegmentsPartitionTime`). Closures that overlap are handed in too, and refused.
* **ledger** (1,302,886 states) - two processes, two experiments, two rows.
  Without overlap nothing acknowledged is ever lost, through any crash. With
  overlap rows can be lost, but a file that still verifies is a legal history
  (`VerifiedIsLegal`). Or the artifacts: a complete set or none at first, up to four
  rewrites anywhere between the reads, runs repeated, failed or listed twice, rows
  missing, edited, repeated or contradictory. Evidence that passes is of one set
  (`AcceptedEvidenceIsOfOneSet`), although the reads are not atomic, because the
  manifest and the index vouch for the three documents by hash.
* **gate** (66,596 states) - eight records chosen to be early, late, corrected,
  refused or held by an exception, with release clocks that may even go backward;
  a release that was begun drains what is due (`ReleaseDrains`, under the fairness
  below).
* **runtime** (1.11 million states) - three contracts, four times, two ticks per
  slice, every failure point of a switch; roll states attached to trades never
  need revision (`RollStatesAreFinal`). There is one stream per mapping
  (`OneStreamPerMapping`), after failed switches too. One that fails at the
  subscription leaves the old stream both completed and current, the mapping
  observed, and symbol and contracts as they were (a refused observation would too,
  and none occurs); streams opened, symbol, contracts and roll count still agree,
  and that double state is only ever left in a stopped runtime and never
  summarized. Two mutants break it: a switch that adopts the new contract before it
  is subscribed, and one that keeps the old stream. For the futures probe: bars and chains
  present or not, a calendar that does not cover a bar, a contract refused in the
  middle of a chain, events late or not at all; its evidence passes its
  validators and agrees with what was given (`EvidenceReconciles`). For the CFTC
  probe: three objects on two dates, in any order; one row per date, totals that
  count all (`DeliveriesReconcile`).

Violations, each a disagreement between the code and a sentence of the
repository (quoted under "findings" in `PROJECT.json`):

* **stream_empty** - a session whose trades are all quarantined has an empty
  Profile, and leaving or finalizing it raises and ends the run.
* **stream_late** - a late trade behind a rejected one enters a bucket that was
  already published.
* **aligner_tie** - with equal availability times the aligner returns the oldest
  snapshot, not the latest, and may still call the alignment ready.
* **ledger_separator** - a text with U+2028 makes the ledger unreadable.

Why these bounds are enough. Each run reaches its interesting case with room to
spare: a window of 3 within 6 minutes expires buckets twice; three sessions give
a reference, a session without one and a session in between; two gaps, two
experiments and two processes are the smallest number with an interaction; three
contracts make a roll back to an earlier contract different from a first
mapping. Every property is also broken by a mutant of the code it is about
("mutants"), within the same bounds. The theorems below remove the bounds where
they could matter most.

**Fairness.** `FairSpec` of `AvailabilityGate` assumes weak fairness of `PopDue`
and `EndRelease` and of nothing else. Both are turns of the `while` loop inside
one call of `release` and its return: once the call has begun, the interpreter
goes on with it. That anybody calls `release`, or `submit`, is not assumed. The
other properties are safety properties. A stream acts only when a trade arrives
and LEAN owes it no further trade, the ledger's and the check's processes may die,
and the probes answer when they are called: no progress is promised there that
fairness could support.

## 4. Theorems

Proved for all values of the constants (bounds like `MaxTime` are any naturals).

* `VolumeProfileProofs` - type correctness and all five properties of the engine,
  which runs the same beside its rolling snapshots (`PublicationsRunEngine`).
  Inductive invariant: volume is partitioned up to the last finalization clock,
  minute buckets are *spaced* (ends strictly increase), they all end within
  `RollingMax` of the latest one (`WithinMemory`, what bounds the memory), the
  open minute is later than every finalized one, a frozen final snapshot is the
  whole session. `MinutesPartitionTrades` alone is not inductive: a late trade
  could reopen a minute unless the open minute is known to be later than all
  finalized ones. The bound of the memory follows because more than
  `RollingMax` strictly increasing ends do not fit within `RollingMax` minutes.
  For snapshots of two moments the invariant (`PublishedRight`) says that the trades
  shown are admitted ones, and those of the final minutes all of them: no step
  admits a trade into a finalized minute, and windows are exact at both moments
  (`PublishedStand`).
* `StreamFeedProofs` - all seven properties of the stream, for any calendar, bar
  lengths, windows and number of trades of an ordered feed. A call is one step of
  many stages, so the proof has a predicate between stages: `Kept(s, A, D, k)` says
  that a running stream is right at the clock `k` when `A` was admitted and `D`
  delivered, and each stage has a lemma that takes it from the last clock to this
  one (`CloseDueBarsKeeps`, `FinalizeProfileMinutesKeeps`, `OpenSessionKeeps`,
  `IngestKeeps`). `Closing` is its form between the boundaries of
  `_process_due_bars`, when a bar is completed and not yet published. What makes it
  work is an order of clocks none of the properties mentions: the minutes finalized
  end by `k`, the open minute at most one later, an open bar after `k` and inside its
  session, the watermarks of the indicators by `k`. So a closed bucket never reopens,
  a boundary is never behind a minute, and the windows read off at a boundary are
  exact by the lemma on the Profile (`WindowIsExact`). `Told` is the part that stays
  true after an exception or the final call; `StreamInv`, the inductive invariant,
  is `Told` always, `Kept` while the stream runs, and every session taken once it has
  been finalized.
* `AuctionTransitionProofs` - the engine implements `ExcursionLog` for any number
  of bars. The invariant ties the private fields to the log: `active` and
  `direction` are those of the latest exit, no re-entry has closed it, and
  `migrated` tells whether its migration was emitted. `CountersMatchEvents` is not
  inductive: that re-entries never outnumber exits needs that they are *fewer*
  while an excursion is active (`Counted`). `LeftOnlyByJump` needs that an active
  excursion has a reference (`RunsUnderReference`). The engine driven by the
  publication path is the engine driven by any bars (`PathRunsEngine`), so all of
  this holds there (`PathGuarantees`), and engine and features count the same
  closes (`OutsideBarsCounted`). What the path reads off a histogram is proved of
  every histogram. First the library's sum is shown not to depend on the order it
  takes the ticks in (`SumIs`, `SumUnion`), then the loop of `select_value_area` is
  followed turn by turn: what it holds after each turn (`LoopRight`), that the
  area before the last turn was too small, and that an area grows by the heavier
  side (`Preceded`, `TopLevels`). So the area is as short as ties allow
  (`AreaIsShortest`) and that of the mirrored histogram is its mirror image
  (`AreaMirrors`): `ValueAreasAreTight`. On the path the volume is always a
  histogram and the reference an earlier area (`ProfilesRight`), hence the
  records accept all but an entropy above one (`OnlyEntropyRaises`).
* `AvailabilityGateProofs` - nothing early, nothing twice, order, for all records,
  schedules and clocks. The invariant says what a withheld datum knows: its
  usable time bounds its clocks, and it comes after every event released since
  it was submitted (`PendingFollow`), which is what a clock that goes backward
  could break.
* `QuantConnectHostProofs` - the runtime under any contracts, mapping history,
  ticks and failing call: trades under the mapping of their time, roll states
  final, one stream per mapping. The invariant (`RuntimeRight`, `Accounted`) says of
  every stored trade that its roll state is the one its own time still gives: an
  observation is visible from its time on, a slice observes before it measures,
  and time moves on between slices, so no later observation is visible to an
  earlier trade. A runtime stopped by an exception need not be `Accounted`; what it
  is instead is `Interrupted`, every opened stream completed, the last one still
  current, and at most one mapping observed without a stream (`SwitchInv`). From
  this `StreamsAccounted` follows through every failure; that the old stream is not
  *also* the current one unless the runtime stopped needs that no mapping is
  observed twice in a row (`NewsDiffer`). The futures probe (`ProbeInv`): as long as nothing raised,
  bars, clocks and keys are those of the slices given, an event due names contracts
  mapped so far, and a slice comes after all bars, so the evidence satisfies its
  validators whenever it is asked for (`EvidenceIsRight`). The CFTC probe
  (`CftcInv`): the rows by date are the last object of each date, and the totals
  count them all (`DeliveriesAreRight`).
* `ResearchRecordsProofs` - the ledger and the rebuild check. `AppendOnly` and
  `ChainIntact` need what an operation in flight carries: the row fits the file's
  last hash, the staged content is the file and that row (`InFlight`), which only
  absence of overlap preserves. `VerifiedIsLegal` holds with any overlap: a row's
  hash stands for the contents it was checked against, every row anywhere -
  in the file, in a staged content, in flight - is legal after *those*
  (`Vouched`), and a file that verifies has no other contents before it. For the
  check, `CheckRight` says that the documents validated are those it ends with.
* `SnapshotAlignmentProofs` - an alignment uses the latest snapshot, a ready one is
  current, an event names its own snapshot, for any deque bound above the number
  of live gaps. The invariant (`Known`): the last snapshot of a deque is the latest
  ever recorded, and the order of bars is the order of availability; without
  that, "latest by availability", which the code computes, is not "latest by
  bar", which is meant. It is also why a bounded deque loses nothing that counts.
* `IndicatorsProofs` - the gap engine and the medium engines. Gaps: what the engine
  holds is of one segment and of consecutive bars (`WindowRight`), untested gaps
  are the unreported ones (`GapsRight`), so a live gap is as old as the bars since
  it formed; identities of a bar's snapshots do not collide because each first
  retest names its own gap, and where the bar's own snapshot names that gap too the
  two differ in what is hashed or in nothing; and a bucket meets a session twice
  only after a closure (`BucketsRight`). The loop over the gaps is a
  recursive function, and its lemma (`WalkRight`) is proved by the least turn that
  could break it. Medium engines: every memory holds, in order, the latest of the
  bars that belong in it (`Memory`), so its length tells how many there were; the
  length is what the code's warmups read, the bars are what the property is
  about, and this is the link. Calendars (`CalendarsPartitionTime`), for any windows
  that partition the day, any accepted closures and any jump of the clock: a wall
  outside the jumped hour divides the instants into those before and those after
  it, although the local clock is not monotone (`WallDividesTime`). Windows and
  closures cut wall-clock time into cells (`CellIs`), two instants of one cell see
  the same cell (`SameCell`), and with the first fact the cells carry over to
  instants. Where two cells of one session meet there must be a closed instant, or
  a closure would lie wholly in a skipped hour (`WallsMeetAtTheSkip`); this the
  proof found, and `ClearOfTheChange` now excludes it.

Assumptions: those on the constants (`WindowAssumption` and the like, each
evaluated by TLC), and three hypotheses stated in the theorems themselves.
The theorems on the stream assume an ordered feed (`Ordered`): `stream_late` is the
counterexample without it.
`SerialChainIntact` assumes that no text holds a line separator JSON leaves
unescaped: `ledger_separator` is the counterexample without it. The theorems on
the aligner assume that two closings never share one availability time
(`Distinct`): `aligner_tie` is the counterexample without it. Of the assumptions on
constants, the ones with content are: segments are in order, with a hole inside
a session cut by a closure, and none of another session in between, which is
what `SessionEngine` gives; sessions of a calendar do not overlap; times of day
are below midnight (`CalendarAssumption`); openings and bars are histograms, that is
finitely many ticks with a positive volume each (`PathAssumption`), as
`_validated_histogram` requires; a slice holds at most one chain of a root, and
fields are finitely many (`HostAssumption`); a fast bar is shorter than a medium
one and divides it (5 and 30); a deque of the aligner is longer than the number of
gaps alive (512 and 48); a bucket is warm within its bound (`MinPrior <= MaxPrior`,
both 30).

The type invariants of the proved modules are inductive parts of these
proofs and are proved, not run.

Every safety property of the runs is proved. Only model-checked is `ReleaseDrains`:
it is liveness, which needs `ENABLED` for its fairness and is out of this prover's
reach.

## 5. What the models assume

* `stream` is given an ordered feed, which is what LEAN documents for tick data;
  `stream_late` shows what an unordered one does.
* `aligner` has no two trades of one availability time; `aligner_tie` drops this.
  Its feed is ordered: a closing trade is not older than a bar already closed.
  Its deques hold at least the snapshots of a medium bar, as 512 does: 48 live
  gaps at most give 49 snapshots per fast bar, and `LiveGapsAreContiguous` of
  `iae` is why there are no more.
* `runtime`: a mapping event and the mapped property agree at one time; LEAN stops
  calling an algorithm whose handler raised, so nothing summarizes what a failed
  switch left, where the old stream stands twice. LEAN
  delivers one slice per time, in order: bars come with holes, but never twice or
  backward, and the flag for such a bar is modelled and not reached.
* `transition`: sessions follow each other with one type, so that the reference of
  a session is the final Profile of the one before (`ReferenceIsPriorFinal` of
  `stream` is about types). The entropy of *n* equal bins divided by log *n* is 1 in
  exact arithmetic; in floats it exceeds 1 for *n* = 5, 12, 13, 18, 24, 26, 27, 31
  and others, and `AuctionFeatureVector` then raises
  (`measurement_records.py:300`). `EntropyRoundsUp` names those numbers, found by
  evaluating the code's expression, and `OnlyEqualBinsRaise` says that this is the
  only refusal; with five equal bins the run does reach it.
* `iae`, calendars: no window or closure begins or ends strictly inside the hour
  the clock repeats or skips (`ClearOfTheChange`), as none of the reference
  policies does. The code compares wall-clock times without their `fold`, so a
  boundary there would be ambiguous; at the edge of the hour it is not. Nor does a
  closure coincide with a skipped hour: it would cut a session into two segments that
  adjoin, with no closed instant in between. The windows partition the day and
  differ in name, and none has the type CLOSED (`PartitionsTheDay`): as in the
  reference policies. The constructor asks for none of the three; an instant
  in a hole of the day is refused, and two windows of one name, type and date would
  share a session identity.
* `ledger`, artifacts: the presence test is one step; a version of the source
  stands for all hashes of the source contract and for the git revision. Three
  things the check does *not* promise, and the property therefore does not say: the
  runtime evidence's own source hash is never compared (only the manifest's is);
  a coverage row contradicted by a later row of its run goes unseen, since rows
  are kept in a dictionary by run; and a check that raises leaves the report of
  the last one, which may say PASS, in place.
* `ledger`: rename is atomic, as POSIX has it; hashes do not collide. No claim
  is made for overlapping writers beyond `VerifiedIsLegal`.
* `iae`: a time-of-day bucket keeps one session instead of 30, the ATR is warm
  after 2 true ranges instead of 24; both only move the time from which retests
  are scored and gaps form.

## 6. Not modelled

* Numerics: the quadratic fit, the shrinkage covariance and the Mahalanobis
  distance, moments of a Profile, scores. They are real arithmetic, which TLC does
  not have; what their outcome *decides* is modelled as a free choice.
* Field validation of immutable records and schemas (`domain/schemas.py`, most of
  `measurement_records.py`): checks of one text, time zone or number, which a unit
  test reaches. The refusals that depend on several computed fields are modelled.
* Configuration (`config/*.py`): tables and canonical forms without behaviour.
  Their bounds are the CONSTANTS here.
* Manifests (`ledger/run_manifest.py`, `closure_manifest.py`), the Lift 1 build of
  `scripts/build_manifest.py`, the coverage report, export and QuantBook probe
  (`research_lib`): one pass over finished inputs, with no state between calls.
* Contract manager and quality rules: an insert-once dictionary and an order on
  an enumeration. Futures registration: one call per market, no state.
* `candidate_coverage` and `measurement_hash` of the stream: pure reports.

## 7. Plan

Everything that keeps state in the program is modelled, but for the dictionary of
the contract manager, and every safety property the runs check is proved. What a
next step could be:

1. That `SegmentsOf` numbers the segments of any calendar in order, as the
   assumptions on `Segments` and `MediumSegments` say: `CalendarsPartitionTime` gives
   the segments, the numbering by cardinality is left. The calendars of the `iae` run
   have holes, so `PartitionsTheDay` would have to be weakened first.
2. The session boundaries of the stream as those of a calendar, instead of any that
   do not overlap.
3. `ReleaseDrains`, with a prover that has `ENABLED`.
