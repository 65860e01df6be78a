# Verification of oci-log-analytics-detections

TLA+ models, TLC runs and TLAPS proofs about the parts of this repository that keep
state, run concurrently or repeat remote calls:

- the **Splunk evidence exporter** (`src/scripts/splunk_evidence_exporter/`), an OCI
  Function that copies the evidence behind a detection alarm from Log Analytics to
  Splunk, with its checkpoint, delivery ledger and dead letters in Object Storage;
- the **Forge gateway** (`src/webapp/app/api/forge/convert/route.ts`), a rate-limited
  endpoint over a remote and a local converter;
- the **Wazuh bridge** (`src/scripts/wazuh_to_oci_la.py`), which pages through an
  indexer and uploads to Log Analytics;
- the **dashboard deployment** (`src/scripts/deploy_dashboard.py`);
- the file maintenance of the **Sigma converter** (`src/scripts/convert_sigma.py`).

The rest of the repository is detection content and batch tools that transform text.

## 1. Inventory

### 1.1 The exporter

| Component | State it keeps | Operations | Source |
|---|---|---|---|
| Export service | locals of one invocation: window, keys reserved, batches, confirmed keys, ETag of the checkpoint | `export` (one per alarm notification), `_delivery_outcome` | `service.py`, `handler.py` |
| Checkpoint store | one watermark object per detection and dimensions, with its ETag | `load_checkpoint`, `save_checkpoint` | `object_storage_adapters.py:33-129` |
| Delivery ledger | one object per event key: absent, reserved until a time, delivered | `reserve`, `mark_delivered`, `release` (does nothing) | `object_storage_adapters.py:131-213` |
| Dead-letter store | append-only records of what an export did not deliver | `quarantine`; replay reads | `object_storage_adapters.py:216-317` |
| Replay service | locals of one replay | `replay` (an operator calls it with one record) | `service.py:420-650` |
| Sink delivery | attempt number, acknowledgement polls | `deliver` (HEC, HEC with indexer acknowledgement, Streaming), `classify_hec_failure` | `hec_adapter.py`, `streaming_adapter.py`, `retry.py` |
| Window and batching | none | `calculate_window`, `batch_events` | `window.py`, `envelope.py:406-429` |
| Log Analytics, metric and Vault adapters | none | one SDK call each | `adapters.py` |

How they interact:

```
 Notifications --alarm--> export() --query--> Log Analytics
                            |  \---reserve / mark_delivered---> ledger object per event
                            |---deliver (attempts, polls)-----> Splunk HEC or OCI Streaming
                            |---quarantine--------------------> dead letters
                            \---load / conditional save-------> checkpoint
 operator --record--> replay() --deliver--> sink;  --quarantine--> dead letters;
                               --load / conditional save--> the same checkpoint
```

Nothing is held in memory between invocations; several instances of the
Function run at once for one detection. They meet only in Object Storage, through
reads and ETag-conditional writes, and in the sink, which keeps whatever it took
in. What is hard about it:

- *interleaving*: two exports reserve, send and mark overlapping sets of events
  key by key; exports and replays write one checkpoint;
- *ordering and repetition*: Notifications is at-least-once and unordered, log
  lines become searchable late, operators replay a record twice;
- *failure*: any call may raise, before or after it took effect; the platform
  kills an invocation at its timeout; a sink answers, or not, regardless of what
  it stored;
- *time*: a reservation is a lease; polling ends at a deadline that may pass
  during a request.

What makes each part correct:

- export: exclusive reservations; the checkpoint only after confirmation and
  marking; an exact account of everything reserved, in receipts and dead letters;
- ledger: one holder, a bounded loop that is never exhausted, "delivered" for good;
- checkpoint: not moved backwards;
- replay: nothing lost and nothing claimed that was not received, through replays
  of replays; the checkpoint only moved forward, and only after delivery;
- delivery: success means stored (and indexed, in acknowledgement mode); a repeat
  only where one is warranted; an end to the loop.

### 1.2 The other stateful parts

| Component | State | Operations | What is hard | What makes it correct |
|---|---|---|---|---|
| Forge gateway | one table of buckets in the process; per request a conversion and its timer | `rateLimit`, `proxyToBackend`, `runLocalScript`, `POST` | requests interleave at each `await`; a full table; a time-out that starts another conversion | no client above its quota in any window, whatever the others do; a bounded table; a refusal only when it is due; an answer within bounded time |
| Wazuh bridge | none between runs; a cursor, the documents read and the batch at hand | `read_indexer_documents`, `_upload_batch`, `run` | the index grows while it is paged; an upload may be stored without an answer; windows of consecutive runs | nothing is skipped; exit 0 means stored; no gap between windows |
| Dashboard deployment | dashboards and saved searches in the tenancy | `cleanup_soc_content`, `delete_existing_dashboard`, `import_dashboard`, `deploy` | deletes before it imports; repeats an import that may have been applied; nothing keeps two runs apart | one dashboard per title; no loss that nobody reports; no dashboard without its searches |
| Sigma converter | the query files and the catalogs that list them | the index of existing files, `resolve_output_relative_path`, the sweep, the refresh | orphans of renamed rules; kills between write, sweep and refresh | the files that dashboards name survive |

They do not interact with the exporter or with one another at run time: the
converter writes the query files that the deployment reads, the bridge fills the
Log Analytics that the exporter queries.

### 1.3 The rest of the repository

| Component | What is in it | Status |
|---|---|---|
| Exporter CLI, registry generator, supply-chain gate | single process, files in and files out | not modelled |
| Exporter Terraform stack | declarative; source of the models' numeric assumptions | not modelled |
| Sentinel converter, the translation of a Sigma rule | text translators: their output is their whole behaviour | not modelled |
| Dashboard inspection tools, other ingestion scripts | sequences of calls run by hand, without retries or state | not modelled |
| Catalogue, report and content generators | batch scripts over files | not modelled |
| Tenancy configuration, ORM build | stateless | not modelled |

`PROJECT.json` lists every component with its sources and every hazard at its line.

## 2. Modules

| Module | Models | Used by |
|---|---|---|
| `EvidenceExport` | `export()` by several concurrent invocations over all the stores | `MCEvidenceExport`, `EvidenceExport_proofs` |
| `EvidenceStores` | abstract: what exports and replays may each do to the sink, the dead letters and the checkpoint they share | instantiated by `EvidenceExport` and `EvidenceReplay` |
| `AtomicLedger` | abstract: what the ledger promises for one key, in one step per call | instantiated by `EvidenceExport` and `DeliveryLedger` |
| `AtomicDelivery` | abstract: what a delivery promises its caller, in one step per attempt | instantiated by `EvidenceExport` and `EvidenceDelivery` |
| `DeliveryLedger` | `reserve` and `mark_delivered` request by request | `MCDeliveryLedger`, `DeliveryLedger_proofs` |
| `EvidenceDelivery` | `_delivery_outcome` of one batch with all three adapters | `MCEvidenceDelivery`, `EvidenceDelivery_proofs` |
| `EvidenceReplay` | `replay()` by several operators against running exports | `MCEvidenceReplay`, `EvidenceReplay_proofs` |
| `ExportComposition_proofs` | that `EvidenceExport` keeps to what the other modules assume of it: `AtomicLedger`, `AtomicDelivery`, `EvidenceStores` | |
| `ForgeGateway` | the bucket table and the conversions of concurrent requests | `MCForgeGateway`, `ForgeGateway_proofs` |
| `WazuhBridge` | the indexer, and the bridge's runs one after the other | `MCWazuhBridge`, `WazuhBridge_proofs` |
| `DashboardDeploy` | several runs of `deploy` over one compartment | `MCDashboardDeploy`, `DashboardDeploy_proofs` |
| `SigmaConverter` | the query files over runs of the converter | `MCSigmaConverter` |

Of the exporter's modules each abstracts the one below, and says by what right:

- `EvidenceExport` takes a ledger call to be one step. `DeliveryLedger` implements
  `AtomicLedger` (theorem `LoopsAreAtomic`), and for each event `EvidenceExport`
  with the mapping `StageWith` is a behaviour of `AtomicLedger` (theorem
  `ExportsUseLedger`). So it relies on nothing that the loops do not provide, the
  timeout included: both models let an invocation run for `FunctionTimeout`, less
  than a `Lease`.
- `EvidenceExport` takes a delivery attempt to be one step that succeeds with the whole
  batch stored, or fails with any part of it stored, and `EvidenceReplay` a whole
  delivery. `EvidenceDelivery`, with its posts, polls and retries, implements
  `AtomicDelivery` (theorem `DeliveriesAreAtomic`), and each invocation of
  `EvidenceExport` is a behaviour of `AtomicDelivery`, the other invocations and the
  replays being where else the sink's events come from (theorem `ExportsUseDelivery`).
- `EvidenceExport` and `EvidenceReplay` each run one side in full and the other as
  `EvidenceStores` describes it: `EvidenceExport!Replay` is any step of the replays'
  part, `EvidenceReplay!ExportDelivers`, `ExportFails` and `ExportSaves` are the
  exports' part. Each side is proved to do no more than its own part *while the other
  does anything within its part* (theorems `ExportsKeepPart`, `ReplaysKeepPart`): a
  step of one side is checked against the invariants that hold up to that step, so the
  two assumptions support one another step by step and the argument is not circular.
  `EvidenceReplay`'s bound on saves by exports (`MaxExportSaves`) is any number in the
  theorems, and its `Checkpoints` are the alarm times of `EvidenceExport`.

### 2.1 EvidenceExport

One step is one remote call; `pc[i]` is the call that comes next.

| `pc` | Code | Action |
|---|---|---|
| `idle` | Notifications invokes `handler` | `Notify`: any alarm whose time has come, any number of times, in any order |
| `load` | `load_checkpoint`, `calculate_window` | `LoadCheckpoint`; a window that is inverted or too long raises |
| `query` | `query_evidence`, then `clock()` | `Query`: all indexed events of the window, or any `MaxRows` of them |
| `reserve` | `ledger.reserve` per row | `Reserve`; what is refused is left out |
| `batch` | `batch_events`, the loop head, the code after the loop | `TakeBatch`, `NoEvidence`, `PutCheckpoint` |
| `deliver` | one attempt of `_delivery_outcome` | `AttemptSucceeds`, `AttemptFails` |
| `quarantine` | `dead_letter.quarantine` and the metric | `Quarantine` |
| `mark` | `ledger.mark_delivered` per event | `MarkDelivered` |
| `save`, `reload` | the loop of `save_checkpoint` | `PutCheckpoint`, `ReloadCheckpoint` |
| `done`, `raised` | a receipt was returned; an exception or a kill | `Return`, `Abort` |
| any | an operator's `replay()` of a dead letter, meanwhile | `Replay` |

`Abort` is possible at every step. A write that was applied and then raised is a
branch of its own where it matters (the dead letter, the checkpoint); for a
reservation and a mark it is the step followed by `Abort`. The clock (`Tick`) does
not pass the Function timeout of a running invocation, nor the indexing deadline of
an event. An event stands for its event key, which does not depend on the
window (`envelope.py`), so overlapping exports see the same event. Modelled but
without state of their own: the row limit, the batch limit, the maximum window.
Left out: the registry and contract checks at the start of `export` (they refuse
a trigger before anything happened) and metrics, whose failure is an `Abort`.

### 2.2 DeliveryLedger and AtomicLedger

Keys have one object each and do not interact, so the module models one key. Its
`document` and `version` are the object and its ETag. `ReserveGet`, `ReservePut`,
`MarkGet` and `MarkPut` are the requests; between the read and the write it decides
any other caller may step; a `412` (`Conflict`) reads again, up to `MaxTries`
rounds. A caller that ended starts again as another invocation, for ever. In
`AtomicLedger` the reads are gone and `Grant`, `Refuse` and `Mark` are single steps;
`Refuse` is allowed only on a key that is delivered or under an unexpired lease.

### 2.3 EvidenceDelivery

`Post` is one HTTP post or `put_messages`, with the answers as the adapters tell
them apart and *independently* any part of the batch stored, as far as an honest
sink allows: it reports a complete success only when it stored everything.
`PollOrGiveUp` and `Ask` are the acknowledgement loop: it is polled also for an
unusable `ackId` if that is an integer, as in the code. `Classify` is
`classify_hec_failure` and the loop's decision. `Index(k)` is Splunk indexing the
post of attempt `k`, possibly never. The lengths of the back-offs are not modelled;
any time may pass between two steps.

### 2.4 EvidenceReplay

`Begin` picks any record in the dead-letter store, including one being replayed or
one replayed before; the old record stays after a replay, as in the code. The steps
follow `replay()`: batch, delivery, a new record or the checkpoint comparison, then
the loop of `save_checkpoint`. `ExportDelivers`, `ExportFails` and `ExportSaves` are
the exports, as far as `EvidenceStores` lets them go; replay reads neither the ledger
nor the alarm, so nothing else of an export matters to it.

### 2.5 ForgeGateway

JavaScript runs one callback at a time, so `rateLimit` is one step: `CountInBucket`,
`OpenBucket` (which reclaims dead buckets of a full table first) or `TurnAway`.
Requests interleave where `POST` awaits: the body (`RejectBody`, `Begin`), the remote
converter (`Convert`, `FallBack`), the local one (`Convert`, `Fail`). A converter may
answer at any time until its timer fires; the clock (`Tick`) does not pass a timer.
A local process is settled once, because a promise takes its first settlement and
ignores later ones; so its events after that are not modelled. `admitted` is a
history variable: when each admitted request was counted.

### 2.6 WazuhBridge

A document is its place in the sort order `(timestamp, _id)`. `Index(d)` puts it
into the index up to `MaxLag` after its timestamp, also between two pages. `Start`
opens the point in time or fails to; `ReadPage` is one search with its retries,
`EndOfPages` the empty page. `UploadSucceeds`, `UploadRefused` and `UploadUnsettled`
are one upload each; an unsettled one may have been stored. `Raise` is everything
that ends a run at once: the retries of a search used up, the write guard, a kill.
Log Analytics recognises a document it has (as `docs/WAZUH_INTEGRATION.md` says), so
what it stores is a set. `excused` is a history variable: what failed runs were to
forward.

### 2.7 DashboardDeploy

Each of `Runs` is one call of `deploy` with any selection of titles, with `--cleanup`
or without. `List`, `ListFails`, `Delete`, `DeleteFails` are the requests of
`delete_existing_dashboard` and of the same code in `cleanup_soc_content`; `Sweep`
deletes saved searches. `Imported`, `Refused` and `Unsettled` are one attempt of an
import: the first is confirmed, the others may or may not have been applied. The
identifier ends in the second it was made (`stamp`), before the retry loop; a deleted
identifier stays in use. The history variables `alone`, `spared`, `remover` and
`stripped` say who did what, for the properties.

### 2.8 SigmaConverter

Paths are numbers, in the order in which files are walked. `Begin` builds the index
of existing files; `LeaveOut`, `Skip` and `Write` are the three ways a rule is handled
in `main`'s loop, in any order, as the directories are walked in no fixed one; `Sweep`
removes the stale duplicates, or those of them that can be removed; `Refresh` runs
after a sweep that removed something. `Die` kills a run, in the middle of writing a
file too, which truncates it. `Edit` is a maintainer between two runs. Initially any
files exist, duplicates too: the code's comments say that renames left some.

## 3. Runs

| Run | Result | What it shows |
|---|---|---|
| `export_safety` | pass | Two invocations, reordered and repeated alarms, a late log line, failing sinks, crashes, takeovers: reservations are exclusive and leased while used; ledger, dead letters, receipts and checkpoint tell the truth, while replays go on; one save moves the watermark back by at most the overlap; the exports compose with the other modules (`Composes`): for each event a behaviour of `AtomicLedger`, for each invocation one of `AtomicDelivery`, and no more done to the stores than `EvidenceReplay` assumes |
| `export_live` | pass | Every reserved event is delivered and marked, or dead-lettered, or its invocation is lost |
| `ledger` | pass | Three callers, lost answers, deaths, takeovers: one holder; at most one lost write per `reserve` and none per mark; the loops implement `AtomicLedger` |
| `replay` | pass | Two replays of the records of two exports, exports saving meanwhile: records stay exact, the checkpoint is evaluated only after delivery and moved only forward (`ReplaysKeepToTheirPart`, which says so of every replay's save) |
| `delivery` | pass | Every answer and every stored part, three attempts, all adapters: success is confirmed, repeats are justified, retries are used up, the loop ends, and the whole is a behaviour of `AtomicDelivery` |
| `export_takeover` | violation | Finding 1 |
| `export_watermark` | violation | Finding 2 |
| `delivery_outage` | violation | Finding 3 |
| `forge` | pass | Two connections, three clients, a table of two: quota, bound of the table, justified refusals; a conversion is bounded in time and ends, also when both converters hang |
| `wazuh` | pass | Four documents of two sources, late and during the paging, failing and unsettled uploads, run after run: reading is exact, exit 0 is true, no gap between windows, every run ends |
| `dashboards` | pass | Two runs over two titles at once, with and without cleanup, failing listings, deletions and imports, kills: losses are accounted for, one dashboard replaces all, none stays without its searches |
| `sigma_sweep` | violation | Finding 4 |

Every property of a passing run is broken by a mutant of a definition that models
code (`PROJECT.json`, `mutants`): a dropped lease check, an unconditional write, a
checkpoint after the first batch, only the failed batch dead-lettered, an `ackId`
taken for an acknowledgement, and so on. The mutated forms stand next to the
definitions, marked "Mutant".

### Findings

1. **A crash is not recovered by lease takeover.** The ledger promises that "a crash
   is recoverable by lease takeover" (`object_storage_adapters.py:211`). `export()`
   leaves out the events another invocation holds and still saves its window's end
   as the checkpoint (`service.py:237, 304`). If the holder crashed, no later window
   reaches back to them, so nobody ever asks for them again: they are neither
   delivered nor dead-lettered (`ReservedStaysRecoverable`). Nothing but an invocation
   that raised or was killed loses events this way (theorem
   `OnlyLostInvocationsLoseEvents`).
2. **The checkpoint can move backwards.** Three places say that a slower alarm cannot
   replace a later checkpoint (`service.py:175`, `object_storage_adapters.py:83`, the
   runbook, line 229). The first conditional write of `save_checkpoint` compares the
   ETag that was loaded before, not the watermarks (`CheckpointNeverRegresses`). An
   older alarm that is processed after a newer one replaces it, whenever its window is
   still valid. By at most the overlap, though: that is
   `CheckpointRegressionBounded`, which is checked and proved. With an overlap of zero
   the claim is true (theorem `NoOverlapNoRegression`).
3. **An unreachable HEC is not retried.** The design promises "Retry and DLQ" for a
   Splunk outage. A refused or reset connection becomes a `RuntimeError`, which
   `retry.py` sends to quarantine at once (`OutageIsRetried`). Only outages that show
   as a timeout, 408, 429 or 5xx are retried. The same classification holds for any
   exception of the Streaming client that carries no status.

4. **The converter's sweep may delete a dashboard's query file.** When several files
   hold one sigma id, the converter is to keep the one "that `deploy_dashboard.py`
   references" (`convert_sigma.py:178-201`). It looks for `"query_file"` in the text of
   that script, but the table has been moved to `dashboards/definitions.py`, so the
   search finds nothing (`QueryFileEntries`). The first path in sorted order is kept, and
   the sweep deletes the other (`WidgetsKeepTheirQuery`). In the present tree the only
   duplicate happens to be ordered the right way.

Disagreements that were read, not run:

- `docs/WAZUH_INTEGRATION.md:146` advises an interval that matches "or slightly
  exceeds" the lookback "so no gap forms". That leaves gaps; the timer in
  `deploy/wazuh/` (15 minutes against 20) is right. `NothingMissed` holds under
  `ScheduleAssumption`, period + lag + reading time <= lookback.
- `wazuh_to_oci_la.py:302` says that 4xx answers surface immediately; the handler at
  line 307 catches them and retries.
- `wazuh_to_oci_la.py:441`: `--batch-size 0` uploads empty batches and exits with 0.
- `.github/workflows/ci.yml:66-70` expects `convert_sigma.py --validate` to exit
  non-zero on warnings; it only prints them.
- `convert_sigma.py:742`: catalogs whose refresh failed are not refreshed by the next
  run, which exits with 0.

### Bounds, and why they are enough

- *Two invocations.* Every hazard listed for `export` is between two parties, a
  holder and a taker, or an older and a newer writer; a third only repeats one of
  them. The ledger, where a third party can get between a read and its write, has
  three callers, who restart without limit. The theorems hold for any number.
- *Two events with batches of one*: a confirmed batch before a failing one, a batch
  never tried after it, and two keys reserved in either order. `MaxRows = 2` does not
  cut rows in the runs; `IndexDelay` already makes any subset of a window a possible
  answer, and the theorems hold for every `MaxRows`.
- *Times.* Event times 2 and 3, alarms at 2, 3 and 4 with an overlap of one and a
  longest window of two: an older alarm after a newer one is sometimes acceptable
  (3, then 2) and sometimes out of range (4, then 2), and a repeated alarm always
  overlaps. `MaxTime = 4` lets a lease of two, taken for alarm 2, expire and be
  taken over by a later alarm's export; the violation runs go on to time 6.
  `FunctionTimeout = 1`, `Lease = 2` keep the one relation that matters (600 s of
  lease against at most 300 s). The liveness and violation runs use fewer
  alarms, and the liveness run, which is not about late rows, has `IndexDelay = 0`.
- *Two attempts and two checkpoint writes* have a retried and an exhausted case each
  (the code has 1-10 and 3). `MaxTries` is 4 as in the code.
- *Delivery*: three attempts give a first, a middle and a last one; two polls against
  a deadline of two and a clock to three let either end the polling first.
- *Replay*: three watermarks with an overlap of one allow an export to save a newer,
  an equal and an older one between a replay's comparison and its write;
  `MaxExportSaves = 2` allows two such changes, hence a conflict that is lost twice.

- *Forge*: three clients against a table of two fill it with others' buckets; a quota of
  two has a first, a last and a refused request; a window of two and arrivals up to time
  two reach past the end of one bucket into the next; with a time-out of one the
  fallback ends at time five at most. `RemoteConfigured = FALSE` is the same without
  `FallBack`; the theorems cover it.
- *Wazuh*: four documents with pages of two make a full page, a second one and an empty
  one; two of one timestamp; three of one source make two batches, so that a failing
  batch can precede a succeeding one. `MaxTime = 8` against a lookback of four lets
  every document leave the window, over four runs; the schedule is at its limit
  (1 + 2 + 1 <= 4): without the assumption, a reading time of two loses a document.
- *Dashboards*: two runs, as every hazard is between two; two titles, so that cleaning
  up all precedes replacing the first; two attempts, a repeated and a last one;
  `MaxTime = 1` gives identifiers that coincide and that differ.
- *Sigma*: one rule, two paths and two runs suffice for the finding.

Symmetry is used only in runs without liveness properties, over identifiers that no
definition distinguishes (invocations; callers; replays, exports and events; runs and
titles of the deployment). `Composes` is a conjunction over all events and all
invocations, and symmetric in the latter.
`CHECK_DEADLOCK FALSE` everywhere: invocations, replays, deliveries and deployments end,
and the clocks of the others are bounded.

### Fairness

`EvidenceExport!FairSpec` assumes weak fairness of each invocation's own steps: the
platform runs a started Function, and a call that hangs ends in the Function's timeout,
which is an `Abort`. It does not
assume that notifications arrive, that logs are indexed, that the sink ever
accepts, or that an invocation does not crash. `EvidenceDelivery!LiveSpec` likewise
assumes weak fairness of the delivery's own steps and neither the passage of time nor
indexing: `DeliverySettles` rests on the count of polls, not on the clock.

`ForgeGateway!FairSpec`: time passes, and a timer that is due fires; a converter is not
assumed to answer. `WazuhBridge!FairSpec`: weak fairness of the run's own steps
(every request has a time-out); documents may keep arriving, and Log Analytics may
refuse everything. That `RunsEnd` follows rests on the cursor: each page moves it
(`search_after` is exclusive).

## 4. Proofs

All safety properties of the passing runs (`Composes`, which TLC needs spelled out for
its two events and two invocations, in the general form of `ExportsUseLedger`,
`ExportsUseDelivery` and `ExportsKeepPart`) are proved for every value of the constants that the
modules' `ASSUME`s allow: any numbers of invocations, callers and replays, any finite sets
of events, any numbers of clients, requests, documents,
runs and titles, any times and limits. The assumptions with substance are
`FunctionTimeout < Lease` (Terraform allows a Function at most 300 seconds, the lease is
10 minutes), `MaxTries >= 2` for the ledger, and for the bridge `ScheduleAssumption`
(period, lag and reading time fit into the lookback), which only `WindowsLeaveNoGap`
uses. TLC evaluates the assumptions in every run.

| Module | Theorems | Inductive invariant |
|---|---|---|
| `EvidenceExport_proofs` | `TypeCorrect`, `HoldingIsExclusive`, `HoldingIsLeased`, `LedgerIsTruthful`, `CheckpointIsJustified`, `DeadLettersAreExact`, `ReceiptsAccount`, `RegressionIsBounded`, `NoOverlapNoRegression`, `OnlyLostInvocationsLoseEvents`, `BudgetsHold`, `InvocationAdvances` | `LeaseInv`, `AccountInv`, `WatermarkInv`, `BudgetInv` |
| `DeliveryLedger_proofs` | `LedgerTypeCorrect`, `HolderIsSole`, `LoopsNeverExhausted`, `DeliveredStaysDelivered`, `LoopsAreAtomic` | `LedgerInv` |
| `ExportComposition_proofs` | `ExportsUseLedger`, `ExportsUseDelivery`, `ExportsKeepPart`, `ExportsImplementStores` | `AskingInv`, `StoresInv` |
| `EvidenceReplay_proofs` | `ReplayTypeCorrect`, `LineagesAreExact`, `CheckpointFollowsDelivery`, `ReplayMovesOnlyForward`, `ReplaysKeepPart`, `ReplaysImplementStores`, `ReplayAdvances` | `ReplayInv`, `BudgetInv` |
| `EvidenceDelivery_proofs` | `DeliveryTypeCorrect`, `SuccessMeansConfirmed`, `RepeatsAlwaysJustified`, `RetriesAreExhausted`, `DeliveriesAreAtomic`, `DeliveryAdvances` | `DeliveryInv`, `UntakenInv` |
| `ForgeGateway_proofs` | `GatewayTypeCorrect`, `TableIsBounded`, `QuotaHolds`, `RefusalsAreJustified`, `ConversionsAreBounded` | `QuotaInv`, `TimerInv` |
| `WazuhBridge_proofs` | `BridgeTypeCorrect`, `ReadingIsExact`, `ExitMeansForwarded`, `WindowsLeaveNoGap`, `RunAdvances` | `ReadInv`, `UploadInv`, `ClockInv`, `MissInv` |
| `DashboardDeploy_proofs` | `DeployTypeCorrect`, `LossesAreAccounted`, `OneReplacesAll`, `NoneLeftStripped` | `StageInv`, `SoleInv`, `StripInv` |

The arguments:

- **Exclusive holding.** The clock is read once per invocation, after it started; so
  every lease it takes ends after `started + Lease`, which its life does not reach
  (`WithinTimeout`, `ReservesAfterStart`, `LeaseOutlivesHolder`). Whoever wants the key
  meanwhile reads an unexpired lease. Exclusive holding follows only together with
  `NothingHeldYet` (nobody holds what it has not asked for) and
  `PendingApartFromBatch`; none of these is inductive alone.
- **Accounts.** `Progressed(i)` ties what an invocation has pending, in its batch and
  confirmed to the step it is at (`Staged`), says that whatever was confirmed and is
  not in the batch is marked (`Marked`), and what its receipt means (`Receipted`). A step
  is either the invocation's own, which is looked at action by action
  (`MoverProgresses`), or leaves its locals alone (`OthersStay`), and then all that can
  change under it is that the ledger has more marks, the sink more events and the store
  more letters (`MarksStay`, `SinkGrows`, `LettersStay`). `Describes(r)` says of a dead
  letter that it splits its export's reservations, and survives replays because a
  replay's record descends from one that is there (`DescendsFrom`, `ReplayTouches`).
  `Owner(i)` names the export whose alarm the checkpoint is: it saved it itself, or a
  replay of its letter did.
- **Bounded regression.** `WindowMatchesEtag`: while the ETag that an invocation loaded
  is current, its window starts at the current watermark minus the overlap; a window
  does not end before it starts, so the write is at most the overlap behind. After a
  conflict the code compares, and the write moves forward; a replay always compares.
- **The ledger.** A write is applied only if nothing was written since the read that
  decided it (`ReadInv`), so at that moment the key is still reservable; the reservation
  then outlives its holder (`TimesInv`, `HoldInv`). A caller that loses a write finds an
  unexpired lease or a delivered key on its next read: hence one lost write at most. The
  refinement maps the successful write to `Grant` or `Mark`, the refusing read to
  `Refuse`, and every other request to a stutter. That a lost write is never the last one
  allowed is what makes "return False" after the loop unreachable, without which `Refuse`
  would not be implemented.
- **Replay.** `ProgressInv`: what a replay confirmed, has in its batch and has to do are,
  with the record's confirmed keys, exactly the record's events, and the confirmed ones
  were received. `VersionInv`: a replay about to write either remembers an old ETag, and
  its write fails, or the checkpoint is still behind its record's (`KnownInv`: it never
  remembers a version that does not exist yet, so an old one cannot become current).
- **Delivery.** `LoopInv`: every earlier attempt came back unsettled, and `outcome` is
  the classification of the last one. `AnswerInv`: what was acknowledged is indexed,
  and only what was stored whole is reported complete or indexed.
- **A delivery is atomic.** The posts, polls and questions of an attempt map to
  stutters, or to `TakeIn` when the sink stores events; `Classify` maps to `Succeed`, `Retry` or
  `Fail`. `UntakenInv` supplies the one thing `DeliveryInv` does not say: an attempt that
  was not made has stored nothing.
- **The delivery loop ends.** `DeliveryAdvances` proves, without fairness, that every
  step lowers a lexicographic measure: attempts left, then the stage of the attempt,
  then polls left, then whether a poll is being answered. So no sequence of answers
  keeps the loop going; `DeliverySettles` (TLC) adds that it is never stuck.
- **Invocations, replays and bridge runs end.** `InvocationAdvances`, `ReplayAdvances`
  and `RunAdvances` do the same for the other loops, against everything the environment
  may do: a step of the process lowers its measure, and no other step raises it
  (`OthersStay`). For an invocation the measure is the part of `export()` it is in, then
  the rows to reserve, the events in no batch, the writes lost, the turn in the loop, the
  attempts made and the events to mark; for a replay the same without reservations and
  attempts; for a bridge run the part, the place in the sort order, the documents left
  and the attempts. The sets are finite by assumption and the counters limited
  (`BudgetsHold`, `ReplayAdvances`, the bridge's `TypeOK`). The step that could fail is
  an empty batch or page: for the bridge that there is none is `FirstIsNonEmpty`, by the
  well-foundedness of `<` (`NatHasSmallest`). What TLC adds (`HeldSettles`, `RunsEnd`)
  is that none of them is ever stuck before its end.
- **Parts.** A step of an export changes at most one of the three stores. For
  `ExportFails`, `AccountInv` says that the confirmed keys were received and are apart
  from the rest, which is not empty, and that the invocation has no letter yet; for
  `ExportSaves`, `WatermarkInv` gives the overlap and `AlarmInv` that it is an alarm's
  time. For a replay, `ReplayInv` says that its record is in the store and that its
  new one moves received events only. Where the sink already had everything a delivery
  stores, the step maps to a stutter.

- **Quota.** An admission's number in its bucket is at most the limit and unique
  (`AdmissionInv`, `SuccessionInv`); the buckets of one client lie at least a window
  apart, because a bucket leaves the table only when it is over and the one in the table
  is the client's latest (`LatestInv`). So one window's length meets two buckets at most,
  and if it meets two it misses the request that opened the first: `2 * RateLimit - 1`.
  Each admission maps injectively to its bucket and number, which bounds the count.
  `CountInv` (the first requests of a live bucket were admitted) justifies refusals.
- **Conversions.** `TimerInv`: a timer is never in the past, and ends one time-out after
  the start of a remote conversion, two after that of a fallback.
- **Reading.** `ReadInv`: everything up to the cursor that was indexed at the start and is
  still in the window has been read. A page takes the first documents after the cursor,
  so nothing is between; the window only shrinks while it is read.
- **No gap.** `ClockInv` bounds the time since the start and the lag of what is indexed;
  `MissInv`: what a run found when it started is stored, excused, or young enough to be
  in the window until reading is over. That is where the schedule is needed.
- **Deployment.** `StageInv` ties a run's stage to its titles. `SoleInv`: while nobody
  interfered, what is there of the title is among what is left to delete, or is the
  run's own import, whose identifier is made once. `StripInv` names, for each dashboard
  without its searches, a run that still has to delete it.

Only model-checked: the liveness properties (`HeldSettles`, `DeliverySettles`,
`ConversionEnds`, `RunsEnd`), which are out of the prover's reach, and the runs of the
findings. `SigmaConverter` has no theorem: its one property is violated.

To repeat: `tlc -config MCEvidenceExport.cfg MCEvidenceExport` (and so on), and
`tlapm EvidenceExport_proofs.tla` (and so on).

## 5. Not modelled, and what could follow

The modules cover the code of this repository in which the order of steps matters. By
lines that is a small part. Most of the implementation is tables (parsers, fields,
sources, dashboards, sample logs), translators from one query language to another, and
generators of catalogues, reports and test data: single processes that read files, compute a
text and write files, without interleaving, retry or persistent state. Their correctness
is the correctness of the text, and a model of them would be a second copy of their
tables. The same holds for what surrounds the modelled code: argument parsing, request
composition, redaction and hashing of events (`envelope.py`), schemas, layouts.

Left out of the modelled components:

- exporter: the contract checks that refuse a trigger before anything happens, metrics,
  the object names of dead letters, the CLI;
- gateway: how a client key is derived from proxy headers, the schemas;
- bridge: modes `file` and `stdin`, the classification of documents;
- deployment: the checks before the first change, and identifiers of single saved
  searches, which two dashboards with one query, imported in one second, share;
- converter: the translation itself, `--validate` and `--stats`.

What the models take on trust, and where a stronger environment would go:

- the sinks tell the truth when they report a post as complete
  (`EvidenceDelivery!MayReportComplete`); everything else they answer says nothing
  about what they took in;
- the indexer's answers to the bridge are complete: the code looks neither at
  `timed_out` nor at failed shards of a search, so neither does `ReadPage`, and
  `ReadIsExact` speaks of complete answers;
- an import of a dashboard takes effect before its call returns or times out, or never
  (`Applied`, `NotApplied`): one that the service applies later is not modelled. The
  history `spared` excuses a dashboard for good once its listing or its deletion failed;
- the gateway's `Date.now()` does not go backwards, and writing to a converter's standard
  input does not fail.

What could follow, in this order:

1. `SigmaConverter`: exit codes against stale catalogs (the actions are there), and that a
   rule's detection never loses its last file.
2. `DashboardDeploy`: saved searches with identifiers of their own.
3. Exporter: recovery of a detection whose window became too long (`window.py`);
   dead-letter object names and their collisions.
4. Terraform: a check that the limits assumed here are those of the stack.
