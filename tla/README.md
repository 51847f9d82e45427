# Verification of the sniper-suite trading core

TLA+ models of the parts of the suite that decide whether money moves once,
twice or not at all: whether an entry is admitted under the exposure cap (risk
admission), who may act on an execution (claims), how one execution intent lives
through signing, broadcast, confirmation, crash and restart (executor and
ledger), how unproven outcomes are settled afterwards (reconciliation queue),
how a position is sold and booked on several replicas (position book), how an
emergency stop reaches all of them (flags), which replica does a background job
(HA leases), and what the on-chain staking program does with its vault. TLC
checks small instances, TLAPS proves the main safety results for every value of
the constants.

## 1. Inventory

The repository is a Rust workspace (one server binary, four trading modules, a
shared core), an on-chain staking program and a TypeScript user interface.
Paths below are relative to `src/`.

| Component | State it keeps | Operations that change it | Talks to |
|---|---|---|---|
| Execution ownership: `crates/core/src/ownership.rs`, `db/claims.rs`, `redis_ownership.rs` | one row per logical execution id (owner, epoch, lease, status); guards in tasks | claim, fence, renew, complete / release / hand_off, drop | every money path; Postgres or Redis |
| Execution ledger: `crates/core/src/execution/mod.rs` | record per intent, index by signature, bounded FIFO | begin, attach_submission, transition, fail, reconcile_signature, hydrate, resolve_after_restart, evict | executor, sink, reconciliation |
| Solana executor: `crates/solana-kit/src/execute.rs`, `rpc.rs` | local state of a run: attempt, signature, answers | run, run_once, send_prebuilt, broadcast_rpc / fanout / jito / race, confirm_tracked | ledger, RPC endpoints, Jito |
| Persistence and restart: `crates/server/src/persist.rs` | execution_lifecycle rows, orders, trades, journal | sink upsert, restore_execution_ledger, event pumps | Postgres, event bus |
| Reconciliation: `crates/server/src/recon.rs`, `crates/core/src/recovery.rs`, `ReconRepo` in `db/repo.rs` | reconciliation_state rows: status, attempts, next_attempt_at | enqueue, reopen_resolved, claim_due, resolve, fail, give_up, release; verdict on the ledger | workers of all replicas, chain truth |
| Intent journal: `with_intent` in `recovery.rs`, `IntentRepo` | one row per side effect | begin, advance, sweep | money paths, reconciliation |
| Sniper entry / exit: `crates/module-sniper/src/entry.rs`, `exit.rs` | positions, pending exits | snipe, sell, book, re-arm | permit, journal, executor, risk |
| Order manager: `crates/core/src/oms.rs` | order state machine and its rows | create, advance, fill, cancel | database, event bus |
| Global risk engine: `crates/core/src/global_risk/engine.rs`, `crates/server/src/accounting.rs` | reservations in memory and in the database, the admission lock row | decide_with_reservation, release, maintenance | every entry path, accounting ledger |
| Accounting ledger: `crates/core/src/accounting/` | book per replica, journal, parked events | submit, refresh_from_store, flush_pending, recover | risk engine, modules |
| Position book, runtime flags: `state.rs`, `models.rs` | positions, kill switch, halt, module gates | open, sell, close, merge; stop, resume, enable, publish, sync | all modules, database |
| High-availability leases: `crates/core/src/ha/`, `crates/server/src/ha.rs` | worker leases, registrations, readiness | acquire, renew, fence, release, drain | database, supervisor |
| Staking program: `programs/staking-suite/src/` | config with pending update, stake accounts, vault, treasury, mint | stake, unstake, claim, queue / apply / cancel update, pause, admin transfer, genesis mint | SPL token program |
| Deduplication, shutdown: `dedup.rs`, `lifecycle.rs` | seen sets, phases | claim-first, signal | modules, server |
| Copy, Polymarket, Telegram modules; SaaS server; user interface | their own | their own | the core above |

What makes it hard, and what must hold:

* **Several replicas, leases and late requests** (ownership). At most one task
  passes the fence; a generation once dead stays dead; an unproven outcome
  handed to reconciliation blocks everybody for the grace; a hung owner cannot
  block for ever.
* **Unanswered sends, rebuilds, crashes** (ledger and executor). An intent
  moves money at most once; an intent that may be re-armed has no transaction
  that landed or may land; the durable row is written ahead of the send; what
  landed is eventually recorded as landed.
* **Competing workers and lapsing claims at the attempt budget's edge**
  (queue). Nothing disappears between the workers and the operators; nothing
  is retried for ever; a resolution is not overwritten by a late worker.
* **Stop between broadcast and booking, books that lag** (exits, position
  book). No exit intent is sold twice after any crash; while no process dies, no
  decision is executed twice over any routes, the parts never add up to more than
  was bought and a closed position stays closed; the row catches up.
* **Concurrent entries of several processes, reservations and fills that change
  places** (risk). One decision at a time; no exposure falls between
  reservation and ledger; the cap holds over all replicas.
* **Polls that overlap decisions, writes that fail half way** (flags). A stop is
  durable, reaches every replica, and the replicas converge.
* **Two tasks, a heartbeat and a shutdown around one lease** (HA). A dead
  generation stays dead, an orderly stop leaves no live lease, the role keeps
  being served, readiness does not outlive ownership.
* **Rounding, caps and timelocks over any order of instructions** (staking). The
  vault covers all principal, nobody is paid more than was accrued, parameters
  do not change by surprise.
* **Lossy event bus, database writes out of order** (persistence, OMS). Lost events
  are modelled for positions and their fills; the order manager not yet.

`PROJECT.json` lists every component with its status, and every hazard at its
line with the properties aimed at it, or the reason none is yet.

## 2. Modules

| Module | Content |
|---|---|
| `FencingLease` | abstract specification: numbered grants, one live at a time, never revived |
| `Claims` | one claim row, the guards of the tasks, requests that outlive their caller |
| `ClaimsProofs` | theorems about `Claims`, refinement of `FencingLease` included |
| `MCClaims` | three tasks on two replicas |
| `Executor` | one intent: ledger record, durable row, callers, cluster, queued signatures |
| `ExecutorProofs` | theorems about `Executor` |
| `MCExecutor` | two callers of `run`, one of `send_prebuilt` |
| `ReconQueue` | one reconciliation_state row and the workers of several replicas |
| `MCReconQueue` | three workers |
| `RiskAdmission` | entries, admission lock, reservation rows, journal and the ledgers of several replicas |
| `RiskAdmissionProofs` | theorems about `RiskAdmission` |
| `MCRiskAdmission` | two modules in one process, a third in another |
| `PositionBook` | one position: books of several replicas, exit sweeps, pump, row, sync, reconciliation |
| `PositionBookProofs` | theorems about `PositionBook` |
| `MCPositionBook` | two replicas |
| `FlagSync` | latches and gates of several replicas, the shared rows, operator requests, polls |
| `MCFlagSync` | two replicas, one trading module |
| `ServerTasksProofs` | theorems about `ReconQueue` and `FlagSync`, two tasks of the server that share no state |
| `HaLease` | one role: lease row, worker loops, heartbeats, shutdown |
| `HaLeaseProofs` | theorems about `HaLease` |
| `MCHaLease` | two workers |
| `Staking` | config, stake accounts and balances of the staking program |
| `StakingProofs` | theorems about `Staking` |
| `MCStaking` | two stakers, one admin key, one mistyped key |
| `SumTheorems` | the laws of sums over finite sets that the proofs about risk, positions and staking use |

How they compose: `Executor` and `Claims` appear in `PositionBook` by what is
shown of them (an exit intent a ledger knows is refused; a claim has one holder
until it lapses). `ReconQueue` carries what `Executor` queues. `RiskAdmission`
decides before an entry reaches the executor, and its `Book` is the entry's
booking. `HaLease` is what selects the `Leader` of `RiskAdmission` and the
replica of a background job; `Claims` refines `FencingLease`.

Definitions called "Mutant" in the modules are deliberate mistakes (a dropped
guard, a missing reset, an off-by-one). No specification uses them; each is
substituted for the definition that follows it to confirm that a property
notices.

### Claims

`row` is the `execution_claims` row: status, owner, epoch, and, instead of
timestamps, what is left of the lease and of the hand-off grace, both counted
down by `Tick`. `guard[t]` is the `ClaimGuard` of task t with its epoch, its
renewals and where the task stands; `wire` holds requests whose caller timed
out. `Acquire`, `FenceOk`, `FenceLost`, `Renew`, `Finish` and `Drop` are the
registry's and the guard's operations; `AcquireReplyLost` is the upsert that
commits although the caller sees an error; `Crash` loses all guards of a
replica, which may come back under its configured name; `LateRequest` executes
a request from `wire`. `FenceLost` is possible at any time because a store that
does not answer is treated like one that says no.
The store operators (`Reacquirable`, `Claimed`, `Renewed`, `Verified`,
`Terminal`) are the SQL statements of `db/claims.rs`; the in-memory store takes
the same decisions. Claims of different execution ids never touch the same row,
so one row is the whole interaction.

### Executor

`rec` and `known` are the ledger's record and signature index, `row` the
durable row, `run[c]` the state of a caller, `tx[s]` what the cluster makes of
the transaction signed by attempt s, `queue` the signatures reconciliation has
to settle. One action per awaited step of `run_once` and `send_prebuilt`:
`Begin`, `Abort`, `Build`, `Submit`, `Transmit`, `Answer`, `Miss`, `Confirm`,
`Timeout`, `Expired`, `Rearm`. `Transmit` chooses among every outcome of the
four broadcast modes: the route operators (`RpcReports`, `JitoReports`,
`BothReports`) compute from what each endpoint's last try was told both the
class the code reports and whether bytes may be with a leader, which the code
cannot know. `Land` is the cluster, `Verdict` is `SolanaTxTruth` followed by
`reconcile_signature`, `Restart` a crash with `restore_execution_ledger`,
`Evict` the ledger's bound. `Restart` restores every settled row; the
code restores the 2,000 most recent ones (`persist.rs:589`, `:610`), so an older
intent begun again after a restart is outside the model.

A record's `failed` says that it carries a failure class. Two choices of
atomicity: a ledger transition and its row write are one step (a crash between
them equals a crash before the transition, since memory is lost), and the
publication of a sent order and its queueing are one step with the end of the
run. The order of the upserts of two quick transitions is therefore not
modelled.

`Faults` names the environment failures an instance allows, so that each
result says what it depends on:

| Fault | Meaning |
|---|---|
| `unheard` | a send is refused after an earlier try, or the Jito leg, was never answered |
| `sink` | an upsert of the row fails and is logged |
| `reread` | the second read of `confirm_tracked` fails |
| `redeliver` | a verdict is applied but its queue item is kept |
| `restore` | the rows are unreadable at startup |
| `evict` | the ledger is over capacity |

### ReconQueue

`row` is the reconciliation_state row with `due` for `next_attempt_at <=
now()`; `worker[w]` is idle, holds a claim, or holds a verdict not yet written.
The repository's statements are operators (`Enqueued`, `Claimable`, `Claimed`,
`Failed`, `Released`, `Settled`); a batch is claimed at once and worked through
in sequence, so `Elapse` may let a claim lapse while its worker still holds it.
`Stop` is the shutdown path of `run_once`, `Crash` a process death. Faults:
`crash`, `write` (an UPDATE fails; its error is dropped), `requeue` (a producer
enqueues a subject whose attempts are spent). `Enqueue` and `Verdict` are where
this module and `Executor` meet: `queue` of `Executor` abstracts a row of this
one with an unbounded budget. Its specification is called `QueueSpec`, its type
invariant `QueueTypeOK` and so on, so that one module of proofs can extend it
together with `FlagSync`.

### RiskAdmission

`stage[e]` is where an entry stands: waiting for the process gate's lock, three
points inside the decision (`locked`, `read`, `viewed`), then `approved` with a
reservation, `booked`, `held`, or `over`. `lock` is the row of
`global_risk_entry_admission_locks`, `rows` and `left` the reservation table with
what is left of each reservation, `known[r]` the reservations in the memory of
process r. `unlocking` and `deleting` are the requests that the two `Drop`
implementations spawn and nobody waits for. `journal`, `book[r]` and `parked[r]`
are the accounting events in the database, in the ledger of r, and in r's queue
of events the database has not got.

The decision is four steps, because the code awaits in between: `Acquire`,
`Read` (the reservation rows replace what was known), `View` (refresh from the
journal, then the portfolio), and `Approve` or `Reject`, which adds the
reservations in memory to the view. Steps that only touch one process's memory
and cannot be observed are part of the step before. `Consults` and `Unreadied`
are what a decision that ends in a rejection may have done to the ledger.
Prices are constant and exposure is at cost; the wallet, venue, strategy and
asset caps are the same sum over fewer entries. A limit of 0 is no limit
(`engine.rs:1073`). The ledger may reject a fill as malformed (`ledger.rs:139-167`),
which the entry ignores (`entry.rs:1304`); a booked fill is taken to be well formed.

`harm` records what has happened that the design does not cover; the properties
are stated up to it, and section 4 says what each harm does:
`slow_decision` (a decision outlives the 120 s admission lease), `slow_entry` (an
entry outlives its 300 s reservation), `release` (a reservation is released while
a decision of the same process is between view and reservations), `journal` (a
fill could not be journaled), `crash` (a process died between sending and
booking).

### PositionBook

`book[r]`, `row`, `bus[r]` and `fills` are the position in each replica's memory,
its database row, the events not yet persisted and the durable fills. `sweep[r]`
follows one exit from the snapshot it was decided on through claim, route, fence,
duplicate guard, sale and booking; the claim is given up before the sale is
booked, as in the code. An intent is what `exit_intent_id` hashes besides the
position itself: the quantity held, the quantity sold and the route. `exit_route`
answers anew in every round, so `Begin` may pick any route each time, and the same
decision on another route is another intent (`exit.rs:1456-1457`). `IntentOnce`
speaks of intents, `ExitOnce` and `NoOversell` of decisions over all routes.

`Persist` is the pump: it handles events in order, and any of them may be lost,
because a failed upsert is only logged (`persist.rs:135-144`, `:336-338`) and a
lagging receiver skips events (`persist.rs:85-94`). `missed` says that the last
position event handled was lost.

`SyncRead` and `SyncApply` are the two halves of the book sync. The wallet
reconciliation is five steps, as the code awaits: `Snapshot` (the position),
`ReadWallet`, `Correct` (an open snapshot with nothing left replaces the position),
`CloseCorrected` (whatever the book holds then is closed, under another lock) and
`WriteRow` (the row is written past the pump); `GiveUp` is every verdict that
changes nothing. The reads of the queue and of the fills are part of `Correct`:
fills are only ever added, and a queue that cannot be read counts as nothing in
flight, so reading them later allows no less. `Start` is a process start, or a
death and a restart, with restore.

`harm` records a process death and an overwrite (a correction replaced a position,
or its row, that had changed since it was read). `ExitOnce`, `NoOversell` and
`NeverResurrected` are stated for behaviours without either, `RowCatchesUp` without
the overwrite; section 4 says what each does.

### FlagSync

A request is a short program of steps, `Set` (local store), `Change` (local store
that reports whether anything changed) and `Publish` (database write with its
stamp), because the code awaits between them. `Trading` is `BotModule::TRADING`:
a stop publishes the gates in that order, after the two latches. `Read` and `Apply`
are the two halves of a poll. `halt` names the last stop not followed by a resume;
a stop that arrives while an earlier resume is still being served is not put
there, because the rows it writes may be overwritten by the writes the resume has
still to do (`state.rs:507-530`): for such a stop `StopIsDurable` and
`StopReachesAll` claim nothing. One clock stands for the clocks of replicas and
database; their skew is not modelled.

### HaLease

`row` is the lease row with what is left of it, `guard[w]` and `cache[w]` the
generation in the worker loop's hand and in the runtime's table, `pc[w]` where
the loop stands. `Acquire`, `Renew`, `Fence`, `JobEnds` and `Leave` are the loop,
`Heartbeat` the second task that computes readiness, `Signal`, `Drain` and `Exit`
the phases of shutdown, which are bounded in time and therefore overlap the
loop. Each store call may fail after it committed. A heartbeat reads the table,
awaits the store and removes the role without comparing generations
(`runtime.rs:831-843`), so an entry inserted meanwhile is lost. `Heartbeat` is one
step; that outcome is an alternative of `Acquire`, where the new entry is removed
at once by a heartbeat that was told an older one is gone.

### Staking

One action per instruction of `processor.rs`; an instruction that returns an
error changes nothing, so its checks are guards. Amounts are integers with the
code's divisions (`compute_fee`, `settle`); the year and the basis points are
constants, so that rounding happens with small numbers. `posted`, `minted` and
`worth` are history variables. Checked 64-bit arithmetic returns an error before
it wraps and balances stay below the supply cap, so widths do not matter;
`compute_reward`'s saturation at 128 bits and its clamp to 64 (`state.rs:175-182`)
are left out for the same reason, and could only lower a reward.

## 3. Runs

| Run | Bounds | Shows |
|---|---|---|
| `claims` | 3 tasks, 2 replicas, lease 2, grace 2, 1 renewal, 3 generations | one owner, distinct tokens, fenced for ever, hand-off sticks, refinement of `FencingLease`; an owner that only renews still loses its lease |
| `executor` | 3 callers, 2 attempts, 4 transactions, no fault | at most one landing, re-armable is dead, one runner, write-ahead, confirmed is final; what landed is eventually recorded as landed |
| `executor_faults` | 2 callers, 3 transactions, every fault but `sink` | every run returns |
| `queue` | 3 workers, 3 attempts, 3 stops | no orphan, every active item is settled |
| `queue_faults` | 3 workers, 3 attempts, 2 stops, every fault | no item is retried for ever |
| `risk` | 3 entries of 1, 1 and 2 units under a cap of 2, 2 processes, lock 1 tick, reservation 2 ticks, 1 failure | one decision at a time, no gap between reservation and ledger, a decision counts everything, the cap holds |
| `book` | 2 replicas of which 1 sells, 2 rules, 2 routes, 2 tokens and 1 spare, 1 repeat, 1 upset (a start, a lost event or a correction), 1 recovery worker | no intent sold twice; without harm each decision executed once, no oversell, closed stays closed; the row catches up |
| `flags` | 2 replicas, 1 module, 2 requests, 1 failure | a stop is durable, reaches all, replicas converge |
| `staking` | 2 stakers, supply cap 5, 3 parameter updates, clock to 3 | solvent, capped, rewards earned, no surprise, admin can sign |
| `ha` | 2 workers, lease 3, renewal every tick, 3 generations, 2 failures | shutdown releases, stale for ever, the role is served, readiness is honest |

Why the bounds are enough to be interesting. Two tasks of one replica and one
of another distinguish "other owner" from "other generation"; three generations
let a guard be two takeovers behind; a lease of two ticks separates running,
about to lapse and lapsed. Four transactions allow two complete rebuild loops,
or a rebuild, a restart and a third caller. With the faults, three transactions
are what a rebuild raced by another caller needs; `sink` is left out there
because a run never reads the row. Three workers allow a claim that lapses twice
while its first holder still writes. In `risk`, any two of the entries fit or do
not fit depending on which two, one pair shares a process (the gate) and the
others do not (the lock), and one failure is spent on a lost unlock, a lost row,
a failed read, a restart or a lapsed lease, at every point. In `book`, two tokens
are the fewest with a partial exit, the spare token lets a wrong sale land, and two
routes let a decision be taken again under another intent id; pairs of upsets and
several recovery workers are left to the theorems, which bound neither. In
`flags`, two requests are a stop and a resume, or two decisions on one gate, at
different replicas. In `staking`, a fee of one in two and a rate of two per year
round at every payout, and the cap is met by the first rewards; one key signs, so
the run has the nomination of a mistyped key but no handover to a second one, which
the theorem covers. In `ha`, three
generations allow a takeover and the return of the first holder.

Deadlock is checked where some step is always possible (`claims`, `executor`, `ha`,
`risk`, `staking`). Workers stop when an item is settled and
nobody enqueues it, and a position is done when it is closed, so `queue`, `book`
and `flags` do not check it.

Fairness. `Claims`: only time is fair; tasks may hang. `Executor`: the awaited
steps of a run are taken (a live task is polled), the confirmation loop ends by
its deadline (`Timeout`), and the recovery worker polls for ever (`Verdict`);
`Begin`, `Land`, `Confirm`, `Expired`, `Restart` and `Evict` are not fair.
`ReconQueue`: time and the workers' loops, which the process supervisor
restarts; producers, `Stop` and `Crash` are not fair. `Stop` and `Crash` are
bounded by `MaxStops`: with a worker restarted for ever no item would ever be
settled. `FlagSync`: a request that arrived is served (an HTTP handler that is
polled) and the sync task polls for ever; arrivals, failures and restarts are not
fair. `HaLease`: time, the loop's turn and the heartbeat; jobs are not fair (a
job may hang), nor are failures and shutdown. `RoleServed` therefore asks that
one worker stays up and its own jobs end. `RiskAdmission`, `PositionBook` and
`Staking` state safety only.

## 4. Where code and comment disagree

Two runs expect a violation:

| Run | Property | What happens |
|---|---|---|
| `executor_unheard` | `AtMostOneLanding` | a refusal after an unanswered try counts as proof; the rebuild and the first transaction both land |
| `book_replicas` | `ExitOnce` | with the sweep on two replicas, the second executes a decision the first has sold: the claim is free before the sale is booked, and the second book is older still |

More were met while modelling. Each can be reproduced by changing one line of a
configuration, or by dropping the condition named from the property, and none is assumed away silently: the run that passes says what
it excludes.

* `Executor`, `Faults = {"sink"}`, `RearmableIsDead`: the write-ahead upsert fails
  and is logged (`persist.rs:705`), the send goes on, and a restart takes the
  intent for never sent, against `persist.rs:595-596`.
* `Executor`, `Faults = {"reread"}`, `RearmableIsDead`: a failed second read is taken
  for "not visible" (`rpc.rs:878`); a landed transaction is Expired.
* `Executor`, `Faults = {"redeliver"}`, `ConfirmedIsFinal`: a repeated verdict for
  an old signature hits the re-armed, confirmed intent
  (`execution/mod.rs:773`, `recovery.rs:181`).
* `ReconQueue`, `Faults = {"requeue"}`, `ActiveGetsSettled`: a parked item enqueued
  again is pending with no attempts left (`db/repo.rs:1909`).
* `ReconQueue`, `Faults = {"crash"}`, `ActiveGetsSettled`: a crash on the last
  attempt leaves the item in progress for ever (`db/repo.rs:1938`).
* `ReconQueue`, `ResolvedSticks`: a late retry overwrites another worker's
  resolution (`db/repo.rs:1994`).
* `RiskAdmission`, `MaxOpen = 1`, `PositionsCapped`: `decide_inner` adds the
  entries in flight to `snapshot.open_positions` and then compares
  `view.open_positions` (`engine.rs:1017`), so two entries in flight pass a cap of
  one; `docs/GLOBAL-RISK.md:178` calls it a cap across every module.
* `RiskAdmission`, `CapHolds` with `harm \subseteq {"release"}`: the view is read
  first and the reservations in memory after it (`engine.rs:874` and `:907`). An
  entry of the same process that books and finishes in between is in neither
  sum, and the next entry passes the cap. The comment at `engine.rs:903-906` says
  the gate "closes the local TOCTOU gap"; the gate does not cover `Drop`. Reading
  the reservations before the view would close it.
* `RiskAdmission`, the other harms: an event parked on one replica is invisible to
  the others once its reservation is gone; entries that outlive 300 s and
  decisions that outlive 120 s are no longer counted or no longer exclusive.
  `maintenance_tick` flushes the parked events of the replica that holds the
  maintenance lease only, and one failed refresh leaves `portfolio_ready` false
  until the process restarts (`engine.rs:851-854`).
* `PositionBook`, `UnlandedNeverSold`: a reconciled entry counts as held whatever
  the verdict (`exit.rs:134-152`), so tokens are sold for an entry proved never
  landed; `docs/SNIPER-ENGINE.md:629-633` says otherwise.
* `PositionBook`: the sync reads open rows only, so a close never reaches the
  other replicas' copies.
* `PositionBook`, `ExitOnce` and `NoOversell` without `harm = {}`: a process dies
  after a sale landed and before its pump wrote anything. The restart restores the
  old quantity, decides the same exit, and if `exit_route` now falls back to
  another venue the intent id is new and the ledger lets it pass
  (`exit.rs:1456-1457`). `IntentOnce`, which the route is part of, still holds.
* `PositionBook`, `NeverResurrected` without `harm' = {}`: `settle_position_outcome`
  upserts a snapshot with status Open that is several awaits old and closes it
  under another lock (`recon.rs:1156-1157`), so a position closed in between is
  open again until the second step. A merge under way when the snapshot is upserted
  may be applied after the close and leaves the position open with an old quantity;
  its late direct row write (`recon.rs:1165`) may leave a closed row under an open
  book.
* `PositionBook`, `RowCatchesUp` without `~missed`: a position event the pump could
  not write is not retried, so the row stays behind until the position changes
  again, and a restart resumes from it.
* `FlagSync`: a stop that overlaps an earlier resume, in the same or another replica,
  may be overwritten by the resume's writes (`state.rs:507-530`).
* `FlagSync`, `StopHolds`: a poll applied between a stop's local store and its
  stamp clears the latch on the very replica that serves the stop, until its next
  poll (`state.rs:484`, `:682-690`), against `state.rs:701-704`. A failed publication
  leaves the replicas diverged until somebody decides again.
* `Staking`, `ExitWindow`: `unstake_delay` has no maximum and applies to stakes made
  before, so a queued update can outlast the exit window the README promises.
* `HaLease`: a job runs without renewal, so one that outlives the lease overlaps
  the next holder's (`main.rs:484-488`); the drain may release a lease under a
  running job; LeaseLost is never left; a failed release is not retried. A worker
  whose new table entry a late heartbeat removed (`runtime.rs:843`) keeps its guard
  and its lease but stays not ready: `renew` does not put the entry back
  (`runtime.rs:476-484`).

## 5. Proofs

All theorems hold for every value of the constants that satisfies the named
assumptions of the module (`ClaimsAssumption`, `ExecutorAssumption`,
`ReconQueueAssumption`, `FlagSyncAssumption`, `RiskAdmissionAssumption`,
`PositionBookAssumption`, `TimesAssumption` and `BoundsAssumption`,
`StakingAssumption`). The assumptions are types, distinctness of names, and
finiteness of the entries and of the stakers, over which sums are taken; a theorem
that needs more states it as a hypothesis. Where a type invariant is proved and
says nothing else, no run repeats it.

* **Claims.** `TypeCorrect`; `TokensAlwaysUnique`: guards in hand carry distinct
  generations, none newer than the row, which is inductive because a claim
  always increments the epoch; `AtMostOneOwner` follows, since two guards that
  verify would both carry the row's epoch. `AlwaysFencedForever` and
  `HandoffAlwaysSticks` are action properties proved per step, late requests
  included. `RefinesFencingLease`: with token = epoch and active = "claimed and
  lease running", every step is a grant, a lapse or a stutter; renewals stutter
  because they need a running lease.
* **Executor.** `TypeCorrect` holds under every combination of faults. The rest
  assumes `Faults = {}` (the violation run and section 4 show that such a
  hypothesis is needed). `LedgerInv` is the inductive invariant. None of the
  target properties is inductive: a step of a caller only preserves them if the
  caller and the record are in step (`InStep`), which needs that no second caller
  is running (`SoleRunner`); a restart preserves them only if row and record agree
  (`RowAgrees`); a verdict only if the queued signature that finds the record is
  the record's own (`QueueOwn`); and a new attempt only if its number was never
  sent (`Issued`). From `LedgerStaysInStep` follow `LandsAtMostOnce`,
  `RearmableIsAlwaysDead`, `AlwaysWrittenAhead` and `ConfirmedStaysFinal`.
* **ReconQueue.** `QueueTypeCorrect` under every combination of faults (the
  attempt count never leaves 0..max_attempts). `NothingIsOrphaned` with
  `Faults = {}`: strengthened by "a pending row has attempts left", because
  `release` leaves a pending row alone.
* **FlagSync.** `FlagTypeCorrect` for any replicas, modules, requests and faults.
  `StopAlwaysDurable` for a stop that no resume overlaps, if at most one fault happens (`MaxFaults` is 0 or 1), from
  `StopInv`: every running request still has to do a suffix of its own program
  (`RequestInv`: a stop has both latches to publish, or one, or gates only; no
  other request but a resume ever writes a latch), and as far as the stop in
  force has got, its latches are in the rows, except for one whose write was lost
  (`LatchInv`). The two latches carry each other: that is why the code may lose
  one write. With `MaxFaults = 2` TLC finds the stop whose two latch writes
  are both lost, so the hypothesis is not an artefact of the proof.
* **Sums.** `SumTheorems` shows, for the community modules' `SumFunctionOnSet`, that
  a sum can be split at any element, changes by the difference when one value
  does, is a natural number if its terms are and grows with its index set. The
  operator is a recursive function over subsets; in place of induction the proofs
  take a smallest set that violates the law, which exists because strict inclusion
  is well founded on the subsets of a finite set, and show that a smaller one does
  too.
* **RiskAdmission.** `TypeCorrect`. `AlwaysOneDecider` from `LockInv`: who decides
  holds the lock row with time left, which needs that a pending unlock belongs to
  a decision that is over, so that a late unlock never frees somebody else's
  lock. `AlwaysAccounted` from `AccountInv`: a running entry has a live row, a
  position is in the journal and not sold there, and no book is ahead of the
  journal; a pending delete belongs to an entry that is over, so no spawned
  DELETE removes a reservation in use. `AlwaysSeesEverything` from `ReadInv`: after
  `Read`, whatever still runs is in memory; after `View`, whatever is exposed is in
  the view or among the reservations counted; the lock is why nothing is added in
  between. The three are each other's hypotheses in that order.
  `AlwaysCapHolds` is the purpose of them all: `Approve` is the only step that
  exposes an entry, what it adds up includes all exposed entries by `ReadInv`, so
  the sum after it is at most what it compared with the limit. All four are about
  behaviours without the harms of section 4.
* **PositionBook.** `TypeCorrect`. `AlwaysRowCatchesUp`, for any replicas: while
  one replica has run and no correction overwrote anything, the last position
  event on its bus, or the row when there is none and the last write was not lost,
  says what the book says, unless a sale is being booked (`RowInv`); replicas that
  were never started hold nothing (`UpInv`).
  The others assume that one replica trades (`Sweepers = {Opener}`); the run
  `book_replicas` shows for `OneSellerExitsOnce` that the assumption is needed.
  `OneSellerIntentOnce` (`OneSellerInv`): an intent that was sold is refused by the
  seller's ledger, and a restart restores the refusal from the durable rows; it
  holds whatever dies, is lost or is corrected. The other three speak of behaviours
  without the two harms. `OneSellerNeverResurrects` from `AgeInv`: no open copy of
  the position anywhere (row, other books, buses, merges under way, snapshots of
  reconciliation) is newer than the trading replica's book, so its sync never finds
  one to merge; a correction that overwrote nothing found the position open.
  `OneSellerNoOversell` and `OneSellerExitsOnce` from `SellInv`: what was sold and
  what the book will hold once the sale under way is booked are together at most
  what was bought, and every decision sold started from more than the book will
  then hold, so it cannot be decided again on any route. This needs that the
  book never holds more than the snapshot being sold, which holds because under a
  decided exit the seller's book changes only by a correction, and that lowers it.
* **HaLease.** `TypeCorrect`, `AlwaysStaleForever` (per step), and
  `ShutdownAlwaysReleases`, from an invariant that ties the row, the loop's guard
  and the runtime's table together while no call has failed.
* **Staking.** `TypeCorrect` (no balance or accrual below zero), `NeverOverTheCap`,
  `TimelockHolds`, `AdminStaysReachable`, and `NothingPaidTwice`: what was paid,
  is owed and may still accrue is bounded by principal, rate and time, an
  inequality each instruction preserves under integer division (an upper bound; that
  a top-up loses nothing accrued is not claimed). `AlwaysSolvent`:
  the vault covers the principal of all stakers and the supply is the sum of the
  balances; each step moves a sum by the difference of the accounts it changes,
  and a payout takes from the vault what it takes off the account's principal. `WithdrawalIsCovered` follows for each staker.

Every safety property of the passing runs is a theorem, under the hypotheses
named above. Only model-checked: the liveness properties (`HungOwnerLosesLease`,
`LandedGetsClosed`, `RunsReturn`, `ActiveGetsSettled`, `AttemptsRunOut`,
`StopReachesAll`, `Converges`, `RoleServed`, `HonestReadiness`), because reasoning
with fairness is outside the prover used here.

## 6. What is not modelled

* Paper mode (never sends), fees and tips, the tenant gate, endpoint health
  scores, metrics, logging.
* The Redis claim store's key expiry; a second process running the same ledger
  (the ledger is per process, claims are what separate processes).
* The intent journal (`with_intent`, `IntentRepo`), the order manager, the losses of
  events other than a position's, and the order of two quick upserts of the
  execution ledger.
* The per-module checks of `risk.rs`, daily loss and drawdown, scoped kill
  switches, the arithmetic of the accounting book.
* Copy trading, Polymarket, the Telegram bot, the SaaS control plane and the user
  interface: most of the repository's lines, and most of them configuration,
  venue formats, request handling and storage without interaction of their own.
  They use the permits, ledger, executor and risk engine modelled here.

`PROJECT.json` gives the reason per component.

## 7. Plan

1. `IntentJournal`: `with_intent`, `IntentRepo` and the orphan sweep, with crashes
   between the side effect and its record.
2. `OrderManager`: the order state machine against its rows, out-of-order writes
   and fills, the lossy bus between a sent order and its queue item.
3. The two-step sink of the execution ledger.
4. The Redis claim store as a further implementation of `FencingLease`, and the
   run that shows when key expiry reuses a generation.
5. Copy trading's leader ordering and deduplication.
6. Proofs: what the two-replica position book still guarantees without
   `Sweepers = {Opener}`, and what each single fault of `Executor` leaves intact.
   `HaLease` does not refine `FencingLease`: a holder may acquire again while its
   own lease is running, which starts a generation without ending one.
