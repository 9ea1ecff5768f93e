# PokeSim: verification of exchanges, rewards and the life of an adventure

PokeSim plays several Pokemon games at once. Each *adventure* is a game in a
worker process of its own. Two adventures can trade: a coordinator in the
application brings both games to a Cable Club, lets a third process emulate the
linked trade, and then has to make both games keep the result, or neither. Around
that exchange a queue decides who trades when, a supervisor keeps the workers
running, rewards are put into the games over the same saves, and an older
coordinator links two games that run on their own. These are the parts in which a
mistake loses or duplicates a Pokemon or an adventure, and in which processes,
threads, crashes and late answers meet. They are modelled, checked and, most of
them, proved here.

## The system

| part | state | operations | talks to |
| --- | --- | --- | --- |
| `app/coordinator.py` Coordinator | locks `guard`, `execution`, `manual_drain`; the current session process; back-off counters | `propose`, `execute`, `recover_one`, `recover`, `cancel`, `schedule_once`, `drain_manual`, `close` | registry rows, supervisor, workers over HTTP |
| `app/registry.py` Registry | SQLite: adventures (`state`, `desired_state`), `interactions` (`decision`, `phase`), settings, operations | `create_transaction`, `update_transaction` (a decision never changes), `transactions(unresolved)`, `request_lifecycle`, `update` | coordinator, supervisor, routes |
| `runtime/participant.py` Participant | per adventure, in its key/value table: interaction records, `trade_hold`, `trade_barrier`; staged files | `prepare`, `stage`, `apply`, `release`, `abort`, `recover_storage` | emulator thread, checkpoint files |
| `runtime/preparation.py` | `interaction_preparation`; the object that drives the walk to the counter | `begin`, `step`, `cancel`, `restore` | emulator, participant |
| `emulator.py` Emulator | the live game, `paused`, command queue | play, `_autosave`, `_load_state_file`, `_trade`, `call`, `start`, `stop` | checkpoint files, participant |
| `checkpoints.py` | save files with manifests | write, order, prune | emulator, participant |
| `runtime/worker.py`, `runtime/simulation.py` | the worker process, the adventure's lock file | start, serve, watch the parent, stop | supervisor |
| `app/supervisor.py` | worker children, retry times, health | `start`, `stop`, `_monitor`, `close` | workers, registry |
| `app/manager.py` | the application, maintenance lock, routes | `start`, `close`, HTTP routes | all of the above |
| manual queue (`coordinator.py`, `app/trade_builder.py`) | queue entries queued/starting/started/... | `enqueue_manual`, `drain_manual`, `cancel_manual`, `cancel_queued` | coordinator |
| rewards (`runtime/reward_delivery.py`, `runtime/tm_purchase.py`) | a second barrier over the same saves | `deliver`, `recover_storage`, `purchase` | emulator, checkpoint files |
| deletion (`app/deletion.py`) | a durable intent, the directory under its name or in the trash | `delete_adventure`, `recover_deletions` | registry, supervisor |
| backups (`app/backup.py`) | archives | `create_backup`, `restore_backup` | manager, supervisor |
| legacy pair (`trade/service.py`, `pair.py`, `event.py`, `execute.py`) | `active.json`, `result.json`, `status.json`; in each game `trade_hold`, `trade_barrier`, `completed_trades` | `cycle`, `finish`; `prepare`, `load`, `release`, `abort` in each game | two games over HTTP, their save directories |
| watchdog, offers | problem records, offers | see `PROJECT.json` | manager |
| Gen II side (`gen2/`) | same protocol for Gold, Silver and Crystal | overrides of participant and preparation | as above |
| policies, planning, web, assets, legacy broker | heuristics, presentation, downloads, earlier releases | - | - |

### How an exchange runs

1. `propose` creates a row, if no row is unresolved. `execute` takes the
   `execution` lock without waiting; if it is taken it gives up.
2. `prepare` is polled on both adventures. The first call reserves the adventure
   and starts the walk; at the counter the game is *held*, saved, and the save is
   named as the exchange's source.
3. The session process plays the trade on copies of both sources.
4. Under `guard`, both adventures *stage* their verified results, and the row's
   decision becomes `COMMIT`: the commit point.
5. `_recover` finishes what was decided: `apply` on both (receipt, publication of
   the result as a save, the barrier that makes older saves inadmissible, load),
   then `release` on both; or `abort` on both (reload the source, clear the hold,
   keep a tombstone). `recover_one` does the same again after a failure.

### What is hard

* Three kinds of thread propose and execute (the scheduler, the manual queue,
  routes), others cancel, set aside or recover the same rows. Phases are written
  with and without `guard`.
* A request that timed out may still run, after any later request: the worker's
  HTTP threads queue handlers on the game thread in whatever order they get there.
* Each handler makes several separate durable writes and may stop after any.
* Workers crash, are stopped by their owner, or outlive the application by up to
  45 seconds while holding the adventure's lock; the application's next start
  begins its recovery meanwhile.
* Old saves remain on disk and a restart picks one of them; exchanges and rewards
  each put a barrier across them, and what a claim has used up is not rewound.
* One adventure's row, worker and directory are written by routes, background jobs,
  the monitor, the start-up thread, the end of an exchange, a deletion and a backup;
  only some of them hold the maintenance lock, and each acts on what it read before
  it waited.
* The queue is worked on by one drain at a time, but entries are added, cancelled and
  repaired while it waits minutes for a proposal, and the scheduler competes with it
  for the same adventures.

### What makes each part correct

* Participant: one reservation at a time; the hold covers the exchange; restarts
  and play have exactly the exchanges that the records say; saved play is not
  lost; decisions are final.
* Coordinator: all or nothing; no commit without both results; nobody plays on
  with a received Pokemon while the other side can still go back; nothing remains
  of a resolved exchange; what is decided is finished.
* Registry: a decision never changes; one unresolved row per adventure.
* Manual queue: rows and entries agree, every entry ends, none starts twice or out of
  order, a cancel is not lost, automatic trading leaves a chosen trade its adventures.
* Supervisor, manager, deletion, backup: a stop and a start are obeyed in the end; the
  row says what is; no deletion takes a directory from under a worker or an exchange, and
  none starts an adventure again; a backup copies a library at rest.
* Rewards: each is delivered once, and the two barriers never exclude every save.
* Legacy pair: both games have an exchange or neither; no hold without someone who
  will end it; a game can always be started again.

`PROJECT.json` lists the hazards line by line with the properties that cover them.

## Modules

| module | contents |
| --- | --- |
| `Participant` | one worker per adventure: play, saves, preparation, the five handlers, `recover_storage`, crashes and restarts; the properties the adventure promises whatever its caller does; the inductive invariant |
| `ParticipantProofs` | proofs of those properties for every number of adventures and exchanges |
| `CableExchange` | extends `Participant` with the coordinator, the rows, the owner, application and worker failures; the properties of the exchange; fairness |
| `CableExchangeProofs` | proofs of the exchange's properties and of the refinement for every assignment of participants and any number of faults |
| `AtomicExchange` | what an exchange promises its owners: one outcome, and what each side keeps; `CableExchange` and `LegacyPair` both implement it |
| `ExchangeRows` | what any thread may do to an exchange's row and the execution lock; `CableExchange` implements it, `ManualQueue` is built on it |
| `CableRowsProofs` | the proof that it does |
| `ManualQueue` | the queue of chosen trades, its drain, the scheduler's pass, recoveries, cancels, maintenance and restarts |
| `ManualQueueProofs` | proofs of the queue's safety for any number of trades, automatic rows and failures, and of the rows' for whoever keeps to their protocol |
| `Lifecycle` | one adventure from the application's side: row, worker, directory, and all that starts, stops, deletes or copies it |
| `LifecycleProofs` | proofs of its safety for any number of requests and failures |
| `RewardDelivery` | gifts and purchases of one adventure beside its trades, saves, rewinds and restarts |
| `RewardProofs` | proofs of its safety for any number of transactions, saves and failures |
| `LegacyPair` | the standalone pair coordinator and its two games |
| `LegacyProofs` | proofs about its records, requests and holds for any number of transactions, failures and kept saves |
| `LegacySavesProofs` | proofs about what its games play with and can go back to, and that the pair implements `AtomicExchange` |
| `MCParticipant`, `MCCableExchange`, `MCManualQueue`, `MCLifecycle` | small instances for TLC |

How they fit together. `CableExchange` extends `Participant`: every step of a worker
is a step of the composed system. `AtomicExchange` and `ExchangeRows` are two
abstractions of `CableExchange`: the first forgets everything but the outcome, the
second everything but the rows. `ManualQueue` extends `ExchangeRows`, so what it
shows rests on the detailed exchange through the refinement. `Lifecycle` and
`RewardDelivery` look at one adventure: of an exchange they keep that it reserves the
adventure, answers and ends, or that it holds the game, commits and is applied.
`LegacyPair` runs without the application and shares nothing but the emulator's
command; what it promises is again `AtomicExchange`.

### `Participant`

| variable | code |
| --- | --- |
| `worker` | the process: `down`, `up`, or `orphan` (its standard input has ended, it is exiting) |
| `game` | the emulated cartridge; its state is how far play has come and which exchanges' Pokemon it has |
| `saves` | the newest `auto-*.state` for each `trade_id` its manifest was written with |
| `barrier`, `hold`, `preparation` | kv rows `trade_barrier`, `trade_hold`, `interaction_preparation` |
| `record` | kv row `managed_interaction:<id>`: its phase; the decision is implied by the phase |
| `source` | the save a prepared record names (`source_name`) and its contents |

A handler runs on the game thread from start to end (`Emulator.call`), so it is
one action with its reply: `PrepareBegins`, `PrepareWaits`, `PrepareSucceeds`,
`PrepareRefused`, and likewise for `stage`, `apply`, `release`, `abort`. A handler
that raises half-way is an action `...Interrupted` that has made some of its
writes; a crash in the handler is that action followed by `WorkerCrashes`. A
restart runs `recover_storage` before the emulator picks a save (`WorkerStarts`
with `RecoverNothing`, `RecoverCommit`, `RecoverAbort`, `RecoverUndecided`: there
is at most one unfinished record, which is the theorem `ReservedOnce`). The phases
`travelling`, `storage` and `rendezvous` of a preparation are one; a preparation
whose driving object is gone is `stranded`.

### `CableExchange`

`decision` and `phase` are the row, `desired` the owner's wish. `runner` is the
thread that holds the `execution` lock: where it is, for which row, which
adventures have not answered yet, and what an exception does there (`retry`:
`execute` tries `_recover` again; `park`: the row gets phase `recovering`; `raise`:
the exception leaves the thread). `toExecute` and `waiting` are the threads about
to call `execute` and waiting in `recover_one`. `late` holds requests the coordinator
no longer waits for, `closed` the shutdown, `faults` a counter that bounds failures.
`execute` holds `guard` from the last look at the decision to the commit
(`GuardFree`); actions that need `guard` wait for it. The order in which the two
participants are asked is left open, which allows more than the code does.

`AtomicExchange` is implemented by `CableExchange` under the mapping of `Atomic`:
the outcome is the row's decision, the side of a participant is read off its
record. It is the exchange with all processes, retries and failures removed.

### `ManualQueue` over `ExchangeRows`

`state` is the entry's state in `manual_queue`, `cancelled` its `cancel_requested`.
`drain` is the thread that holds `manual_drain`: where it is, for which entry, and
whether it has seen the end of the line. `calls` are threads kicked to call
`drain_manual`, by a new entry or the end of an exchange. `sched` is the scheduler's
pass with the entries it saw before it scored candidates (`seen`). `run` says which
thread executes, `guarded` is a row whose cancel was admitted but not yet written,
`recoverers` the threads in `recover_one`. Each look at the queue or the rows that the
code does not repeat under a lock is a step of its own: `Look`, `SetAside`, `Claim`,
`ProposeCreates` / `ProposeWaits` / `ProposeRejects` (three outcomes of one call that
takes minutes), `Started`, then `DrainExecutes`, `DrainCancels` or `DrainRecovers`.
`Update` keeps the newest `KeepManual` ended entries, an older one becomes `dropped`.
`Suspend` and `Resume` are maintenance, `Close` and `Restart` the application's end
and start; a restart leaves rows and entries, forgets threads, and recovers every open
row.

The rows here are those of `ExchangeRows`: phases between `connecting` and `releasing`
are one (`active`), and `Begin`, `Advance`, `CommitRow`, `Abort`, `Resolve`, `Park`,
`Release` say who may write what. `KeepsRowProtocol` states that `CableExchange`
implements them under `RowPhase` and the lock; it is checked in `two_exchanges` and
proved in `CableRowsProofs`.

### `Lifecycle`

| variable | code |
| --- | --- |
| `state`, `desired`, `archived` | columns of the adventure's row; `state` is `gone` when it is deleted |
| `child`, `orphan` | `supervisor.children[aid]`; a worker of an earlier application run that still exits |
| `holder` | who is inside `maintenance`: a job, the monitor, the end of an exchange, the start-up thread or a backup, and how far |
| `jobs`, `refused` | background threads in `start_adventure`; those that found a backup under way |
| `page` | a route between its check and its write |
| `monitor`, `recent`, `setup` | the supervisor's thread with the desired state it read; restarts in five minutes; the retry of a failed download |
| `trade` | an exchange that reserves the adventure, and how far its end is |
| `boot` | the start-up thread between the list it read and each start |
| `source`, `trash`, `marker` | the directory, where deletion moves it, the durable intent |
| `finisher` | `_finish`, for the owner's deletion and for `recover_deletions` |
| `history` | no code: counters for the bounds, the owner's last request that the row took (`wish`), whether the adventure was restored since its deletion was marked (`revived`), requests a backup lost (`slips`) |

`Edits` are the routes that write the row around a stop: `archive`; PATCH with `archived`
set (`hide`, which leaves `desired_state` as it is) or cleared (`restore`); `delete`. Each
checks the row (`EditIsChecked`) and writes it later (`EditIsWritten`). `AutoStarts` are
the values `auto_start` may have when start-up lists the rows.

`supervisor.start` is `StartReads`, `StartInserts` and one of `StartSucceeds`,
`StartFails`, `StartIsForgotten`; the lock is held throughout, but routes, the monitor's reports and the
start-up thread's wish write in between. `registry.update` writes the manifest after the
row and makes the directory when it is gone (`Writes`); that is why deletion and a late
report meet. A backup (`BackupBegins` to `BackupResumes`) holds the registry as well:
`RegistryFree` is the guard of everyone who reads or writes a row. It asks each worker,
stops it, copies, and starts it again as far as its row allows; a job that runs its
check meanwhile is refused and says so afterwards (`JobIsRefused`, `RefusalIsTold`).

### `RewardDelivery`

One thread runs everything, so a step is what lies between two durable writes.
`thread.at` says where it is: playing, in a delivery (`saved`, `written`, `staged`), in
its publication (`committed`, `bare`: the state without its manifest, `whole`,
`complete`), or in a start (`trade`, `gift`, `gift_bare`, `gift_whole`, `restore`).
`barrier` holds both barriers, `pending` is `custom-reward-pending-v1`, `ledger` is
`league-rewards-v1` with earned, observed and delivered victories, `receipts` the
journal. `DeliveryCommits` is the one transaction that uses up the claim and writes
barrier, record and journal. Trades are those of `Participant` seen from one game:
held, committed, applied, aborted, recovered.

### `LegacyPair`

`coord` is the coordinator's place in `cycle` and `finish`, the peer it is at and the
answer it has; `active`, `result`, `completed` are its three files. A request is a
command in the game's `queue`, whose `live` says whether anyone still waits for it:
a timed-out prepare stays in the queue and is handled later. Each durable write of the
coordinator (`Names`, `Stages`, `Targets`, `Publishes`, `Decides`, `Journals`,
`Discards`, `WritesStatus`) is a step, and it may die after each. The games play, save,
rewind, restart their run, stop, die and are started again.

`PairIsAtomic` maps the pair to `AtomicExchange`. A transaction is open until
`active.json` says `committed` or the coordinator leaves the way to that write
(`Undecided`): every cycle that ends earlier resumes in `finish`, which discards and
aborts. A game's side is `ready` while a whole output of the transaction lies among its
saves, `swapped` once its journal has it, and `kept` when the outcome is an abort and no
output is left. A game that never had an output learns of the abort with the decision,
which is why `DecideAbort` settles any of the sides that have nothing ready.

## Runs

| run | instance | shows | distinct states |
| --- | --- | --- | --- |
| `one_adventure` | one adventure, two exchanges, two steps of play, any request at any time, any number of crashes | type, inductive invariant, reservation, hold, restart, play, source; saved play is kept; decisions are final | 5 thousand |
| `one_exchange` | two adventures, one exchange, two faults, one adventure the owner stops and starts, fair threads | agreement, commit needs both results, play resumes after both, nothing is left behind; the inductive invariant; implements `AtomicExchange`; a held adventure is given back; a committed exchange is received | 640 thousand |
| `two_exchanges` | the same pair twice, one fault | what is left of the first exchange does not disturb the second; implements `ExchangeRows` | 440 thousand |
| `queue` | two chosen trades of one pair and one automatic that shares an adventure, one ended entry kept, one fault | rows and entries agree; a cancel is honoured; order; what ended stays ended; automatic trading leaves chosen trades their adventures; nothing but its own step takes an entry out of the line | 3.3 million |
| `queue_moves` | one chosen, one automatic trade, two faults, fair threads | every chosen trade leaves the line | 210 thousand |
| `lifecycle` | two start or stop requests, every edit route, one exchange or backup, one failure of any kind, fair threads | the row is honest at rest; a backup's copy is quiet; deletion takes nothing from a worker the application knows, and nothing starts what is being deleted, unless its owner restored it; the last stop and the last start are obeyed in the end | 220 thousand |
| `rewards` | three gifts, purchases or trades, two victories, six saves of which two are kept, two faults | a game has what journal and claims say; some save passes both barriers; every victory counts | 2.1 million |
| `legacy_pair` | two transactions, two faults, two autosaves kept, fair processes | play matches the journal; both or neither; no orphan hold; a game can start; a hold ends; implements `AtomicExchange` | 850 thousand |
| `unretried` | the same pair twice, no fault, fair threads | counterexample: a set-aside row nobody executes is not retried | |
| `reopened` | three adventures, two exchanges that share one | counterexample: a failed stop reopens a resolved row | |
| `monitor_ends` | stop and delete requests, no fault | counterexample: a report about an adventure deleted meanwhile ends the monitor's thread | |
| `revived` | stop, delete, restore and start requests, one failed removal | counterexample: what was half deleted is started again | |

Bounds. `N` is the number of exchanges: two are needed for a stale request or save
to meet another exchange, and the records of an exchange are independent of a third
one (the proofs cover every `N`). `MaxProgress` bounds play: two steps make a save
older than another one that is older than the live game. In `CableExchange` it is 0,
since progress matters to one adventure only. `MaxFaults` bounds worker failures,
lost answers, failing handlers, failed stops and application restarts together; one
fault and its handling, and a second one during the recovery, are the cases the
code distinguishes. `Stoppable` bounds whose owner interferes. There is no symmetry
reduction; the instances are small without it.

`queue` has two chosen trades because order, pruning and a cancel of another entry need
two; the automatic row shares an adventure with both and shows the competition. A third
entry adds no new kind of neighbour, and the proofs cover every `M`. In `queue_moves` two
faults let a recovery fail once and fail again. `lifecycle`: two wishes are the least at
which one can overtake the other, and enough to stop, restore and start what was half
deleted; one failure is a crash, a shutdown or one failed step, and its aftermath; `auto_start`
is off. The proofs cover more requests, failures and the setting. `Retries` and
`SetupRetries` are 1 (the code's 3) since what matters is the last retry and the one before; `MaxVisits` bounds exchanges and
backups together, because they exclude each other (`BackupBegins` refuses a library with
an unresolved exchange, `TradeReserves` waits for the lock) and meet only through what
they leave in the row. `rewards`: `N = 3` lets a third transaction begin beside the
saves and barriers of two; six saves with two kept is what it takes for every save from
before a barrier to be pruned; three complete transactions need more files and are left to
the proofs. `legacy_pair`: two transactions let a late prepare and an old save
of the first meet the second; requests reach a game's queue in the order they were sent.

Fairness (`Fairness`). The thread holding the execution lock goes on: every wait in
it has a timeout (prepare deadline, session deadline, request timeout), so
`WF(RunnerStep)`. The threads that wait for the lock get it, the scheduler wakes
every ten seconds, an orphaned worker exits within 45 seconds
(`worker.py` calls `os._exit`), and a closed application is started again. Nothing is
assumed of the owner, of play, or of a preparation ever being ready; a fault is never
required. Because `faults` is bounded the run says what happens after the
last fault. That a stopped application is started again is the one assumption about
the outside.

`ManualQueue`, `Lifecycle` and `LegacyPair` assume the same of their threads. The
scheduler looks only at the newest open row, which the model does not order: it may
recover any row in phase `recovering`, but is only counted on to do so when every open row
is in that phase. In `Lifecycle` the thread inside `maintenance` is weakly fair; a thread that waits for the
lock gets it in the end although others take it in between (`SF` of `JobRuns`,
`MonitorRestarts`, `TradeStops`, ...: the lock's holders all return, each wait has a
timeout). Nothing is assumed of requests. In `LegacyPair` the coordinator's deadline
strikes if it is reached again and again (`SF(GivesUp)`), a game handles its queue and is
started again, and a graceful stop is `Autosave` followed by `Dies`. `RewardDelivery`
states no liveness: after a failure it is the next start that goes on.

## What the four counterexamples show

`unretried`. The runner writes the terminal phase of one exchange and only then
settles its adventures, still holding the `execution` lock. A row proposed in that
window is created (nothing is unresolved) but its `execute` finds the lock taken and
returns. If a chosen trade sets it aside it has decision `ABORT` and phase
`aborting`. The scheduler retries only phase `recovering`, so the row stays and
every later proposal waits for it, until a restart, the owner's cancel or the
recover route. The documentation says that interrupted exchanges are retried
automatically.

`reopened`. In the same window another pair may be admitted that shares an adventure.
If stopping an adventure then fails, `recover_one` or `execute` writes `recovering` over the
terminal phase, and two unresolved rows reserve the shared adventure. The
participants stay consistent (the records decide, not the phase); what breaks is the
reservation as the rows tell it, which blocks stops and deletions.

`monitor_ends`. The monitor asks a worker for its summary, with no lock held, and then
reads and updates the adventure's row. If the adventure was stopped and deleted in
between, the registry raises `KeyError`, which the loop does not catch
(`supervisor.py:626`), and no worker is watched any more until the application restarts.

`revived`. When a removal fails, the deletion record stays pending and start-up tries again.
No route looks at the record. A stop request writes `stopped` over `deleting`, after which
PATCH with `archived` false is accepted and a start launches a worker for what is left; a PATCH
checked before the record was made and written after it does the same. The next start-up
deletes that adventure again, beside its worker if there is one. The comments of
`deletion.py` and the release notes promise that a partially removed game is not restarted.
`RevivalIsAsked` says that restoring is the only way there.

### Seen in weaker properties

While the properties of the passing runs were being stated, TLC refuted stronger ones.
What it found is kept here, and the passing properties name what they exclude.

* Queue. `ChosenComesFirst` (a comment of `schedule_once`): an entry added between the
  pass's last look (`coordinator.py:1112`) and its proposal waits behind an automatic
  trade of the same adventures. `AutomaticLeavesChosen` says what does hold.
  `QueueMoves` excludes rows that nobody executes (`Abandoned`), the situation of
  `unretried`.
* Wishes. The end of an exchange reads `desired_state` and then waits for the lock and
  writes `stopped` (`coordinator.py:875`), which overwrites a start accepted in between.
  So `StartIsObeyed` excludes adventures that take part in an exchange. The other way
  round, start-up overwrites a stop: `Manager.start` lists the rows, starts one game after
  another, which takes minutes, and writes `running` for each (`manager.py:193`) without
  reading the row again. TLC refutes `StartupKeepsStopped`, which is
  docs/multi-adventure-app-plan.md:605 ("Startup does not revive a game the owner
  intentionally stopped"). `StopIsObeyed` excludes exactly this: `history.wish` is then
  `overruled`. `auto_start` starts a game stopped before as well, which is what the setting
  asks for.
* Row and worker. A worker that dies after its last answer in an exchange is not started
  again, and the row says `running` (`coordinator.py:878`); a row left at `recovering` by
  a crash is skipped at start-up (`manager.py:190`); closing the application between an
  accepted request and its job leaves `starting`; an archive request checked before a
  start at start-up and written after it leaves an archived adventure running; and when
  a running adventure is archived by PATCH in that window, a later start of it is refused
  and its row says `failed` while the worker runs (`wish = "hidden"` in `StateIsHonest`).
* Deletion. `delete_adventure` asks whether the worker in `supervisor.children` is alive
  (`deletion.py:58`). After a crash of the application a worker lives on for up to 45
  seconds, unknown to the next run: a stop finds no child and writes `stopped`, and a deletion
  then removes the directory that the worker still owns. A worker that survived a failed stop
  is forgotten the same way (`supervisor.py:387`). TLC refutes `RemovalIsQuiet`, which is
  docs/next-release.md:66 ("A pending trade or live worker blocks deletion"), with one crash;
  `RemovalSparesWorkers` says what the code does ensure. A restored adventure may be
  forgotten by start-up while a worker of it is launched: `StartIsForgotten`. A late report
  makes the directory again after it was renamed (`registry.py:203`); if the removal then
  fails, later attempts raise 'Deletion has conflicting directories'. A deletion finished at start-up while `Manager.start` goes
  through its list raises `KeyError` out of it.
* Backup. A job that runs its check during a backup is refused and marks its adventure
  `failed` (`manager.py:160`), although docs/multi-adventure-implementation.md:59 has
  queued launches wait; when the job was a stop, the request is lost (`history.slips` in
  `StopIsObeyed`). A playback request that fails after a successful restart marks a live
  worker `failed` (`backup.py:114`). An orphaned worker of an earlier run may still
  write while the library is copied; `CopyIsQuiet` speaks of the application's own.
* Legacy pair. Three holds never end, and `HeldIsReleased` names them. `RunErased`: the
  peer released first starts a new run, which clears the barrier that recognises a
  repeated `load`; `finish` raises for ever and the other game stays held.
  `SaveCutOff`: a crash in a preparation's save leaves a newest file without manifest
  and a hold without source. `NoSaveLeft`: the very first autosave is cut off and the
  game refuses to start. Between publication and decision a restarted game shows the
  uncommitted exchange while it is held; it never plays on with it.
* Rewards. The first autosave ever, cut off between state and manifest, leaves a bare
  file that a start refuses; `StartSucceeds` asks for one whole save.

## Proofs

`ParticipantProofs` proves for every set of adventures, every `N` and every
`MaxProgress`:

* `TypeCorrect`, `AlwaysInv`: the type invariant and the inductive invariant;
* `ReservedOnce`, `HeldUntilItsEnd`, `NoOrphanHold`, `RestartIsExact`, `PlayIsExact`,
  `SourceIsNewest`: the invariants of run `one_adventure`;
* `DecisionIsFinal`, `SavedPlayStays`: its action properties.

Assumptions: `N` and `MaxProgress` are natural numbers and `Nothing` is no game and no
checkpoint (`NAssumption`, `MaxProgressAssumption`, `NothingAssumption`).

None of the properties is inductive alone. That a restart has exactly the exchanges of
the records depends on the barrier naming a save on disk (`BarrierHasSave`), on the
result being built on the newest save (`SourcesAreNewest`), which depends on the hold
being the exchange's own while the records say so (`Covered`), which depends on there
being one unfinished record (`Reservation`); `Lineage` ties restart points and loaded
games to the records. `ParticipantInv` is their conjunction. TLC checks it as an
invariant of `one_adventure`. The proof has one lemma per action for one
adventure, a lemma that other adventures are untouched, and `InvStep` that puts them
together.

`CableExchangeProofs` proves for every assignment of participants to exchanges, every
`Stoppable` and every `MaxFaults` besides:

* `CableAlwaysInv`: the inductive invariant of the composition, types included;
* `AllOrNothing`, `CommitIsBacked`, `NothingPlaysTwice`, `ResolvedIsOver`: the invariants
  of `one_exchange` and `two_exchanges`;
* `ComposedRestartIsExact`, `ParticipantsKeepPromises`, `ComposedDecisionIsFinal`,
  `ComposedPlayIsKept`: what a participant promises to any caller, kept under this
  coordinator and through the end of the application;
* `RowDecisionStays`: a decided row keeps its decision, and `COMMIT` is written only over
  staged records;
* `OwnersHaveTheOutcome`: a completed exchange is in the save and in the playing game of
  every participant, an aborted one in none; `ReceivedAlwaysStays`: no restart point loses
  a Pokemon it had received;
* `ImplementsAtomicExchange`: `CableSpec` implements `AtomicExchange`.

Further assumptions: each exchange has a set of adventures as participants (not
necessarily two), `Stoppable` is a set of adventures and `MaxFaults` a natural number
(`ParticipantsAssumption`, `StoppableAssumption`, `MaxFaultsAssumption`).

Agreement is not inductive: it breaks if an abort is delivered for a committed row, so
the invariant says what entitles a request to be sent (`Entitled`) and that late requests
(`LateFollows`) and the runner (`RunnerFollows`) keep that title while the rest of the
system moves. `RecordsFollowRow` ties each record to the row's decision: beyond its
result only where the row decided, and `COMMIT` only over staged results. `ResolvedRow`
says what a terminal phase means; it holds through the reopening that `reopened` shows.
`CableInv` is their conjunction with the types and `ParticipantInv`. TLC checks it as an
invariant of `one_exchange`. The proof does not go action by action through every
conjunct. It shows once per kind of state how any step may change it: `RecordMoves` (one
record, on whose authority), `RowSteps` (who decides what), `PhaseSteps`, `LateSteps`,
`RunnerMoves`; each conjunct then follows from these. `RecordMoves` and `RowSteps` also
give the refinement, one abstract step or none per move (`StepIsAtomic`). `AppRestarts`
orphans all workers at once, so `CableSpec` is not step by step a `ParticipantSpec`;
`ParticipantSteps` and `OrphansKeepInv` carry the participants' invariant along, and
`DecisionsCarry` and `SavedPlayCarries` their action properties: the end of the
application changes neither records nor saves. What owners find follows from the
invariants of both levels: the row agrees with the records (`ResolvedLeavesNothing`),
the records with saves and games (`RestartMatchesRecords`, `PlayMatchesRecords`).

`CableRowsProofs` proves `ImplementsExchangeRows`: under `RowPhase` and the lock every
step of `CableSpec` is a step of `ExchangeRows` or none. Besides `CableInv` it needs that a
thread works only on rows that exist and asks adventures only for rows that are not
resolved (`ThreadsSeeRows`, proved as `ThreadsAlwaysSeeRows`). There are few kinds of
step: those that leave the rows alone (`QuietKeeps`) and a few that write.

`ManualQueueProofs` proves, for every `M`, set of automatic rows, assignment of adventures,
`KeepManual` and `MaxFaults`: `QueueTypeCorrect`, `QueueAlwaysInv`, and from them
`RowsAlwaysFollow`, `CancelAlwaysHonoured`, `AlwaysInOrder`, `ChosenKeepTheirAdventures`,
`EndedAlwaysStays`, `AlwaysLeavesAlone`, which are all the properties of run `queue`. `QueueInv` says where the
drain may be with an entry in which state (`DrainFits`), that only it starts entries
(`EntriesFit`), who may carry out a cancelled row (`CancelFits`), that the drain holds
the oldest (`OrderFits`), and what the pass remembers (`PassFits`). A cancel is honoured
because the drain's last look comes after the claim; without `CancelFits` saying that a
row executed by drain or scheduler belongs to a started entry, that does not follow.
`QueueImplementsRows` shows that each step of the queue is a step of `ExchangeRows` or
leaves the rows alone: the same protocol `CableExchange` implements, seen from the threads
that use it. `RowsKeepDecisions` proves of that protocol alone that rows are decided once
and before they are resolved, and `QueueKeepsDecisions` takes it over.

`LifecycleProofs` proves, for all bounds, failures, edits and values of `auto_start`:
`LifecycleTypeCorrect`, `CopyAlwaysQuiet` (from `CopyFits`: while a backup holds the lock no
exchange is admitted and no one else starts a worker, so what it stopped stays down),
`RemovalAlwaysSpares` and `RevivalAlwaysAsked`. Those two rest on `DoomedIsQuiet`: from the
mark of a deletion to a restore by the owner the adventure is archived, has no worker in
`supervisor.children` and no exchange. Restoring is what breaks it, and the code lets it
(`revived`).
`RowAlwaysHonest` needs `HonestInv`, which explains every moment at which row and worker
disagree by the thread that is about to make them agree: the job or the holder of the lock
between its row and its worker (`RowFits`), one thread at a time (`OneAtWork`), a deleted
adventure without a worker (`GoneFits`) and an archived one that nobody is starting
(`ArchivedFits`).

`RewardProofs` proves `RewardTypeCorrect`, `PlayIsAlwaysExact` and `StartAlwaysSucceeds` for
all bounds. The invariant `RewardInv` says, besides types, what each phase of the gift's
record and of the trade's record means for game, barriers and files (`RecordFits`,
`TradeFits`, `GameFits`), that every save both barriers admit is exact
(`SavesAreExact`), that something on disk passes both barriers (`SomeSave`), and that numbers
are fresh (`NumbersFit`, `TradeIsNew`, `DeliveryIsNew`, `NothingYet`). There is one lemma per
action. `EveryWinAlwaysCounts` and `EveryGiftIsWon` rest on a second invariant, `WinsInv`:
the running game counts exactly the victories the ledger has observed, no save or record
counts more (`WinsFit`), and what is delivered was earned and what is earned was observed
(`ClaimsFit`).

`LegacyProofs` proves, for every `N`, `MaxFaults` and `Keep`, `LegacyTypeCorrect`,
`BothJournalsOrNeither` and `HoldsAreNamed`. Its `PairInv` says where the coordinator may be
with which `active.json` (`ActiveFits`, `PlaceFits`), that every request in a queue belongs
to the transaction under way and that one nobody waits for any more is a prepare whose game
will still be asked to abort (`QueueFits`), which games this round of `finish` is through
with (`ThroughFits`), and which holds and journal entries there can be (`HoldFits`,
`MarksFit`). A late prepare cannot hold a game for good because it is in the queue before
the abort that ends its hold. `LegacySavesProofs` proves `PlayMatches` and
`StartAlwaysPossible` from `SavesInv`: from staging to the journal a game is held on the save
its output is made from (`PlacedFits`), that output is the newest file and carries the
transaction's tag (`OutputFits`), tags are barriers of before (`TagsFit`), and a save the
barrier admits is exact unless it is such an output (`SavesAreExact`). Both invariants have
one lemma per action. From both of them follows `PairImplementsAtomicExchange`, again action
by action (`StepMaps`): a commit finds both outputs whole because `PlacedFits` says so of
`decide`, an aborted side has no output left because it says so of `abort`, and play, saves
and interrupted saves write no file under a transaction's name (`GameMaps`).

Each of these invariants was checked by TLC before it was proved. The assumptions are the
named `ASSUME`s of the modules: bounds are natural numbers, kept counts are positive, rows
of the queue are the chosen and the automatic ones, which are disjoint.

Only model-checked: the liveness properties `HeldIsReturned`, `CommittedIsReceived`,
`QueueMoves`, `StopIsObeyed`, `StartIsObeyed` and `HeldIsReleased`,
which are out of the prover's reach. Every invariant and every action property of a passing
run is a theorem for all bounds.

## Not modelled

* The owner's own restore of an old save and a new game: both are refused while a
  hold or an active preparation exists, and neither is part of an exchange.
* The reward barrier and the pruning of autosaves in `Participant` (no autosave is written
  while a hold exists); `RewardDelivery` has both, for one adventure.
* In `CableExchange` `cancel` and `_set_aside_automatic` read and write a row in one step;
  `ManualQueue` has the owner's cancel in two (`CancelReads`, `CancelWrites`), and
  `ExchangeRows` allows the late write.
* In `Lifecycle` there is one adventure: the maintenance lock is one for the library, so
  others only make threads wait. Archive, name and note are one edit. An orphan that saves
  while a backup copies is not seen as writing. What is in an archive, restoring one, and
  the viewers' lock order against a backup (`supervisor.py:246` takes the adventure's lock
  and then the registry's, `backup.py` the other way round) are left out.
* In `RewardDelivery` a new run is one step, only automatic saves exist, and earning a
  claim is one step with storing the run's memory.
* In `LegacyPair` the ledger that refuses a reward claimed out of order, the proposal board
  (`broker/`) and what an exchange does to boxes and parties. The owner's commands are
  refused while a game is held (`emulator.py:971`), so they are not there.
* Multi-exchange sessions: `CableSessions.create` has no caller, no row is a session.
* Trade offers: no route creates one.
* The Gen II side: its participant and emulator override the same handlers for other
  cartridges; the exchange protocol is the one modelled, its differences are not.
* Play itself: the policies, planners and goal arbitration choose buttons from emulated
  memory. They keep no state that another part relies on, no two threads meet in them, and
  their correctness is how well they play.
* The watchdog, notifications, assets, imports, web pages and the desktop shell: they
  report, download or convert and no modelled part reads what they decide.
* Time: deadlines may strike at any moment, delays have no length.
