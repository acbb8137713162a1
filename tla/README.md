# Formal verification of the billing core and the agent runtime's schedulers

TLA+ modules, TLC runs and TLAPS proofs for the parts of this repository where
money, scheduled work and decisions can go wrong: the credit ledger of
`packages/billing`, everything in `plugins/plugin-tokagent-billing` that moves
credits, and in the agent runtime of `packages/typescript` the task scheduler,
the daemon that several agents share, the batch queue and the approvals.

Contents: 1. the system; 2. the modules; 3. the runs; 4. fairness; 5. the
proofs; 6. abstractions and bounds; 7. disagreements between code and
documentation; 8. what is not modelled, and the plan.

## 1. The system

The repository is a monorepo of an agent runtime (`packages/typescript`,
`packages/agent`), a billing product (`packages/billing` and
`plugins/plugin-tokagent-billing`), other plug-ins, user interfaces and
command-line tools. The billing product sells model calls for credits: a user
deposits PTON tokens into a vault contract, an off-chain ledger mirrors the
deposit as a balance, requests are charged against the balance, and a worker
collects the charges from the vault in batches. The money is right only if
ledger, vault and a number of unsynchronised handlers agree.

| Component | State | Operations | Interacts with | What is hard | Correct means |
|---|---|---|---|---|---|
| Credit ledger (`ledger.ts`, `schema.ts`, `retry.ts`) | `billing_credit_state` (balance, reserved, accrued, accrued_since), `billing_reservations` | reserve, commit, release, hydrate, flushAccrued | everyone below | holds that span requests; double settlement; a reading of the vault replacing the balance | reserved = open holds; a hold settled once; nothing negative; only hydrate and flush change the sum |
| Billed requests (`billing-gate.ts`, `messages-proxy-routes.ts`, `model-billing-wrapper.ts`, `charge.ts`) | one handler per request, its reservation | gate, call upstream, read stream or body, commit or release | ledger, upstream model | every error path must settle the hold; streams that break off; a crash in between | charged exactly for complete answers; every hold settled |
| Consume worker (`consume-worker.ts`, `withdraw-watcher.ts`, `vault.ts`, `consume-service.ts`) | `billing_consume_batches`, the `running` flag of the interval | flushNow / flushOne: select, probe, insert row, submit, await receipt, confirm, flush, fail | ledger, vault, mempool | two flushers on one account, crash between any two steps, lost receipts, accruals growing meanwhile | nothing collected twice, nothing written off but what was collected or charged during the flush, all collected in the end |
| Top-up (`topup-routes.ts`, `quotes.ts`, `backing.ts`, `credits-routes.ts`) | `billing_quotes`, `billing_credit_backing`, sessions | quote, settle, poll, bridge, sweep | ledger, vault | concurrent settles, a deposit mined after its receipt was given up, late readings | a quote settled once and only when paid; no more credits than deposits; balances converge to the vault |
| Task scheduler (`services/task.ts`) | stored tasks, `tasksDirty`, `executingTasks`, `stopped` | checkTasks, runDueTasks, executeTask, executeTaskById, pauseTask, resumeTask, markDirty, stop | database adapter, hosts, operators, task workers | ticks overlap; rows re-read and written back around awaits; failures, crashes | blocking tasks run alone; tasks run; no task lost; no endless failing |
| Shared task daemon (`task-scheduler.ts`) | `registry`, `dirtyAgents`, adapter and timer | tick, startTaskScheduler, stopTaskScheduler, register, unregister, mark dirty | task scheduler | a tick awaits one agent while another stops, restarts or marks; ticks overlap | a stopped service is left alone; a mark brings a tick |
| Batch queue (`utils/batch-queue/*`) | three arrays by priority, semaphore permits and waiters, `isDraining`, `disposed`, the row of the repeat task | enqueue, drain, processOne with retries, clear, start, dispose | task scheduler, the owner's `process` | re-entered drains; permits handed on; dispose during a drain; restarts over an old row | permits conserved; one batch at a time; urgent items tried; one repeat task; one end for each item |
| Approvals (`approval.ts`, `choice.ts`) | stored tasks, `pendingApprovals` with their timers, `registeredWorkers` | requestApproval(Async), CHOOSE_OPTION, time-out, cancel, stop | database, messengers | choices, timer, cancel and stop around each other's awaits | answered, and then neither entry, timer nor row is left |
| Pairing, hooks (`pairing.ts`, `hook.ts`) | pairing requests, allow-lists, handlers | upsert, approve; register, dispatch | messengers | - | - |
| Pre-authorised top-ups (`preauth.ts`) | slots | store, list, revoke (no caller ever spends one) | top-up routes | - | - |
| Sign-in (`nonces.ts`, `siwe.ts`, `api-keys.ts`) | nonces, sessions, key hashes | issue, consume, resolve | gate | two sign-ins with one nonce | a nonce accepted once |
| Price oracle and cache (`twap/*`, `twap-service.ts`) | last price and its age | refresh, get | gate, quotes | stale price while refreshes fail | no charge at a price older than allowed |
| Rate limiter (`rate-limit.ts`) | buckets | consume, sweep | proxy | memory of unused buckets | no key above its rate |
| Withdraw subscription (`withdraw-service.ts`) | reconnect count | subscribe, reconnect | consume worker | gives up for good | collection does not depend on it |
| Pricing tables, usage log, configuration, client mode, contract bindings, dashboards | - | - | - | pure or I/O | - |
| Messages, models, memory; agent server; trading and messaging plug-ins; user interfaces; tools | - | - | - | driven by model output or external services | - |

How the pieces interact: requests, the worker and the top-up never call each
other. They share the ledger's rows, and the worker and the top-up share the
vault. The ledger's operations run in SERIALIZABLE transactions with retry
(`ledger.ts:108` and below, `retry.ts`), so each of them is atomic; everything around
them is a sequence of `await`s in one Node process, with nothing that excludes
another handler in between except the `running` flag of the worker's interval
(`consume-service.ts:66-81`) and the primary keys of the tables. In the agent
runtime the daemon hands fetched tasks to the task scheduler's `runTick`; the
repeat task of a batch queue is one of those tasks, and its worker calls
`drain`; an approval is a stored task as well, though not a scheduled one. They
share the store of tasks and the event loop, and nothing excludes them from
each other but the flags named above.

## 2. The modules

```
CreditAccount                      what one account promises
   ^ refined by
CreditLedger  <- CreditLedgerProofs
   ^ extended by
ConsumeWorker <- ConsumeWorkerProofs
Topup         <- TopupProofs
BilledRequest <- BilledRequestProofs

WorkPool                           what a queue of work promises
   ^ refined by
BatchQueue    <- BatchQueueProofs
TaskService   <- TaskServiceProofs
TaskDaemon    <- TaskDaemonProofs
Approvals     <- ApprovalsProofs
```

MC modules (`MCConsumeWorker`, `MCTopup`, `MCBilledRequest`,
`MCTaskService`, `MCTaskDaemon`, `MCBatchQueue`, `MCApprovals`) only declare
model values and the sets the `.cfg` files use.

**CreditAccount** is the abstract specification: an account has a spendable
amount, holds in force and an amount owed; a hold is settled exactly once, for
a charge it covers, and what is owed is collected as a whole. An account may
start with credits, those deposited before. It has no rows, stamps, outcomes or
reserved column. The ledger alone implements it, and so do its three
compositions below (proved; TLC checks `BilledRequest`).

**CreditLedger** is `ledger.ts`. `credit` is `billing_credit_state`,
`reservations` is `billing_reservations`, `clock` is the time stamp of a
commit. One action per operation: `Reserve`, `Commit`, `Release`, `Hydrate`,
`FlushAccrued`. `ActualCharge` is the cap of `commit` (a charge never exceeds
its hold); `Hydrate` computes `max(0, reading - reserved - accrued)`. It
implements CreditAccount under the mapping in the module (`ImplementsPromise`).

**ConsumeWorker** extends the ledger with the rows of
`billing_consume_batches`, the vault, the mempool and one program counter per
flusher. Steps end at each `await` of `flushOne`: select, probe the vault,
insert the row, submit, wait, confirm, flush, or fail. Flushers are the
interval (`Timer`, never overlapping itself) and `WithdrawRequested` handlers
(`Handler`, guarded by nothing). Requests (`Reserve`, `Commit`, `Release`) go
on meanwhile. Faults: a send that fails, a receipt that does not arrive, a
cycle aborted by the database, a crash.

**Topup** extends the ledger with quotes, settle sessions, per-chain backing,
the vault and its authorisations. A session is one `POST /v1/topup/settle`;
its steps end at the handler's awaits: fetch the quote, submit, wait, mark
consumed, attribute, read the vault, hydrate. `PollRead` and `PollAdopt` are
the two halves of `GET /v1/credits/me`. `Sweep`, `Bridge`, external deposits
and withdrawals run beside them.

**BilledRequest** extends the ledger with one handler per reservation. Kinds:
`text` and `stream` requests of callers through the proxy, `wrapped` calls of
the agent's own `useModel`, which are billed to the operator. Each path of the
handlers, including those through an error, ends in `Bill`, `GiveBack` or in
one of the ways a handler can be lost (`Crash`, `BodyLost`, `CommitFails`,
`ReleaseFails`).

**TaskService** is `services/task.ts`. `rows` are the stored tasks;
`dirty`, `stopped`, `executing` are the fields of the class, `serverless` that
of the runtime. Each call has a program counter, the tasks it fetched, the one it
executes and the row it is about to write back. A call is one of `checkTasks` by
the local timer (`Ticks`, none in a serverless runtime) or of the public API
(`Host`).
`Reread` and `Save` are the two awaits between which other calls interleave.

**TaskDaemon** is `services/task-scheduler.ts` with the parts of `task.ts` that
talk to it. `registry` and `dirty` are the module's map and set, `on` its
adapter and timer. A tick takes the marks (`Begin`), awaits the fetch (`Fetch`,
`FetchFails`), then for each agent with tasks looks it up and awaits its run
(`RunTick`, `RunEnds`) or passes it over (`Skip`). Meanwhile the host starts and
stops the scheduler, and services start, stop, come back as a new instance
under the same agent id, and mark. What a run does is TaskService's business:
here it takes a while and may delete some of its tasks.

**WorkPool** is the abstract specification of a queue of work: an accepted item
is tried a bounded number of times in one of a bounded number of places until
it has succeeded or is given up; only an untried item can be discarded; a fate
is final. It knows no batches, priorities, permits, timers or retries.

**BatchQueue** is `utils/batch-queue/*`. `at` says how far each item is, from
the arrays of `PriorityQueue` (`ahead` has the items in front of it) through
the steps of `processOne`: `Acquire`, `Process`, `Succeeds` or `Fails`,
`GivenUp`, `BackoffEnds`. `permits` and `waiters` are the semaphores of the
batch processor and of the one `dispose` makes for its flush, `Wakes` is
`release`. `Drain` and `DrainEnds` are the two sides of the await of `drain`;
`Start`, `FindTask`, `CreateTask` are the steps of `TaskDrain.start`, `rows` the
repeat tasks it leaves in the store; `Dispose` and `DisposeEnds` surround the
flush. Faults: a rejected database call, a hook that throws, a crash that
leaves the row and nothing else. It implements WorkPool (`ImplementsPool`) with
`maxParallel + 1` places, because dispose flushes beside a drain under way.

**Approvals** is `services/approval.ts` with the action CHOOSE_OPTION of
`choice.ts`. A request has a row, an entry in `pending` and perhaps a timer in
`armed`; `answer` is what its promise resolved with. Each run of CHOOSE_OPTION,
each time-out and each cancellation has its program counter, with a step for
each stretch between awaits: `Choose`, `Check`, `Select`, `ReadTask`,
`Selected`, `ChoiceEnds`; `TimerFires`, `TimeoutReads`, `TimesOut`,
`TimeoutEnds`; `Cancel`, `CancelEnds`. `Create` and `Track` are the two sides of
the await on which a row exists without its entry. `dropped` records the
requests whose row was deleted by a call that did not have their entry.

Definitions named `...Bug` are mutations used to show that each property can
fail: the operator right below each of them is the one translated from the
code. Nothing else refers to them.

## 3. The runs

All runs take at most about three minutes with two workers. "Violation" runs
check a claim that the documentation makes and the code does not keep.

| Run | Instance | Checks | Shows |
|---|---|---|---|
| `worker_sole` | 1 wallet, a resolvable and an unresolvable chain, 3 requests, one interval, withdrawals, up to 3 failing sends | NeverOvercharged, EventuallyCollected | with a single flusher whose transactions are all waited for, nothing is collected twice, and every accrual is zeroed or dead-lettered after MAX_ATTEMPTS |
| `worker_races` | 1 account, 2 requests, interval and handler, 2 faults of every kind | WorkerTypeOK, ConfirmedIsOnChain, AttemptIsOnRecord, OneChargeIsExact, OnlyLateChargesEscape | rows never run ahead of the chain, the chain never runs ahead of the rows, a charge that stays alone is collected at most once, and what is written off uncollected was charged while its account was being flushed |
| `topup_settle` | 2 wallets, 2 chains, one quote, 2 sessions, bridging, one fault | TopupTypeOK, QuoteSettledOnce, ConsumedIsPaid, BackingWithinQuotes | a quote is settled once and only when paid, and attributed at most once |
| `topup_heals` | 1 account, 1 quote, 2 sessions, 1 request, dashboard, withdrawals, one fault | TypeOK, CreditsWereDeposited, Heals | late readings never create credits or take the balance below zero, and polling brings the balance to what the chain leaves |
| `request` | 2 requests of any kind on 2 accounts, margin 50 %, one fault (a database error, a usage block that is not a number, a lost body, a crash) | RequestTypeOK, HoldIsOpen, OnlyAnswersAreCharged, AccruedIsMetered, ReservedIsHeld, SumIsConserved, ImplementsPromise, EveryHoldIsSettled | charged exactly once for complete answers only, for at most the hold; what is reserved is what open holds hold, and no hold or charge makes or loses credits; every hold settled unless its handler died |
| `tasks` | a one-shot task and a blocking repeating task; in a serverless runtime two hosts that poll, in any other a timer and a host; one pause or resume, one fault or stop | TaskTypeOK, BlockingRunsAlone, NoOneShotIsLost, EventuallyRuns, NoRetryStorm | overlapping ticks never run a blocking task twice, nothing is deleted unrun; where hosts poll a serverless runtime everything runs, and failing tasks end up paused |
| `daemon` | 2 agents, 3 services (one agent is restarted), 2 tasks, 2 overlapping ticks, one start and stop of the scheduler, services started and stopped repeatedly, one failing fetch | StoppedIsLeftAlone, EveryMarkIsServed | no tick calls a service that has stopped; a task stored before its agent was marked is handed out |
| `queue` | 3 items of 2 priorities, batches of 2, one permit, 2 attempts (one item sets its own 1), room for 2, 2 overlapping ticks, one fault | QueueTypeOK, PermitsAreAccounted, OneBatchAtATime, UrgentIsTried, OneRepeatTask, ImplementsPool, EveryItemSettles | permits are conserved, batches never overlap, urgent items are tried before the rest is dropped, every item has one end |
| `approvals` | one request with a timer, 3 choosers, an option and ABORT, cancel, stop, one fault | ApprovalTypeOK, AnsweredIsSettled, AnsweredIsWithdrawn, TimedIsAnswered | whoever answers leaves neither entry, timer nor row; every timed request is answered unless its row was taken away |
| `worker_lost_accrual` | violation | LedgerMatchesChain | a charge committed during a flush is zeroed uncollected |
| `worker_crash` | violation | NeverOvercharged | a crash before the flush and another charge: collected twice |
| `tasks_local_timer` | violation | TimerRuns | the local timer alone: after its first tick it fetches nothing |

Why the bounds suffice for these questions. The ledger has no run of its own: its
actions touch one account and one reservation, its properties are proved for any
number of them and any sequence of calls, and the runs of its callers check them
where they meet each other: two holds of different amounts on one account or on
two, with totals on both sides of the cap (`request`), and readings on both sides
of the commitments between collections and withdrawals (`topup_heals`).
The worker's races need two flushers, one account and two charges (one before
and one during a flush); `worker_sole` adds the unresolvable chain and the
third failing send, which reaches the dead letter. Two sessions are needed for
double settlement, and the second chain for double attribution. Two requests
suffice for holds that compete for one balance. Two calls are what it takes to
overlap in the task scheduler, whichever of the timer and the hosts make them;
two failures pause a task, and one more would only lengthen the
run. In the daemon two agents make one wait for the
other, and the second instance of one of them replaces or outlives the first.
In the queue a batch of two over one permit makes an item wait for another, and
the third item is enqueued, refused or dropped meanwhile; two attempts are one
backoff. Requests for approval share nothing but the database, so one suffices;
the third chooser reads the row between another's answer and its deletion.
Deadlock is not checked (`CHECK_DEADLOCK FALSE`) in the runs of Topup,
BilledRequest, BatchQueue, Approvals and TaskDaemon and in `tasks_local_timer`:
when every session, request, item, choice, mark or tick of the instance has been
served, nothing is left to do.

Every property of a passing run has a mutant in `PROJECT.json`: an altered
operator of the model, as a plausible bug would alter the code, under which
TLC finds the property violated.

## 4. Fairness

* Worker (`Fairness` of ConsumeWorker): the interval ticks (`setInterval`),
  a flusher that can take a step takes it (Node's event loop), the accrual
  grows older than `consumeMaxAgeMs`, a submitted row grows older than its
  time-out, and some transaction of the mempool is mined. Nothing is assumed
  about requests, withdrawals, withdraw events or faults.
* Top-up (`Fairness` of Topup): a dashboard that shows an account polls every
  30 seconds (`app.js`), and the ledger half of a collection follows its chain
  half. Nothing is assumed about settles: a client may never send one.
* Requests (`FairRequestSpec`): an upstream call ends, a body or stream ends,
  and a handler past them goes on. The HTTP client's header and body time-outs
  bound the first two. Requests need not arrive.
* Tasks (`FairTaskSpec`): the interval fires, the clock goes on, calls under
  way continue, which includes that workers end (the code has no time-out for a
  worker; one that never ends blocks its tick for good), and hosts keep calling
  `runDueTasks()`. `packages/typescript/README.md:276` asks that of the hosts of
  serverless runtimes, which have no timer; therefore EventuallyRuns and
  NoRetryStorm are stated of that mode only (`tasks`). With the local timer and
  no host, where the conjunct for hosts is empty, the same fails as TimerRuns
  (`tasks_local_timer`). Nothing makes a task fail, succeed, pause or be created.
* Daemon (`FairDaemonSpec`): while there is a timer the interval fires, and a
  tick goes on, which includes that fetches answer or fail and that `runTick`
  ends. Nothing is assumed about hosts, services, marks or tasks.
* Queue (`FairQueueSpec`): the owner starts the queue, the stored repeat task
  goes on ticking (`tasks` shows that it does when the hosts of a serverless runtime
  keep polling, `tasks_local_timer` that without one it does not), calls
  of `process` end one way or the other, backoffs end, and calls under way
  continue. Nobody has to enqueue, clear or dispose. A `process` that never ends
  keeps its permit for good: the code has no time-out for it.
* Approvals (`FairApprovalSpec`): timers fire, and calls that have started go
  on, which includes that callbacks end. Nobody has to ask, choose, cancel or
  stop.

## 5. The proofs

Checked by TLAPS for all values of the constants. Assumptions are the named
ASSUMEs of the modules and nothing else: amounts and readings are naturals
(`AmountsAreNatural`); the accounts of the collector are finitely many, its
thresholds naturals (`WorkerConstants`); quotes have positive amounts and
dashboards show accounts of live chains, of which there are finitely many
(`TopupConstants`); the operator is an
account and the margin a natural (`RequestConstants`); repeating, blocking and
tireless tasks are nested as their names say, ticks are calls (`TaskConstants`); items are finitely many, batch size, permits and attempts
positive, attempts item by item (`QueueConstants`); timed requests are tracked ones, and options are
none of the words that stand for other answers (`ApprovalConstants`); every
service and every task has an agent (`DaemonConstants`). SoleFlusherNeverOvercharges assumes in addition
that there is one flusher, and that failing sends are the only faults.

| Theorem | States |
|---|---|
| LedgerTypeOK, LedgerStamps, LedgerReservedIsHeld | `[]TypeOK`, `[]AccruedIsStamped`, `[]ReservedIsHeld` |
| LedgerClosedIsFinal, LedgerSumIsConserved, LedgerImplementsPromise | the two action properties, and the refinement of CreditAccount |
| WorkerIsTyped, WorkerConfirmedIsOnChain, WorkerAttemptIsOnRecord, WorkerKeepsStamps | the collector with any number of flushers, accounts and faults |
| WorkerOneChargeIsExact | an account charged once is collected exactly, whatever races, crashes and gets lost |
| WorkerOnlyLateChargesEscape | what is neither collected nor owed was charged during a flush of its account, with any number of flushers and faults |
| SoleFlusherNeverOvercharges | the single flusher collects nothing twice |
| TopupIsTyped, TopupQuoteSettledOnce, TopupConsumedIsPaid, TopupCreditsWereDeposited | the top-up with any number of sessions, quotes, chains and faults |
| TopupBackingWithinQuotes | chains are credited with no more backing than the consumed quotes deposited |
| RequestIsTyped, RequestKeepsLedger, RequestHoldIsOpen, RequestOnlyAnswersAreCharged | the request handlers, for any number of requests and any margin |
| RequestForgetsNoHold | a hold is open only while its handler runs, or after a fault killed it |
| RequestAccruedIsMetered | an account owes what was metered for it, margin and cap included |
| WorkerImplementsPromise, TopupImplementsPromise, RequestImplementsPromise | the three compositions refine CreditAccount too |
| WorkerReservedIsHeld, TopupReservedIsHeld, RequestReservedIsHeld | `[]ReservedIsHeld` under each of them |
| WorkerSumIsConserved, TopupSumIsConserved, RequestSumIsConserved | SumIsConserved under each of them |
| WorkerClosedIsFinal, RequestClosedIsFinal | ClosedIsFinal under the two that close reservations |
| TaskIsTyped, BlockingAlone, OneShotIsNotLost, TaskNoGhosts | the scheduler, with any number of tasks, timers, hosts and faults |
| DaemonLeavesStoppedAlone, DaemonLosesNoMark | the daemon, with any number of agents, services and ticks |
| QueueIsTyped, QueuePermits, QueueOneBatch, QueueNeverJams, QueueUrgent, QueueHasOneRepeatTask, QueueImplementsPool | the queue with any items, priorities, limits, ticks and faults, and its refinement of WorkPool |
| ApprovalsAreTyped, AnswersSettle, AnswersWithdraw, ApprovalsAreInCharge | approvals with any requests, options, choosers and faults |

The arguments:

* *Ledger.* `ReservedIsHeld` compares a column with a sum over rows. The module
  counts the units of the open holds, each a pair of a reservation and a
  number, so the inductive `HoldsCounted` can say that they are finitely many
  and that the column is their cardinality; one opened or closed reservation
  adds or removes its own units. The refinement maps each operation
  to the abstract action of its name and needs only `TypeOK` for it.
* *Sums.* The library's sum is a fold, a recursive function of the subsets, and
  the theorems for induction take an operator, which no installed prover can
  instantiate. The section "Sums over finite sets" of CreditLedgerProofs
  therefore argues first-order: a set of naturals that is not empty has a least
  element (`LeastNatural`, from the well-foundedness of `<`), so if a claim
  failed for some subset it would fail for a smallest one. What comes out are
  the facts that the proofs about sums use: a sum is a natural, does not change
  where the function does not, splits into an element and the rest, and grows
  with the function and with the set.
* *Compositions.* These facts are proved once for every call of the ledger with
  any natural total and reading (`AnyCall`), because a cost with its margin and
  what the chain has come to hold are in no set that a caller chooses from. Each
  composition then only shows that its steps are such calls or leave the ledger
  alone (`WorkerStepsLedger`, `TopupCallsLedger`, `RequestCallsLedger`), under
  the types that make the totals and readings natural. The refinement,
  ReservedIsHeld, SumIsConserved and ClosedIsFinal carry over that way. A stray write of a
  balance, a second settlement or a charge above its hold would break it.
* *Worker.* `ConfirmedIsOnChain` is not inductive: a flusher about to confirm
  must know that the vault took its batch. `RecordInv` adds
  what each program counter knows of the current candidate (`FlusherKnows`) to
  the two properties, which need each other; `WorkerInv` joins it with the
  types of the control state (`FlusherOK`: inside `flushOne` there is a
  candidate), of the chain (`ChainOK`) and of the rest (`HistoryOK`).
* *One charge.* An account with at most one charge has at most one batch id.
  `ChargeInv` says so of every place where a batch of it can be (`Out`: consumed
  on chain, sent, or in the list of some flusher) and adds what ties the books
  to that batch (`OneBatch`): the chain has collected the charge exactly when
  it has consumed the batch, and the accrual is the charge, or was written off
  afterwards. It also needs that no batch is of the amount 0.
* *Late charges.* OnlyLateChargesEscape says nothing of what a flush is about to
  zero. `EscapeInv` adds that every candidate in a flusher's list, with its
  amount if the vault has yet to take it, covers all its account was charged
  except what is late: whatever is charged after a selection is late as long as
  the candidate is listed. A candidate listed again, after a crash or by a
  second flusher, may have been consumed before; so the invariant also says that a consumed batch with
  the stamp its account has now is counted twice in collected and accrued, and
  that the stamps of batches that are out lie behind the clock, so that no new
  accrual is taken for that of an old batch.
* *Single flusher.* `FreshCandidates` says that every candidate still to be
  flushed is of the accrual its account has now, and of at most its amount,
  which a second flusher would break. `CleanBooks` adds that the books of an account agree up to the
  transaction that is being waited for, which a crash or a lost receipt breaks,
  so SoleFlusherNeverOvercharges assumes that failing sends are the only
  faults; `worker_crash` shows that it has to.
* *Top-up.* `SettleInv` says that a session keeps the order it began with
  (`OrderStands`), that it has paid once it is past its receipt
  (`DepositsStand`), and that whoever is past `consumeQuote` has consumed the
  quote alone (`WinnersStand`). `CreditInv` bounds every reading under way by what has been
  deposited (`ReadingsAreDeposits`), so adopting it late is harmless to
  `CreditsWereDeposited`. `BackingInv` compares the backing of a wallet with
  the consumed quotes whose session is not still about to attribute them
  (`Attributed`); the deposit of such a quote is added to both sides in the step
  that attributes it.
* *Requests.* `Bound` ties each stage of a handler to its reservation, which
  is open from the gate to the settlement, and to what the upstream did: only a
  complete answer is about to be charged, only a failed one about to be
  released; and an open reservation has a handler that is on its way to settle
  it, or one that died, for which a fault is to blame (`Blamed`). `Metered` is
  the sum over the charged requests of an account: `Bill` adds one term, and
  every other step leaves the charged requests and their usage alone
  (`FeesStand`).
* *Tasks.* `AloneInv` adds to `BlockingRunsAlone` that a running blocking task
  is in `executingTasks` (`OnRecord`), which stop breaks and the property
  therefore excepts. `LostInv` adds that a call that may delete a one-shot task
  has seen its worker end (`Ran`). `NoGhostRuns` is inductive: every exit of
  `executeTask` takes the task off the record that the entry put it on.
* *Daemon.* `RegistryOK` says that an entry names a started service of its
  agent, because `stop` deletes the entry in the step in which the service
  stops; `TicksOK` that a tick's agents are those of its tasks. The lookup and
  the call are one step, with no await between. `MarkInv` follows a mark from
  `dirty` through the fetch, the loop and the runs of a tick (`OnItsWay`) until
  a run has served its task; only a stop, or a getTasks that is rejected, takes
  it off that way.
* *Queue.* `QueueInv` joins the types with what they need: the row is there
  whenever its id is known (`RowIsKnown`), an item is worked on by the processor
  it was handed to (`HandedOver`), and the waiters of a semaphore are exactly
  the items that wait for it, each once (`LineInv`). From it follow, each by
  its own induction, PermitsAreAccounted (a step that moves a permit changes the
  set of holders by one item), OneBatchAtATime with `Flagged` and `Fresh`
  (`BatchInv`), NeverJams (an item enters the line when it begins to wait and
  leaves it only to be granted, and as the permits are accounted for somebody
  holds one while the line is not empty), and UrgentIsTried with the fact that no urgent item is queued
  once dispose has begun (`UrgentInv`). The refinement adds `TriedInv` (an item
  is exhausted only after a try, and tried again only below its limit) and takes
  the bound on places from the permits of the two semaphores.
* *Approvals.* `ApprovalInv` adds to the three properties that a request
  without an entry yet has no answer, timer or time-out (`YetToTrack`), and
  that a choice with an entry in hand took its timer (`HeldIsMade`).
  SomebodyAnswers needs `RowsStand`: a row is deleted only from a request that
  is answered or counts as dropped, so a choice in charge finds the row and goes
  on to `onSelect`. Nothing takes an excuse back (`ExcusesStay`).

Every safety property that a passing run checks, invariant or action property,
and every refinement has its theorem. Only model-checked are the liveness
properties (EventuallyCollected, Heals, EveryHoldIsSettled, EventuallyRuns,
NoRetryStorm, EveryMarkIsServed, EveryItemSettles, TimedIsAnswered), which need
fairness and ENABLED, beyond the prover. For five of them the part of the
argument that is safety is proved, for all instances: a hold is never forgotten
(NoHoldIsForgotten), no mark is lost (MarkIsKept), no ended run keeps a task
from running (NoGhostRuns), no wake-up is lost (NeverJams), and a timed request
always has somebody in charge (SomebodyAnswers). What is left to fairness is
that whoever is in charge takes its next step. These five are stated in the proof
modules; TLC found them to hold on the instances of section 3 before they were
proved.

## 6. Abstractions

* The clock of the ledger advances with every commit, so stamps are unique.
  Ages are flags that become true at some moment. The code waits three minutes
  for a receipt and treats a submitted row as stale after five, so no row goes
  stale under a flusher that still waits (`RowGoesStale`).
* A batch id, in the code a hash of chain, account, amount and stamp, is the
  tuple it is computed from: no collisions.
* Only requests that can change state are sessions of the top-up: signatures
  valid, amounts as quoted. Others are refused before the first write.
* `Topup` has the collection of charges as two steps, one on chain and one in
  the ledger; ConsumeWorker has all of them. Its `Crash` happens only while no
  hold is open, as lost holds are BilledRequest's question.
* A request's costs are amounts without the margin. The price is read once per
  request and scales estimate and charge alike.
* The usage block of an answer either costs a natural, a negative sum counting
  as nothing (`charge.ts:12`), or makes the arithmetic of commit throw
  (`bad_usage`).
* `TaskService`: a fetched list is run in any order; a pause and a resume write
  back the metadata they read (the counters, not only the flag); the interval
  of a backed-off task is some time, like any other. `executeTask` reads and
  writes the row by id, and `updateTask` ignores ids that are gone, as the
  in-memory adapter does.
  `validateTasks`, which skips tasks without a worker or whose `shouldRun`
  refuses them before the modelled steps, is left out;
  `resumeTask` with `runImmediately` is a resume and a run by id.
* `TaskDaemon`: services of serverless runtimes are left out, as they neither
  register nor have a timer; a service without the daemon has its own, which is
  TaskService. `startTimer` and `stop` may be called any number of times, except
  `startTimer` after `stop`: it would register a stopped service, whose
  `runTick` returns at once.
* `BatchQueue`: the items of a batch acquire in any order, where the code has
  them do it in the order of the batch; backoffs last any time. Every queue has a
  `maxSize` with an `onPressure` that rejects; without them the bound is never
  met. The interval in the row, `dispose` told not to flush, and a `drain` called
  before `start` are left out; the loop without a processor differs from the
  flush only in not calling `onExhausted`. An item may set its own limit of
  attempts, a whole number; with a fraction the loop of `processOne` ends at the
  line it calls unreachable (`batch-processor.ts:187`), without `onExhausted`.
* `Approvals`: every request has a name, and so a worker, of its own, and its
  callbacks, whose errors are swallowed, are part of the step after them. The
  list of tasks, the model's choice and its parse are one step.
* Histories (`ended`, `owed`, `dropped`, the collected totals, the deposits made)
  are variables no action of the code reads.

## 7. Disagreements between code and documentation

Found by violation runs (PROJECT.json has the quotations):

1. `consume-worker.ts:451` zeroes whatever is accrued at the flush instead of
   the amount of the batch (`worker_lost_accrual`). OnlyLateChargesEscape says
   that nothing else is written off uncollected.
2. `consume-worker.ts:216` derives the batch id from the amount, so after a
   crash an accrual that has grown is collected again (`worker_crash`).
3. `task.ts:233` clears a flag that nothing in `src/` sets again: `markDirty` has
   no caller, so after its first tick the local timer fetches nothing
   (`tasks_local_timer`). The same holds under the daemon, whose services are
   marked by their registration only.

Observed while reading and modelling, without a run of their own. Those that
touch a property say how the runs avoid or except them.

Billing:

* `withdraw-watcher.ts:97` flushes beside the interval; with a charge between
  their selections both collect it under different ids, though
  `consume-service.ts:29` relies on the row states for correctness. `worker_sole`
  has no handler; `worker_races` has one and checks OneChargeIsExact.
* A crash between confirming a row (`consume-worker.ts:448`) and zeroing the
  accrual leaves the accrual to be skipped (line 283) until another charge
  changes its id, against `decisions.md:526`. EventuallyCollected is checked
  without crashes.
* `consume-worker.ts:231` cuts the candidates to `consumeMaxPerCycle` before it
  skips unresolvable chains and finished batches, so enough of those in front
  starve every other account. `worker_sole` keeps the limit at the number of its
  accounts.
* `quotes.ts:112` sweeps a quote whose deposit is being mined: its settle is
  answered 409, with the deposit attributed to no chain, though
  `topup-routes.ts:657` says that a legitimate settle is never denied. The sweep is
  an action of `topup_settle`, whose properties hold across it.
* `messages-proxy-routes.ts:425` awaits the body outside any `try`: a connection
  that breaks after the headers leaves the hold open for ever, though line 194
  promises a release. EveryHoldIsSettled excepts such requests.
* `credits-routes.ts:131` replaces the balance by what was read before an await:
  if the worker collects and flushes in between, the collected credits are
  spendable again until the next reading, against the invariant of
  `ledger.ts:10-11`. `topup_heals` shows that the next readings repair it.
* `billing-gate.ts:268` holds the estimate without the margin and commit charges
  with it, so `commit` caps charges whose estimate was right, which
  `ledger.ts:214` takes for a sign of an underestimate.
* `scripts/check-ledger-consistency.ts:35-36` expects a sum that a flush, by
  design, lowers.
* `consume-worker.ts:426` writes `pending` or `dead_letter` over a row that
  another flusher may have confirmed by then; step 1 (line 281) relies on
  `confirmed` being terminal.
* `messages-proxy-routes.ts:380` writes an unterminated last stream event again
  and does not parse its usage; such an answer is modelled as costing nothing.
* `rate-limit.ts:123` sweeps only full buckets, and refills only on use: no
  bucket is ever swept, though line 16 says that idle keys are evicted.
* `billing-gate.ts:252` takes the cached price at any age.

Agent runtime:

* `task.ts:417` writes the row that was re-read before it: a `pauseTask` in
  between is lost. `task.ts:263` does not look up one-shot tasks in
  `executingTasks`, and neither does `executeTaskById`: overlapping ticks run
  them twice. `task.ts:629` empties `executingTasks` under runs still going.
  A rejected `getTasks` in the interval (`task.ts:188`) is caught by nobody, and
  `tasksDirty` stays cleared (`FetchFails` of TaskService).
* `task-scheduler.ts:44`: a rejected `getTasks` loses the marks the tick had
  taken. `task.ts:623` deletes the registry's entry by agent id, so stopping an
  old instance unregisters its successor. `stopTaskScheduler` leaves registered
  services without any timer.
* `index.ts:216` of the batch queue: `dispose` does not wait for a drain under
  way, so up to `maxParallel + 1` calls of `process` overlap; a throwing
  `onDrainBatchOutcomes` there (line 217, unguarded, unlike line 140) keeps the
  row and the queue. `start` during `dispose` may create a row that nobody
  deletes (a later process reuses it), and a `start` that failed cannot be
  retried (line 166).
* `choice.ts:240` deletes an aborted task without telling the approval service:
  the promise waits on until the timer answers it, and for ever without one. If
  a selection has passed its check by then, `approval.ts:428` clears the timer,
  finds no task and returns: the request is never answered, in spite of its
  `timeoutMs`. A selection or a cancellation before `approval.ts:257`, where the
  entry of a request follows its row, deletes the row with the same effect.
  TimedIsAnswered excepts both as `dropped`.
* Two selections, or a selection and the time-out, may both call their callbacks
  although only the first result is reported (`approval.ts:384`, `:459`). After a restart the rows are offered, but without a worker a
  choice reports success and does nothing (`choice.ts:266`). `stop` leaves rows.
* `pairing.ts:166` reads the pending requests and writes after further awaits:
  two messages of one sender, or of two senders, at once make two requests for
  one sender, go beyond `maxPendingRequests` and may share a code. An approval
  deletes the request before it adds the sender (line 257): if the second call
  fails the code is gone and nobody was let in.

## 8. Not modelled, and the plan

Partly modelled: identity, allow-list, estimates and the call log around
billed requests; the pre-authorisation and withdraw-preparation routes of the
top-up; the drain interval of the batch queue.

Not modelled: pre-authorised slots (nothing in the repository spends them);
sign-in (the one concurrent step is a single conditional DELETE, which a model
would only restate); the rate limiter (synchronous, floating-point time, shares
no state with what is modelled) and the price cache (one value replaced as a
whole); pairing (see section 7: what its comments promise holds for sequential
calls only); hooks (handlers called in turn); pricing tables, usage log, configuration, client mode and contract
bindings (pure computation or I/O that no modelled state depends on); messages,
models and memory, the agent server, trading and messaging plug-ins, user
interfaces, command-line tools and templates (driven by model output or external
services, without a bounded state of their own). By lines these last are nearly
all of the repository, most of it user interface, assets, generated and vendored
code; the modules cover parts that keep shared state across awaits.

The order of the modules followed the money: the ledger and its promise, then
what moves credits out of it (worker), into it (top-up) and through it
(requests); then the scheduler that everything periodic in the runtime uses,
the daemon in front of it, the queue behind it, and the approvals that share its
store. Left, in this order:

1. *Composition*: requests over the collector (BilledRequest with ConsumeWorker)
   under one abstract specification of the whole product: deposited = spendable
   + held + accrued + collected + withdrawn, up to the named disagreements.
2. *Proofs*: the single flusher with crashes, under the assumption that no
   charge arrives between a crash and the next cycle; the safety half of
   EventuallyCollected (an accrual is a candidate, in a list, in flight, or its
   batch is in `dead_letter`) and of Heals.
3. *Strategy runner* of the trading plug-in: its timer over external calls.
