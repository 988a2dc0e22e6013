# Verification of the smart-city IDS

TLA+ models of the core of this repository, the TLC runs that check them, and
machine-checked proofs of what matters most. Paths below are relative to the
repository; `ids-api` stands for `src/services/ids-api/src`.

## 1. Inventory: the system and what makes it correct

| component | state it keeps | operations | hard parts | correct when |
|---|---|---|---|---|
| **Governance controller** (`ids-api/governance.py`) | mode, force profile, pending queue, history, six counters, one lock | request, approve, reject, sweep, set mode, set force | two approval paths, expiry, queue limit, restart, a lock taken twice, a mode that changes after the decision | a verdict is final; nothing undecided acts; manual mode clears nothing more; counters, queue and history agree |
| **Governance routes, chat, pipeline callers** (`api/governance.py`, `api/analyst.py`, `api/alerts.py`) | coroutines suspended on a cluster call; the action table | approve/reject route, chat submit and decide, `_try_action` and persistence | calls that outlive their timeout, errors that drop records | a row never claims an effect that did not happen; decisions are recorded |
| **Kubernetes automation** (`k8s_automation.py`) | none (the cluster's) | isolate, scale, cordon, block, create ThreatResponse | thread keeps running after `wait_for`; 409 is success | an effect belongs to an authorised action |
| **ThreatResponse operator** (`ids-operator/app`) | the resource's status | one kopf handler of three requests, and kopf's two PATCHes | retries, crashes, deleted pods, shared selector, shared policy name, a report without its mark | Executed means isolated; nobody else is; a report is revised only after a cut |
| **Alert pipeline** (`api/alerts.py`, `api/_state.py`) | metrics, in-memory list, fatigue counters | two POST routes, the nine stages | awaits between check and act, an error path that stores again | an answer says what was stored; slots are released |
| **Throttle, caches, request queue** (`alert_rate_limiter.py`, `alert_deduplicator.py`, `infrastructure/middleware.py`) | windows, backoffs, two caches of analyses, in-flight count, tokens | should_process, should_analyze/cache_analysis, AlertCache get/set, acquire, enqueue/dequeue, resets | expiry, races of identical alerts, limits, two keys and two lifetimes | rates hold; a reuse is bounded; the LLM is not paid twice |
| **LLM providers** (`llm_providers/manager.py`, `api/_state.py`, `api/llm.py`) | cooldown_until, auth_failed, statistics, chain, a bounded retry queue | analyze, retries, startup probes, races, reset, enable, reorder | probes race live calls; the chain is walked across awaits; cancellation | a disabled provider is not enabled by a request; attempts add up; an alert is given up only after the whole chain |
| **Circuit breaker** (`infrastructure/middleware.py`) | per-engine state and counts | record_success/failure, reset | it is told and never asked | nothing to be correct about: no code asks it (section 5) |
| **Storage** (`database.py`) | pool, memory buffers, mode flag | add_*, reconnect monitor, flush | autocommit, partial flush, id reuse, a second thread | nothing lost, stored twice, or linked to another alert |
| **IoT registry** (`api/iot.py`, `database.py`) | the registry listed, the table and the buffer, each with a count | sensor, register, heartbeat routes; flush; reload | three copies, outages between two calls, a foreign key | counts justified; events kept; a listed device is stored |
| **Live stream** (`api/_state.py`, `api/alerts.py`) | client list, a queue per client | connect, broadcast, drop, disconnect | full queues, generators that never start | what a client is sent has no gap |
| **Forwarder** (`src/services/forwarders/suricata`) | socket, counters | receive, convert, post once | gives up while the API works on | the counters are true |
| **Credits, tools, operator view, auth, health, dashboard, city services** | mostly views, I/O or external | - | tool approval gate | see PROJECT.json, `components` |

Components interact so: a forwarder POSTs an alert; the pipeline throttles,
deduplicates, has an LLM analyse it and asks governance for each recommended
action; governance executes or queues it; operators decide through the
governance routes or the analyst chat; `K8sAutomation` acts on the cluster and
creates a ThreatResponse, to which the kopf operator reacts; storage keeps
alerts, analyses, actions and audit logs; the dashboard polls and listens.

The list of everything hard to test, each at its line and with the properties
that cover it, is in `PROJECT.json`, `hazards`.

## 2. Modules

| module | what it is |
|---|---|
| `ActionLifecycle` | abstract: an action's verdict and its effect, nothing else |
| `Governance` | the controller, its callers, the cluster call, time, restarts; refines `ActionLifecycle` |
| `MCGovernance` | its instances for TLC |
| `GovernanceProofs` | its proofs: the queue, what no step may do, the refinement, the action table |
| `ThreatResponse` | ids-api, the operator and the cluster objects they share |
| `MCThreatResponse`, `ThreatResponseProofs` | its instances and proofs |
| `Storage` | the fallback buffers, the tables, and the two threads that reconnect and flush |
| `MCStorage`, `StorageProofs` | its instances and proofs |
| `IotRegistry`, `MCIotRegistry`, `IotRegistryProofs` | the routes, the three copies of a device, the flush; its instances and proofs |
| `LlmProviders`, `MCLlmProviders`, `LlmProvidersProofs` | the provider chain, its callers, probes and operator, and the breaker |
| `AlertThrottle`, `AlertThrottleProofs` | the rate limiter alone |
| `AlertPipeline`, `MCAlertPipeline`, `AlertPipelineProofs` | the pipeline: it EXTENDS the limiter and adds the caches, the LLM and what is stored |
| `LiveStream` | the broadcast alone, with a specification of its own |
| `Delivery`, `MCDelivery`, `DeliveryProofs` | forwarder, ingest routes and request queue; it EXTENDS `LiveStream` |

Definitions commented `Fault:` are not part of any specification. Each is a
plausible mistake in the definition that follows it and shows that a property
is able to fail.

### Governance

`ids-api` is one process with one event loop (`k8s-manifests/ids-api.yaml` asks
for one replica) and every caller of the controller is a coroutine, so a handler
is atomic up to its next `await`. Three things interleave: the awaited cluster
call, the coroutine that waits for it (`RouteSucceeds`, `RouteFails`,
`PipelineSucceeds`, `PipelineRaises`, `PipelinePersists`, `ReportEnds`) and
everything else. A call is asked for by the step that decides, is sent later
(`CallBegins`) and ends later still (`CallEnds`): `wait_for` starts its coroutine in
the loop's next round, `to_thread` waits for a free thread, and `scale_up` awaits
the answer to a read (`k8s_automation.py:184`) before it sends its patch (`:192`).
A caller that gives up cancels what has not been sent; what has been sent runs on
(`GivenUp`). After its record is stored the pipeline sends an executed action's
ThreatResponse, on which the operator acts (`ReportBegins`, `api/alerts.py:871`).
So the mode may change between a decision and each of its requests.

| state | code |
|---|---|
| `mode`, `force` | `_mode`, `_autonomous_force_execution` |
| `pending`, `age`, `status` | `_pending_actions`, `created_at`/`expires_at` against the clock, `PendingAction.status` |
| `history`, `metrics` | `_action_history`, `_metrics` |
| `frozen` | the event loop blocked on `_state_lock` |
| `req`, `via` | the action's type, target and caller; the route that decided it |
| `call` | the Kubernetes request: asked for, sent, landed or failed |
| `route`, `pipe` | the approve route or the pipeline suspended on it, the pipeline's record, and the pipeline reporting it |
| `reported` | the actions whose ThreatResponse has been sent |
| `rows` | the action's rows in `automation_actions` |
| `orphaned` | history: approvals whose handler died with the process |

`request_action` appears once per caller and outcome: `PipelineAuto`,
`PipelineQueue`, `ChatAuto`, `ChatQueue`, `RequestWhenFull`. The chat's callback
runs inside the request and blocks the loop for up to 20 seconds, so its outcome
is part of the step, and "still running" is one of the outcomes.
`RequestWhenFull` is the code as it is: the sweep is called with the lock held,
the lock is a plain `threading.Lock`, and the loop never runs again.

Abstractions: ids are fresh model values; severities, confidences and ages are
small numbers; the wording of reasons, audit entries and Prometheus metrics are
left out; the history's limit of 1000 entries is not reached; the cluster client
exists and is not in its dry-run mode; storage accepts every row (its failures
are the storage component's subject); the records of one alert are persisted one
by one, and `PipelineRaises` may drop any that is not yet persisted. `scale_up`'s
read fails like its patch; a read that is never answered is one that is given up.

### ThreatResponse

Each Kubernetes request is a step. `policy[t]` is the selector of the
NetworkPolicy `isolate-<t>`: ids-api creates it with `pod-name=<t>`, the operator
with the label `ids.smartcity.local/isolate=true`, and the second creation is
answered 409 and treated as success by both. `Isolated(p)` is what the cluster
makes of labels and policies. `phase` is the status, `pc`/`result` the handler's
position and the phase it will patch when it returns; a crash forgets both, and
kopf starts the handler again unless the resource is `marked`. The CRD makes the
status a subresource (`threatresponse-crd.yaml:35-36`), so kopf reports with two
PATCHes: one of the resource, with the annotation that marks it as handled
(`MarkHandled`), and one of the status (`PatchStatus`). The kopf that
`requirements.txt` asks for sends the first before the second; nothing in this
repository depends on that, and the model allows either order. A death between
them, or a PATCH that fails until kopf gives it up (`PatchGivenUp`), leaves a mark
without a report or a report without a mark; `lapses` counts both. The operator
passes no timeout (`threatresponse_operator.py:93`, `107`, `137`): a request of its
handler may never be answered, and then the handler stays where it is. Pods' names
are not reused. Clients of the cluster (kubectl, pod deletion) are external actions.

### Storage

Two threads run `database.py`: the event loop, which stores an alert and then
the analysis that carries the id `add_alert` returned, and the reconnect monitor.
`pc[t]` is where a thread is in the calls it is making, `snap[t]` the locals of
its `_flush_memory_buffers` (the copied buffers, the row ids given so far, how
many analyses were sent). `alertRows` is indexed by row id, so that the two
numberings, place in the buffer and row id, can be confused as in the code. A
step is one database call or one critical section of `_memory_lock`; the lock is
held over two of them (`BeginFlush`, `ClearBuffers`), between which the except
branch of `add_alert` (`FallBack`), which does not take it, may append. `Insert`
stands for both add_ methods, `kind` telling which one runs.

Every database call may fail; a failed INSERT may have been committed; a
connection is taken per block (`HasCursor`), so `use_memory` is looked at before
a block's first statement only. `unlocked` is a history variable.

Left out: the other eight record kinds (the same two paths; actions are a second
copy of the analyses), the nested reconnect of `_get_conn` on a pool another
thread has just closed, the third thread that refreshes an IoT gauge and can only
ping, queries and updates. A failing INSERT does not consume a row id.

### LlmProviders

A coroutine's step reaches from one `await` to the next; `state_lock` is never
held across one. `Walk` is the loop over the chain: it skips what is disabled
when its turn comes, and ends in a request (`Send`) or at the chain's end, where
an alert sleeps for another attempt (`RetryLater`) or is given up (`GiveUp`).

| state | code |
|---|---|
| `order`, `forced` | `self.providers`, `llm_forced_provider` |
| `authFailed`, `cooldown` | `provider_auth_failed`, what is left of `provider_cooldown_until` |
| `unsettled` | `runtime_stats`: attempts minus successes minus failures |
| `breaker` | `circuit_breaker.engine_stats`, failures up to the threshold |
| `probing` | the startup probes that are under way |
| `call[c]` | a coroutine's locals: preference, attempt, the chain's rest, what has failed |
| `retryQueue` | `llm_retry_queue`, a deque of `RetryLimit` entries (10000, `_state.py:186`) that drops the oldest |

Four kinds of call are told apart: an alert's, a provider test with and without
fallback, and a race under `wait_for`, which alone may be cancelled. Left out:
latencies, wording, the persistence of the order, the status pages; any provider
may be the one that routing prefers. Times are small numbers. A restart, which
empties the retry queue and every latch, is not modelled.

### AlertThrottle and AlertPipeline

A window holds the accepted alerts in place of their timestamps (`stamp`).
Whatever the decision, the three windows of an alert are cleaned. A check reads the
clock when it begins (`alert_rate_limiter.py:180`), for the timestamp it will record
if the alert is accepted, and again when it cleans (`:145`). `now` is the second
reading and `Began` what the first may have been, at most `Slack` earlier. The
readings after the first (one per window, one for the backoff) are taken as one: each
window's bound depends on its own reading only. The pipeline calls the limiter as the first thing a request
does (`Suppress`, `Arrive`); `Arrive` goes on, in the same step, to the
deduplicator (`dedup`, by rule, container, command line and exe) and to the alert
cache inside `analyze_with_fallback` (`alertCache`, the same key without exe),
and stops at the first await. A request that was answered by the LLM resumes in
`LlmAnswers`. An analysis is its severity and when it was made: a severity that
is a text raises in `cache_analysis`, one with a fraction when the answer is built,
which is all the pipeline tells apart. `stored` counts the rows of an alert.
Stages 5 to 9 are one step, `Respond` or `Raise`: what governance does in between
is `Governance`'s subject, and rows of a refused database are `Storage`'s.

### LiveStream and Delivery

`LiveStream` is the list of clients, a bounded queue each and the generators'
life: `Connect` registers the queue before the generator has begun, so a client
that leaves in between (`Abandon`) leaves its queue behind. `log`, `sent` and
`joined` are history. `Delivery` adds an alert's way there: the forwarder's one
loop (`Datagram` to `GiveUp`) and the ingest routes' token bucket and request
queue (`Post` to `Unheard`). A request goes on when the forwarder has given it up.
What the pipeline does with an alert is one of three answers, or none (`raised`,
HTTP 500, when the error path at `api/alerts.py:1079-1097` fails as well); the
answer, the broadcast and the `finally` that frees the slot have no await between
them.

### IotRegistry

`table`, `memDevices` and `registry` are the three counts of a device, `eventRows`
and `memEvents` its events; `flush` holds the locals of `_flush_memory_buffers`.
A route is a sequence of calls (`at`), none awaited, between which only the thread
that reconnected can run. An insert may fail, and a failed one may have been
committed. A message's event is its number. `LongIds` are ids that the register
and heartbeat routes accept and the column does not; a device type of more than 50
characters is refused by its column in the same way and would be another. Left
out: an event type of more than 50 characters, which is refused on every attempt
where the model's refusals are faults; routes that only read, the retention of old
events, and the alert that a security event raises.

## 3. Runs

| run | instance | shows |
|---|---|---|
| `governance_safety` | 2 actions, queue of 2, three kinds (a plain call, `scale_up` with its two requests, one without a backend), an unprotected and a protected target, all modes, no crash, expiry after one tick | `QueueInv`, `RowsTruthful`, `VerdictsFinal`, `ManualStopsDecisions`, `ProtectedNeedsOperator`, `ImplementsLifecycle` |
| `governance_liveness` | 2 actions, queue of 1 so that it fills and freezes, one crash, fairness | `Accounting`, `RouteDecisionsRecorded`, `NothingWaitsWhilePolled`, `ApprovalsAnswered` |
| `governance_freeze` | as above | violates `FullQueueAnswered`: the full queue freezes the loop |
| `governance_counters` | one crash | violates `CountersSurviveRestarts`: a chat approval is not persisted |
| `threat_safety` | 2 responses, 2 pods, a target that is no pod, severities on both sides of the threshold, one lapse (a death, or a PATCH given up), fairness | `TypeOK`, `ExecutedUnlessNameTaken`, `OnlyTargetsIsolated`, `IsolationSticks`, `ReportsFinal`, `ResponsesAnswered` |
| `threat_conflict` | no `pod-name` label, as in the manifests | violates `ExecutedMeansIsolated` |
| `storage_flush` | 2 alerts with an analysis each, a table with one old row, 2 failing calls, started in either mode | `OneFlusher`, `LostOnlyUnlocked`, `AlertsExactlyOnce`, `SameRoundLinks`, `Recovers`, `FlushEnds` |
| `storage_links` | 1 alert, no failing call | violates `ChildrenLinked`: an analysis under another alert's row |
| `llm_failover` | 2 providers, one of them probed, 2 calls of any kind, 2 attempts, a threshold of 2, a retry queue of one entry, one intervention, fairness | `TypeOK`, `AttemptsAccounted`, `GivenUpHonestly`, `LiveStepsNeverEnable`, `CallsEnd` |
| `alert_pipeline` | 4 alerts (two equal, one that differs in exe and source only, one of another rule), a window of 2 and a clock that may move by 1 within a check, limits of 1 and 2, caches of one entry, lifetimes of 1 and 2, one reset | `TypeOK`, `WindowBound`, `StoredAsAnswered`, `ReuseBounded`, `NoRepeatedSpend` |
| `delivery` | 2 clients with a queue of 1, 2 alerts through the forwarder and 2 posted otherwise, 2 tokens, one slot, a socket for one datagram | `CountersTruthful`, `StreamContiguous` |
| `iot_registry` | a device and one whose id is too long, 3 messages, 2 faults (a failing call, an outage or a restart), started in either mode | `CountsJustified`, `EventsKept`, `DevicesKnown` |

Why the bounds are enough: two actions let one be decided, executed or recorded
while the other is in any other state, and the sweep settle one, two or none;
a queue of one or two is full after as many requests; ages matter only against
the expiry; a second crash repeats the first, since what survives a crash is
unconstrained by it. Two responses are needed for the shared selector (one
response's policy makes another's label effective), a second pod to be isolated
by mistake; a second lapse would only repeat the handler again. Two alerts make a batch that can fail half way and two buffers' worth
of ids that can repeat, and two failures one that starts an outage and one that
strikes the flush; 3 alerts (418,447 states) show nothing else. Two calls let one
walk while the other latches, cools down or is cancelled, and two providers make
a chain that may be reordered under it. Four alerts are a pair of duplicates, one
that shares only one of the two keys, and one to push the others out of a full
cache or window. One queued event fills a client's queue, one slot the request
queue, one datagram the socket. Three IoT messages register a device, add to it
while its record is in the buffer and once more after a restore; two faults are
an outage and a failure during its flush. In `alert_pipeline` the global limit is
never the one that refuses first; the theorem covers it. The safety theorems below do not depend
on any of these bounds.

Fairness. Time passes (`Tick`); `asyncio.wait_for`
bounds every await (`k8s_automation.py:57`), hence the route resumes; the
livenessProbe restarts a frozen pod (`k8s-manifests/ids-api.yaml:82-89`). Nothing
sweeps the queue in the background: `_cleanup_expired` runs when a client asks for
the queue or the status, as the dashboard does every 15 seconds while one is open
(`static/js/app.js`). The sweep is therefore no part of the fairness;
`NothingWaitsWhilePolled` states it as a condition, and with no client an action
waits for ever. kopf calls the handler of an unmarked resource, at the latest when
it lists the resources anew, and makes its PATCHes; that a request of the handler
is answered is not assumed, and `ResponsesAnswered` holds of the responses whose
handler does not hang. The two storage threads are threads of a
running process, the monitor's loop never ends (`database.py:163-175`) and every
connection attempt is bounded by `connect_timeout` (`database.py:122`). A call to a provider ends,
because the HTTP clients have timeouts (`llm_providers/base.py:34`,
`providers.py:59`), and a coroutine whose sleep is over is run
(`WF(Wake \/ Answers)`); that nothing else need happen, no clock, operator or
probe, is the point of `CallsEnd`. No fairness is assumed of operators,
forwarders, the cluster's answers, or the pipeline; `alert_pipeline`, `delivery`
and `iot_registry` check safety only and may stop.

## 4. Proofs

All theorems hold for every value of the constants that satisfies the named
assumptions (finitely many action ids, numbers that are numbers, protected
targets among the targets, pods distinct from other names). Every safety
invariant and every action property that a passing run checks is stated by a
theorem. Each inductive invariant below was checked by TLC on the run's instance
before it was proved.

*Governance.* `TypeOK` is inductive by itself (`TypeCorrect`). `Accounting` and
`EffectsAuthorised`, the last two parts of `QueueInv`, are not: a decision moves an action from the queue to the
history and adds to one counter, which keeps the sums only if the action was in
the queue and not in the history. `QueueInv` adds the link: an action is queued
exactly when its status is pending, and what is in the history has a verdict.
`QueueConsistent` proves it with one lemma per operation: `Settle` is shown once,
for any set of pending actions, and serves approval, rejection and the sweep;
cardinalities come from the finite-set library. `AccountingHolds` and
`OnlyAuthorisedEffects` follow. On top of it come what a step may not do
(`FinalVerdicts`, `ManualStopsAutomation`, `ProtectedNeedsApproval`) and that every
step is a step of `ActionLifecycle` or a stutter (`Refinement`).
`ManualStopsAutomation` needs to know whose requests may still be on their way:
`Suspended` says that an action whose request has been asked for was approved, or
was cleared by the pipeline, which still waits for it; a request nobody waits for
any more has been cancelled or sent.

`RowsTruthful` relates a row written long ago to a call and a verdict that go on
changing. `TableInv` is the strengthening: each row is true by itself (`RowsTrue`),
an action has one decision row (`OneDecision`), and what a suspended coroutine is
still going to write will be true (`Owed`: the pipeline's "executed" means the
request has landed; an approve route that is still waiting has an approved action
without a decision row). Rows stay true because verdicts and ended requests are
final (`StepStable`, the lemma behind `FinalVerdicts`), so only the steps that write
have to be looked at one by one: `TableTellsTruth`. That the operator hears only of
actions whose executed row is stored is `ReportsBacked`. `RouteDecisionsRecorded` is
inductive as it stands, with the types and `QueueInv`: `RouteDecisionsKept`.

*ThreatResponse.* `HandlerInv` ties the handler's position to the cluster: past
the label step the pod, if it exists, is labelled; a resource reported Executed,
or about to be, has its policy's name taken and its pod labelled; every label
belongs to a response of sufficient severity. With it: `ExecutedOrNameTaken`,
`NobodyElseIsolated`, `IsolationLasts`. `MarkInv` ties the mark to the report: the handler of
a marked resource is idle or between the two PATCHes, and unless there was a lapse a
resource that is reported is either marked and at rest or about to be marked. With
it, `ReportsStand`: a report is revised only after a lapse, and a marked resource's
only by the handler that marked it. `NamedPodsIsolated` adds one
assumption, that every pod carries a `pod-name` label, and proves what the
documents promise: the missing label is the whole cause of finding 3.

*Storage.* `TypeCorrect`, with one lemma for each thing an action can append, and
`OneFlushAtATime`: `OneFlusher` is inductive because it ties the flag to the
threads' positions, not only the positions to each other.

`AcceptedNotLost` follows a record through buffer, snapshot and table. Between the
copy and the clear the record is in the buffer, so the invariant must say already
then that the snapshot has it, or that it was appended without the lock (`Copied`);
and a row that a flush counts as sent must be there, or the restore, which puts
back what was not sent, would drop it (`Sent`). With these two, `NothingLost` is
inductive. `OnceWithoutFailures` counts: `Copies` adds up buffer, snapshot and
table, and each step moves an alert from one to the next. This needs to know that
without a failure nobody switches back to memory and nothing is appended during
a flush (`Untroubled`). `LinksInOneRound` needs that an analysis carries the number
of every copy of its alert still in memory (`RefsAgree`), and that the ids which a
flush has been given are the rows of the alerts it wrote, position by position
(`RowsGiven`).

*IoT registry.* `Batch` says what the flush holds at each of its points: all that
the buffers held until they are cleared, and what it no longer has to write is in
the tables. `EventsNotLost` follows the event of an answered request as
`AcceptedNotLost` follows an alert. `EveryRecordHasItsDevice` adds the route's order,
`Listed`: a device is listed before its event is added. `CountsAreJustified` needs a
sharper bound than it states: while a message is being registered it does not
count yet, so every copy of the count, the batch's included, is below the messages
without that one (`AllBelow`). The second half of `EventsKept`, that without
failures nothing is stored twice, is a statement about all places at once: an event
is in the buffer, in the batch, in the route's hand or stored, and in one of them
only (`InOnePlace`), and without failures no insert is refused for want of its
device (`Reachable`): `StoredAtMostOnce`, then `EventsAreKept`.

*Rate limiter and pipeline.* `WindowBound` looks back over what was accepted, the
code's windows only at what is live: `WindowsTrack` ties the two together (a
window holds all that was accepted and is still live, and nothing that was not
accepted), so that what a decision counts is what the bound counts. The bound is of
`Window - Slack` seconds, since an alert that the second reading of the clock cleans
away may be within `Window` of the timestamp the first has given the new one
(`AcceptBound`).
`OneBackoff` needs `BackoffOutlasts`: while a rule is in its first backoff, all its
accepted alerts have left the window when the backoff ends; this uses that the
first backoff is at least a window long. Both are `ThrottleInv` (`WindowsBounded`,
`BackoffNeverGrows`). The pipeline's steps are steps of `ThrottleSpec` or leave the
limiter alone (`PipelineIsThrottled`), so both hold of it too
(`PipelineRatesBounded`, `PipelineBackoffNeverGrows`). `AnswersTruthful` proves
`StoredAsAnswered`, inductive with the types it needs.

The caches need `PipelineInv`. An entry of the alert cache is as old as its
analysis, because only a fresh answer is put in and a hit does not renew it
(`CacheOK`); the deduplicator's entry was made while the alert cache would still
have handed the analysis out (`DedupOK`); and the last answer for a key is in the
alert cache unless it is too old or was evicted (`AnswersKept`). The sizes and
types follow (`CachesWithinSize`); so does `ReuseIsBounded`: an analysis from the
deduplicator is within both lifetimes, any other within the first, so the two
caches cannot keep refreshing each other. `SpendNotRepeated` uses that a key has one
place only: the stale entry that made a request ask the LLM is the last answer. The
lemmas `WithoutEntries`, `Shorter`, `Longer` and `Replaced` say what taking out, adding
and replacing an entry does to a cache; `FirstGone` and `FullEvicts` do so for the
eviction. The proof found one definition that could not be reasoned about: the
history variable `answered` was given by a CASE with overlapping guards, whose
value TLA+ leaves open when the evicted key is the one just answered; it is an IF
now.

*LLM providers.* `LlmInv` says what a coroutine under way knows (`Sound`): it waits
for a provider, an alert's failed providers, that one and the chain's rest are all
providers, and it sleeps only before another attempt. One lemma, `WalkSound`,
covers the walk for all three steps that begin one. From it: `LlmTypeCorrect`,
`AttemptsAlwaysAccounted`, `RequestsNeverEnable`. `AlertsGivenUpHonestly` needs that an
alert which is in the queue was given up and is in it once (`RetryInv`): when a full
queue drops its oldest, the others in it and the new one are as many as it holds.

*Live stream and delivery.* `StreamContiguous` is inductive with types and with a
client that has not come holding nothing; a broadcast extends a stretch of the
history or leaves it a stretch (`FollowsOn`), and sending moves an event from the
queue to what was sent (`HeadOver`): `StreamNeverGaps`. `DeliveryIsStream` shows
that the routes and the forwarder drive the stream as its specification allows,
hence `ClientsNeverGap`. `CountersAlwaysTruthful` needs that what waits in the
socket waits once and has not been touched by the API (`SocketUntouched`).

Only model-checked: what needs fairness (`NothingWaitsWhilePolled`,
`ApprovalsAnswered`, `ResponsesAnswered`, `Recovers`, `FlushEnds`, `CallsEnd`), because liveness
and ENABLED are outside the prover's reach. The runs that expect a violation
need no proof: TLC's counterexample is one. No module uses a recursive operator,
and no theorem needs induction over data.

## 5. Findings

1. A full queue stops the API (`governance.py:400`): self-deadlock where the
   comment promises to remove an expired action and the code after it to answer
   "Pending action queue full". Run `governance_freeze`.
2. "Counters survive pod restarts" (`api/governance.py:100`) is not so for
   approvals made in the chat, which write no row. Run `governance_counters`.
3. The operator reports Executed for a pod nobody isolated
   (`threatresponse_operator.py:140`): ids-api had taken the policy's name with a
   selector no pod matches. Run `threat_conflict`; `ExecutedOrNameTaken` proves it
   is the only way.
4. An analysis is stored under another alert's row (`database.py:939`): the alert
   was numbered in memory, the monitor reconnected, and the number was used as a
   row id. Run `storage_links`. When no such row exists the foreign key refuses
   it, the analysis goes to the buffer with that id, and stays there.

Two weaknesses have no run of their own, because the code claims nothing precise
that they refute. `LostOnlyUnlocked` names the one window in which a record is
dropped: the except branches append without the lock (`database.py:915-920`,
`954-959`). And a record that reaches a buffer while the database is connected
waits for the next reconnection (`database.py:163-175` only pings then).

More was met while modelling. It has no run of its own, because the definition
named with it already shows it, one step or a missing one, without a search:

- The circuit breaker never stops a request ("no further requests are sent"):
  `can_execute` has no caller. The recovery that `middleware.py:219-222` and
  `232-237` describe, from open to half-open once `recovery_timeout` has passed, does
  not happen either: `can_execute` is the only code that would do it, and an engine
  stays open until an unrelated success or a reset. It is charged for
  providers that were skipped, and twice for the last one that was tried
  (`Times`). A provider test that succeeds is never recorded: it raises a
  TypeError that is swallowed (`api/llm.py:995-1011`, `BreakerAfterTest`).
- `reset-cooldown` resets the breaker only: the manager has no `reset_cooldowns`
  (`api/llm.py:314`, `ResetBreakers`).
- A startup probe that ends late clears the latch of a provider whose key a live
  request has just found invalid, against `manager.py:101` (`ProbeAnswers`); a
  server error shortens a cooldown that a limit has set (`CoolDown`).
- The queue of alerts to retry is never retried (`GiveUp`), and drops its oldest entry
  without a word when it is full (`Pushed`).
- "Automatic exponential backoff for repeat offenders"
  (`alert_rate_limiter.py:13`) does not happen: however often a rule offends, its
  backoff stays at the first step, because the window has emptied when that ends and
  the next alert resets the counter. `BackoffNeverGrows` proves it (`OneBackoff`).
- "MANUAL: Human-only execution" (`governance.py:8`) is so for decisions, not for
  requests: an action cleared before the switch to manual may send its request, and
  its ThreatResponse, after it (`CallBegins`, `ReportBegins`).
  `ManualStopsDecisions` says exactly how far the switch reaches.
- Critical alerts are meant to be re-analysed after 20 s
  (`alert_deduplicator.py:32-33`), but the alert cache answers for 60 s; clearing
  the deduplicator does not reach it either (`metrics_routes.py:587-607`).
- A severity that is a text makes every duplicate fail until the alert cache's
  entry expires; one with a fraction stores the alert twice (`Respond`).
- A client dropped from the broadcast list keeps its connection and is sent
  keepalives only (`Broadcast`); the queue of a generator that never began stays
  until it is full (`Abandon`).
- The forwarder counts as forwarded what was throttled or ended in error, answered
  with 200, and as failed what was processed after it gave up (`Responded`).
- A device id of 65 to 128 characters passes the register and heartbeat routes
  (the sensor route limits it to 64) and not the column: the registration is
  refused and the device listed all the same, or, buffered in an outage, it makes
  every later flush of devices fail and of its events be inserted again
  (`RegistrationRefused`, `DevicesFail`, `EventsFail`). A restored batch overwrites
  counts buffered meanwhile (`RestoredDevices`).

## 6. Plan

1. Done: governance, ThreatResponse, storage; the LLM providers with the breaker;
   the rate limiter, the caches and the pipeline; the forwarder, ingest routes and
   live stream; the IoT registry.
2. Done: a theorem for every safety invariant and action property of the passing
   runs. Proofs left: that what `LostOnlyUnlocked` allows is the only loss, stated
   as a refinement of an abstract store that each record enters once, and the same
   store for the IoT registry.
3. Worth modelling next: the approval gate of the LLM tools (`llm_tools.py:645`), and
   the pipeline composed with `Storage` instead of a store that takes every row.

## 7. Not modelled, and why

- LLM engines, prompts and response parsing, credit checks, authentication, health
  and metrics, logs, demo routes, the dashboard and the deployment scripts keep no
  state the properties above are about, or are pure input and output. Together with
  the sample city services and the IoT simulator, which make up readings at random,
  they are most of the repository's lines, and why the models map a small share
  of it.
- `main_monolith_backup.py`, `ids-operator/src` and `infrastructure/sse_manager.py`
  are superseded code that nothing deploys or imports. `reset_stats`,
  `cleanup_expired`, `AlertBatcher` and `can_execute` have no caller; the Falco log
  monitor has no starter.
- Re-analysis of a stored alert (`api/alerts.py:1339-1449`) is one more call to the
  provider chain and writes a new analysis; the cost ceiling's check has no caller.
- The choice among routing modes, latencies and costs are numbers no property is
  about.
- Of the ten kinds of record that fall back to memory, alerts, analyses, devices
  and events are modelled; the others take the same paths.
