# A TLA+ model of pactrun

pactrun puts a *contract* around an LLM agent: clauses over the events of a
session (LLM calls, tool calls, outputs), a recovery action for each clause, a
wrapper that reserves budget before a request is sent, adapters that record what
SDKs and frameworks do, an adapter that keeps destructive MCP tools from being
called, observers and alert handlers, and an example workflow that refunds an
order at most once. This directory holds TLA+ modules for the parts whose
correctness depends on the order in which things happen, the TLC models that
check them, and TLAPS proofs about most of it.

Line numbers refer to files under `pactrun/` unless they say otherwise.

## 1. The system

### 1.1 Parts

| Part | State it keeps | Operations | Status |
|---|---|---|---|
| Guarded client, `wrap.py` | `_reservations`, the session's total; per stream `_usage`, `_recorded`, `_seen_tools` | `create`, `__next__`, `close`, `_finalize`, `_precall_cost_gate`, `_record_*` | modelled, proved |
| Recovery, `recovery/engine.py`, `approval.py` | none | `apply_recovery` | modelled |
| Contract builder and `enforce`, `contract.py` | `clauses`, `default_on_fail`, `max_retries`, `fallback_fn`, `mode` | builder calls, the retry and fallback loop | modelled but for summaries and replay |
| Session, `session.py` | context variable and token, `_active`, events, violations, clocks | `_start`, `record_event`, `_evaluate`, `_end`, `pause`, `resume`, restore | modelled but for summaries and leaving a session in another task |
| MCP adapter, `adapters/mcp.py` | the copy of the listing, `_listed`, `_list_error`, `_expires_at` | `call_tool`, `_refresh_tools`, `_list_all_tools`, `invalidate_tools`, `initialize` | modelled |
| Refund workflow, `scenarios/refunds.py`, `approval_store.py` | orders, provider's refunds, actions table, used approvals | `approve`, `execute`, `reconcile`, `refund`, `lookup`, `consume_many` | modelled |
| Consent, `predicates/consent.py`, `_signing.py` | nonces seen | `consent_token_required`, `multi_party_approval_required` | the single-token path |
| Look-back predicates, `ratelimit`, `wallet`, `behavioral`, `exfil`, `flow` | the events; the gate's phase | `check` of each | modelled but for text normalisation and custom callables |
| Per-event predicates, `tools`, `tool_args`, `timing`, `cost` | none | `check` of each | those that read the session; the others have free verdicts |
| Audit log and trace, `observability/audit.py`, `trace.py` | hash chain, file | `on_event`, `verify_audit_log`, `load_trace` | modelled |
| OpenTelemetry observer, `observability/otel.py` | `_runs`, `_open` | `on_event`, `on_violation`, `on_event_end`, `on_session_end` | modelled but for attributes and metrics |
| Digest and webhook, `recovery/digest.py`, `webhook.py` | buffer, window, throttle table | `__call__`, `flush`, the POST | modelled |
| SDK patches, `adapters/openai.py`, `anthropic.py`, `gemini.py`, `litellm.py` | the patched class attribute, saved original | `__enter__`, `__exit__`, the patched call | modelled |
| Framework adapters, `adapters/langchain.py`, `pydantic_ai.py` | run ids | callbacks | Pydantic AI modelled; of LangChain how it reads usage |
| Costs, usage, pricing, `cost_model.py`, `core/usage.py`, `core/pricing.py` | price table, ceilings | `find`, `cost`, `register_price`, `precall_worstcase` | modelled over small tables |
| Content predicates, `output`, `exfil`, `content_security`, `compliance`, `supply_chain`, ... | none; the tool definitions seen | text and URL matching | two that look back are modelled |
| Drift monitor | float statistics | | not modelled |
| Replay, evalcraft bridge | none of their own | | a monitor-mode session on the event clock |
| Loader, CLI, pytest plugin | none | parsing and printing | not modelled |

### 1.2 How they interact

- `wrap()` builds a contract (`cost_under`, the reported-usage clause, one
  `must_not_call` for each forbidden tool), opens a session, and calls
  `Session.record_event` under the wrapper's lock. `record_event` evaluates the
  clauses, `_evaluate` calls `apply_recovery`, and that may raise back through
  `record_event` to the wrapper, which then withholds the response.
- `Contract.enforce` opens a session for every run of the function; the
  function's events reach it through the context variable that `_start` sets and
  `_end` resets. `RetrySignal` and `FallbackSignal` travel from a clause through
  the function's own code to the wrapper's `except` clauses.
- The MCP adapter emits a tool call to a session before it asks the server, and
  holds a copy of the server's listing that the server may outdate at any time.
- `execute()` in the refund workflow is a contract of three clauses, a row
  reserved in one SQLite file, a provider transaction in another and a consumed
  approval in a third; `reconcile()` may run in another process meanwhile.
- An SDK adapter replaces a method of the SDK for the whole process and records
  into whatever session is active where the call is made; what the call cost is
  computed from the usage the SDK reports and a price table that any thread may
  extend. `wrap()` reserves an estimate from the same table.
- Observers are told of an event before it is judged, of its violations while it
  is, and of its end; one OpenTelemetry observer may serve many sessions. An
  `escalate` clause calls a handler, which may be a digest in front of a webhook
  and shared by many runs.

### 1.3 What is hard about it

Calls of one client interleave inside one stream (`__next__` in one thread and
`close` in another). Two runs share a digest, an observer or a patched SDK, none of
which takes a lock. Exceptions are the control flow, and the code of the
application stands between the place that raises and the place that catches. A
copy of somebody else's state is judged across an `await`. Two databases and a
remote service are updated by steps between which a process may die. Time may
be paused, set back, or taken from events. Providers disagree about what a token
count includes. `PROJECT.json` lists these hazards,
each at its line, with the property that covers it.

### 1.4 What makes each part correct

- *Guarded client*: every admitted call is settled exactly once; unknown usage
  costs the estimate; recorded plus reserved cost stays within the budget except
  for bills above their own estimate; a forbidden proposal that was read is not
  delivered before the session has raised over it; no reservation outlives its
  call or stream.
- *Contract and session*: what the caller gets is explained by what was
  recorded; signals stay inside; retries are bounded and all used; monitor mode
  watches and does nothing else; the context variable is put back unless a clause
  raises at the start or the end.
- *MCP adapter*: nothing is sent that was not at some time offered as permitted;
  a failed listing blocks; an invalidation is followed by a listing, unless one
  was under way; no call waits for ever.
- *Refund workflow*: one provider call for an action id; every effect has a
  spent grant for exactly that effect; recorded outcomes are true.
- *Clock*: running time is always judged. Paused time is not, nor is the time
  between two processes, if a restored session is told what the one before it had
  used; without that it measures the trace, which counts both.
- *Audit log, trace and restore*: a ledger verifies exactly if nobody wrote into
  it out of turn; budgets carry over to the next process; nothing is written
  twice; every recorded event is judged unless something failed.
- *Look-back predicates*: each reports the first event with which the run as a
  whole breaks its rule; calls that were let run never do together what it
  forbids, whatever failed, was refused or died.
- *Digest and webhook*: every violation is in hand, buffered, reported or counted
  as omitted; a run that ends leaves none of its own behind; the throttle drops
  only what follows a delivery.
- *SDK patches*: the method of the SDK is what the open blocks make of it, and a
  call is recorded once for each block that was open when it began.
- *Costs*: a report of any provider costs what its tokens cost; an unknown model
  is not cheaper than a known one; the estimate covers the bill; a count that is
  no amount never becomes a cost.
- *OpenTelemetry*: violations and counts belong to the run they came from, and a
  run has one span, ended once.

## 2. Modules

| Module | Models | Extends or instantiates |
|---|---|---|
| `Recovery` | `apply_recovery`: may a recovery raise, must it | |
| `Sums` | `sum(d.values())`, as a cardinality | |
| `BudgetLedger` | abstract: claims, settlements and a limit | |
| `GuardedClient` | `wrap.py` | `Sums`, `Recovery`; `BudgetLedger` by refinement |
| `Contract` | the builder | `Recovery` |
| `Session` | start, record, end | `Contract` |
| `Enforce` | the wrapper around a decorated function | `Session` |
| `SessionClock` | `elapsed_ms` on both clocks | |
| `MCPGuard` | the MCP adapter and its server | |
| `ObservedRun` | observers, audit log, trace, restore, sanitising | |
| `EventRules` | look-back predicates, as operators on event sequences | |
| `AgentRun` | a Pydantic AI agent judged by one of them | `EventRules` |
| `Alerts` | digest and webhook, shared by several runs | |
| `Pricing` | usage, price lookup, estimate, cost, registration | |
| `Adapters` | the adapters that patch an SDK | |
| `Telemetry` | the OpenTelemetry observer of several sessions | |
| `RefundLedger` | abstract: authorized, refunded, remaining | |
| `RefundWorkflow` | `execute`, `reconcile`, the provider, the approval store | `RefundLedger` by refinement |
| `GuardedClient_proofs` | theorems about the client, the ledger and prices | `GuardedClient`, `Pricing`, `TLAPS` |
| `AgentRun_proofs`, `RefundWorkflow_proofs`, `ObservedRun_proofs`, `Alerts_proofs`, `Telemetry_proofs` | theorems about the module they are named after | that module, `TLAPS` |
| `Enforce_proofs` | theorems about enforced calls and the session's clock | `Enforce`, `SessionClock`, `TLAPS` |
| `Adapters_proofs` | theorems about the SDK patches and the MCP adapter | `Adapters`, `MCPGuard`, `TLAPS` |
| `MC_*` | bounds and symmetry for TLC | the module they are named after |

Operators whose comment says *mutant* are broken variants of the definition that
follows them. They are not part of any specification; `PROJECT.json` names the
property that notices when such a variant takes the definition's place.

### 2.1 `GuardedClient`

Each member of `Calls` is one `create()`. `pc` says how far it got; a stage
change is a piece of code that runs under the budget lock, or a return from the
provider. `Admit` and `Refuse` are `_precall_cost_gate`; `FailCall` is the
`except BaseException` around the request; `Respond` is a plain response, its
usage event first and its tool proposals after it; `Fetch` is
`next(self._stream)`, which runs without the lock, and `OnTextOrMeter`, `OnTool`
and `OnFinal` are `_on_chunk`; `Close` is every way into
`_finalize(usage_seen=False)`. Because `Fetch` is a step of its own, a `Close`
by another thread may come between a chunk's arrival and its handling. Nothing in
`__next__` asks whether the stream was closed, so `Fetch` may also follow a
`Close`, be it the consumer that tries again after an exception: the upstream
stream then gives what it still has. A plain response is delivered whole, but
`Respond` judges only what the recorder reads: the first choice of an OpenAI
response, and no part behind one of unexpected shape; `unread` is the rest. Money
is counted in integer units. `charges`, `delivered`, `blocked`, `unread` and
`overrun` are history variables: the code does not keep them, and no guard reads
them.

Assumed, because the code relies on it: one reader at a time for each stream,
and a lookup of prices that does not raise. If it raises after the reservation
was popped (section 2.9 says when it may), that call's cost is lost.

What an event may raise is computed from the contract that `wrap()` builds:
`cost_under` and invalid usage follow `on_violation`, a forbidden tool always
blocks, and an approver may answer either way.

### 2.2 `Contract`, `Session`, `Enforce`

`Contract` gives each builder call its effect: which default a clause takes and
when (`Forbid` blocks whatever the default is; `OnViolation` does not touch the
clauses that are there). `Session` has the three places where clauses are
evaluated. A predicate's verdict is free, so one step chooses the failing
clauses and which of their recoveries raise (`Verdicts`), and `Reached` says
which of them are recorded before the first one raises. `Enforce` runs the
function: it may record events, swallow what is raised, return or raise an error
of its own. `thrown` remembers how the body ended, so that what `_end` makes of
it can be judged.

### 2.3 `MCPGuard`

Tasks of one event loop share an adapter. A task gives way only where it awaits
the server, so a step goes from one `await` to the next: `CallListing` sends the
first request, `AnswerListing` is the server's, `NextPage`, `Install` and `Fail` are
what the task does with it, each judging the call in the same step as the code
does. The server may change a tool at any time; its announcement arrives later
and the application then calls `invalidate_tools`. `safe` and `due` are history.

### 2.4 `RefundWorkflow`

Each SQLite transaction is one step, the provider's answer may be lost after its
commit, and a process may die between any two steps. A worker is one
`execute()`, a reconciler calls `reconcile()` again and again. `Faulty` lets
lookups answer with nothing or a stranger's receipt. A signature is modelled by
what it covers: the proposal and the order's version.

### 2.5 `SessionClock`

`_start` with `_apply_restored` (`Apply`), `pause`, `resume`, `record_event` and
`_end` as far as they read or write the clock fields, next to a machine clock that
ticks and may be set back. `Restart` is a process that ends or dies and a new
`Session` from the whole trace, with `restore_elapsed_ms` or without: the host hands
over what `elapsed_ms` last showed, or nothing. Of the trace `trace` keeps the number
of events and the two timestamps that matter. A wall-clock event carries the time
at which it is recorded; on the event clock it carries any. `ran` counts the time in
which the agent can act, `used` that of the sessions before, `told` what of both lies
between the first event of the trace and the latest of each session, `begun` the
beginning of the run, and `rough` says whether `elapsed` counts idle time: after a
restore from the trace's span, or when the number handed over was read at an event
recorded after the end, which `_wall_elapsed_ms` goes on counting up to. These are
history. `NotPaused` and `NoOverride` stand for `None`.

### 2.6 `ObservedRun`

One session with an audit observer and a trace recorder, and a second session
that appends to the same audit file. A file is a sequence of lines of which the
last may be torn by a write that fails or a process that dies in the middle.
What a hash commits to is modelled by the hash being the sequence of records it
stands for, so two hashes are equal exactly when their histories are. `Begin`
sanitises and adds the event, `Write` is one observer's line, `Judge` evaluates
the clauses, `Open` and `Restored` are a later process that restores the session
from the trace (`TraceRecorder(append=True)`). `recorded`, `judged`, `stale` and
`broken` are history: `stale` names the observers whose `_prev_hash` is no longer
that of the last line.

### 2.7 `EventRules` and `AgentRun`

`EventRules` states each predicate as the code computes it, from the sequence of
events whose last member is the one being judged. Texts and arguments are
members of a small set, `"bad"` being the argument that lacks the key or amount a
predicate looks for. A model response has a text or none, as an output has, and
the predicates that look at what was said (`no_repeated_output`,
`no_progress_stall`, the disclosure of AI, the taint of a tagged event) read both.
`AgentRun` gives these events to a session as `PactrunCapability` does: a tool call is recorded and
judged before the tool runs (`Execute`), the event of a tool that raised gets its
error afterwards (`Fail`), and until then it looks like a success. One predicate,
`rule`, is judged at a time, with other blocking clauses before and after it whose
verdicts are free. `Restart` is a new process that restores the trace, in which
no outcome was filled in yet. `End` judges the clauses of the session's end, and
`ending` keeps their verdict. `fate`, `unjudged`, `alarms` and `exposed` are
history. The operators at the end of `AgentRun` say again what each predicate is
there to notice, of a set of events in no particular order: these are the
reference definitions that the predicates are checked against. The 31 predicates
make 35 rules, as four are checked in two modes each; drift bounds, the
value guard, tool definitions, the disclosure of AI, `must_call`, `tool_order`
and the diagnostic of `flow_progression` are among them.

### 2.8 `Alerts`

A thread is a run whose violations are escalated to one shared handler. Neither
`Digest` nor the webhook takes a lock, so `Digest.__call__` is three steps:
the test of the window (`CallDigest`), the start of a window and the test of the
length (`Place`), and the append or the count (`Keep`). `Flush` takes and resets
the buffer up to its loop; `Notify` is the webhook's look at the throttle, `Post`
its request, which may fail, and the assignment of `last_sent`. `window` is the
digest's, `None` for `"run_end"`, `Alone` for a webhook without a digest. `End` is
`on_session_end`, an explicit `flush()`, or neither, as when a clause raised.

### 2.9 `Pricing`

`call` is one request, through `wrap()` or seen by an adapter, from its estimate
(`Ask`, `precall_worstcase`) over the arrival of its usage (`Receive`) to its bill
(`Bill`): tokens are used, the provider reports them in its own convention
(`Report`, external), one field may be garbled, and the code normalises
(`UsageFrom...`) and computes the cost (`Cost`, `AccountedUsage`).
In between the name is looked up, in one action for each read of the shared table:
the name, then without its date (`TryName`, `TryUndated`), then the scan for a
prefix (`StartScan`, `EndScan`), and the entry or the ceiling of what was found
(`Use`). An adapter looks a name up once, `wrap()` up to three times, of which the
first says whether litellm is asked and the last is for the event's metadata
(`cost_model.py:165-204`); usage that is no amount is looked up for the metadata
only. A look-up may raise when the table grew between `StartScan` and `EndScan`:
Python raises `RuntimeError` out of an iteration over a dictionary that has changed
its size, and the call is not billed.

`Insert` puts a price into the table, `ListProviders` and one `Compute` for each
provider are the passes over the table that `_ceilings` makes, `FailToCompute` is
an exception out of one of them, and `Assign` replaces the ceilings. Each pass sees
one table; a growth during it makes it raise (`disturbed`), and the last, for all
providers, is a single call into the interpreter. The look-ups of an estimate are one
step: an exception there comes before anything is sent, and `EstimateCovers` speaks
of prices that stayed as they were.
Prices are integers, cache rates quarters of the input price, the geographical
factor is in tenths, what `wrap()` reserves and charges is in quarters of that unit
(`Unit`), and the estimate takes the number of input tokens as given.

### 2.10 `Adapters`

A wrapper is named by its adapter, and `method`, the SDK's method, is the
sequence of wrappers a call runs through. `Enter` and `Exit` are `_patch` and
`_unpatch`; a call takes the method once (`Begin`), the SDK answers, fails or is
cancelled (`Answer`, external), and each wrapper records what comes back
(`Wrapper`): the response and its tool calls in the order of the SDK, as far as
the parts are well formed, or an error. `Stops` are the ways in which a wrapper
stops: it is done, a clause raises at any event, or an exception of its own
escapes, of a broken part in the OpenAI adapter (`Broken`) or, in each of them, of
the lookup of the price while another thread registers one. `open`,
`tidy`, `opened` and the log of a call are history.

### 2.11 `Telemetry`

Tasks record events into sessions, the active one or another. `Record` looks for
the run of the session, `Start` makes one if the look found none, `Violate` is
`on_violation`, `Finish` is `on_event_end`, `Exit` is `on_session_end`, or a
clause that raised before it; `Break` is another observer that raises. `context` is the context variable in each task,
which `Inherit` copies as a new task does. `ops` is `_open` and `runs.current` is
`_runs`. `events`, `latest` and `disturbed` are history.

## 3. Runs

| Run | Question | States |
|---|---|---|
| `GuardedClient` | Do two calls, plain or streamed, keep the budget, settle once and for all, raise before any forbidden tool they read is delivered, and implement the ledger? | 270 132 |
| `Enforce` | Is the outcome of an enforced call explained, and nothing of its runs left behind, for every contract of two clauses in both modes? | 479 512 |
| `Enforce_BlockRaises` | a disagreement of section 5 | |
| `MCPGuard` | Do crossing listings, announcements, failures and endless cursors let anything unsafe through, or hang a call? | 191 968 |
| `RefundWorkflow` | One provider call, granted effects and true outcomes, with crashes, lost answers and lying lookups? | 769 705 |
| `SessionClock` | Is a session judged by its running time, whatever is paused, restored or set back? | 6 621 812 |
| `ObservedRun` | Does the chain verify exactly when it should, and does a run carry on after a crash or a failed write? | 1 605 298 |
| `AgentRun` | Do 31 predicates report the first breach of their rule, and prevent what they forbid? | 3 137 505 |
| `Alerts` | Is any violation lost between two runs, a digest and a throttled webhook? | 2 812 416 |
| `Pricing` | Is a call billed at what it cost, at a price the table had, or an exception explained, and is it estimated at no less, for each provider, while one or two threads register prices between any two reads? | 1 140 677 |
| `Adapters` | Is the SDK put back, and every call recorded once by every adapter but one that was stopped, whoever enters and leaves meanwhile? | 3 668 470 |
| `Telemetry` | Do spans, counts and violations find the run they belong to, whatever is nested or parallel? | 2 795 916 |

Every module states a type invariant; the runs of `GuardedClient` and `Alerts`
check theirs, the latter because it bounds the digest's buffer: by `MaxBuffer`
and one more for each other thread.

`CHECK_DEADLOCK FALSE` stands in every configuration because the actors finish:
each call, task, worker and session has an end, after which nothing happens.

### 3.1 Bounds

- *GuardedClient*: two calls are enough for every race here, as a call meets the
  others only in the sum of the reservations and the total. Amounts of 1 and 2
  under a budget of 3 make the second call fit, not fit, and fit after a
  settlement below its estimate; a bill above its estimate is possible. One
  forbidden and one allowed tool. `Kind = "anthropic"` has the longer accounting
  (counts that are not final, then `message_stop`). The proofs remove these
  bounds, and cover both SDKs and every `on_violation`.
- *Enforce*: two clauses are the least for which one can hide another, or a late
  one replace what an earlier one raised; two events let the function go on after
  it swallowed the first violation; one retry makes both the limit and the step
  past it reachable. `OnFails` leaves out `log` and `warn`, which never raise
  like an approver that agrees, and `escalate`, which raises like `block`.
- *MCPGuard*: one tool with all its annotations, as calls of different tools
  share only the flags; two tasks, two pages, one change of the server.
- *RefundWorkflow*: two workers, one reconciler and two grants over five
  proposals for two action ids: two amounts of one id, a proposal for a later
  version, one that does not fit the order. `MaxVersion = 2` lets other routes
  change the order once. Proposals are not interchangeable, workers and grants
  are, so only those are symmetric.
- *SessionClock*: five instants, three events, one set-back, one restart: enough
  for two pauses in one session, or a pause in each of two and a gap between them,
  and for a trace that spans both.
- *ObservedRun*: two events, three processes one after the other, one fault, one
  record of the other session: enough for a fault in the first or the second
  event, a restore of a restored run, and a foreign record before, between or
  after the run's own.
- *AgentRun*: four events, three instants, one restart. Each predicate has the
  parameters that make its limit reachable with two or three events, so that the
  fourth lies beyond it; `Deeds` gives each the deeds it tells apart. Time passes
  only for the predicates that read it. The limits that the code computes in
  floating point are such that no rounding decides them.
- *Alerts*: two runs of two violations over two clauses, so that a group meets
  another and a run its own earlier violation; a buffer of two, which two threads
  can overfill; a window and a throttle of two ticks out of three.
- *Pricing*: a table with one model of each kind of entry (long context, a fast
  tier, cache rates of each provider), names that are exact, prefixed, wrapped,
  newer than the table, unknown, or opaque; two input tokens and one output token, so
  that every class of token is met alone and with another. Two registrars: one of a
  model that the table lacks, one of a new price, with cache rates above the usual, for
  the only model of a provider, which it takes to another provider. Once the second
  has begun, only calls of two names go on, of which one is found by its prefix and one
  once it is registered (`OneRegistersOrRaceName`, the constraint of the run).
- *Adapters*: two tasks, two adapters, three blocks: an adapter entered twice, or
  left between another's blocks, with a call of another task across both. Two
  parts of a response, so that a bad one comes before or after a good one.
- *Telemetry*: two tasks, two sessions, two events, and three settings (no agent
  span, agent span, agent and LLM spans).

### 3.2 Fairness

Only liveness properties use it, each with the least its code gives.

- *GuardedClient*: the provider answers, fails or times out (the SDKs bound the
  time of a request); a thread inside `__next__` goes on; a consumer eventually
  stops reading, with or without `close`. There is no fairness on admission.
  `EventuallySettled` excepts streams that are dropped unclosed: `GuardedStream`
  has no finaliser, so nothing would settle them.
- *Enforce*: once called, the function returns or raises, and the wrapper's own
  steps go on. Building the contract is not fair.
- *MCPGuard*: the event loop runs what is ready, and a request is answered or
  fails. Neither the tool's own answer nor cancellation is fair.

The other modules state safety only and need none. Nothing in the code makes a
digest flush, a run end or a block close.

## 4. Proofs

Eight modules hold theorems, all checked to the last leaf. Each `*_proofs` module
extends the component it is about, defines an inductive invariant `IInv`, proves
that `Init` establishes it and has one lemma for each action that keeps it; the
theorems are consequences. Three of them extend two components, which is why the
definitions of `SessionClock`, `MCPGuard` and `Pricing` that every component has
start with `Clock`, `Mcp` and `Pricing`. Every `IInv` was first checked by TLC as an invariant
of the component's run. The theorems hold for every value of the constants
that satisfies the module's assumption: any number of threads, calls, workers,
events or processes, and any of the bounds that TLC needs.

| Theorem | States | Needs, beyond the types |
|---|---|---|
| `LedgerTypeCorrect`, `LedgerWithinBudget` | the abstract ledger keeps its limit | |
| `ClientTypeCorrect`, `ClientSettlesOnce`, `ClientBlocksForbidden` | `TypeOK`, `SettledOnce`, `ForbiddenBlocked` | `Accounting`, `Screened` |
| `ClientRefinesLedger`, `ClientWithinBudget` | `RefinesLedger`, `WithinBudget` | the same, and `SumOver` |
| `ClientKeepsUnknownEstimates` | `UnknownKeepsEstimate` | the same |
| `PricingBillsExactly`, `PricingUnknownNotCheaper`, `PricingEstimateCovers` | `BillExact`, `UnknownNotCheaper`, `EstimateCovers` | `TablesOK`, `CeilingsCurrent`, `EstimateCurrent`, `BeforeKept`, `LookUpOK`, `EntryCurrent` |
| `EnforceOutcomeExplained`, `EnforceSignalsContained`, `EnforceRetriesUsedUp`, `EnforceMonitorOnlyWatches` | the property of that name | `BuildPhase`, `HaltsRaised`, `SessionKept`, `RunsBounded`, `MonitorQuiet` |
| `McpOnlySafeSent`, `McpFailureBlocks` | `OnlySafeSent`, `FailureBlocks` | `EntriesOffered`, `StaleUntilAsked` |
| `RefundTypeCorrect`, `RefundSentOnce`, `RefundEffectsGranted`, `RefundOutcomesTrue` | `TypeOK`, `SentOnce`, `EffectsGranted`, `OutcomesTrue` | `RowsKept`, `SendsClaimed`, `GrantsCover`, `SightingsTrue` |
| `RefundRefinesLedger` | `RefinesLedger` | the same |
| `AdaptersKeepStack`, `AdaptersRecordCalls` | `StackKept`, `CallsRecorded` | `Tidy`, `Stacked`, `CallOK` |
| `AgentPreventsHarm` | `HarmPrevented` | `EventsOK`, `PhaseEarned`, `Clear`, `Counted` |
| `ClockNeverOvercounts`, `ClockNothingHidden` | `NeverOvercounts`, `NothingHidden` | `NotBeforeStart`, `BookedAtMost`, `BookedAtLeast`, `HandedOver`, `SinceBegun`, `ToldKept` |
| `RunChainExact`, `RunCarriedOver`, `RunWrittenOnce`, `RunJudgedUnlessFault` | the property of that name | `TodoKept`, `JudgedBehind`, `WrittenBehind`, `ChainBehind`, `TraceBehind` |
| `AlertsTypeCorrect`, `AlertsNoneUncounted`, `AlertsEndLeavesNone`, `AlertsThrottleExact` | `TypeOK`, `NoneUncounted`, `EndLeavesNone`, `ThrottleExact` | `StagesKept`, `EndingLeavesNone`, `BufferBounded`, `DeliveriesKnown`, `PostsApart`, `SuppressedExact`, `DeliveredApart` |
| `TelemetryViolationsPlaced`, `TelemetrySpansClosed`, `TelemetryCallsCounted` | `ViolationsPlaced`, `SpansClosed`, `CallsCounted` | `TasksKept`, `OpsKept`, `EndedOnly`, `OneRun`, `CountsRight` |

Why the properties are not inductive as they stand, and what makes them so:

- *Ledger.* The bound is inductive next to the types: an admission was checked
  against it, and a settlement trades a claim for a cost whose excess goes to
  `overrun`. The theorems are stated through the refinement mapping, about the
  client's constants, for which `LedgerConstants` proves what the ledger assumes,
  and the client's state seen as a ledger's.
- *Guarded client.* Whether a `Close` charges depends on `_recorded`, so
  `Accounting` ties the stage of a call and that flag to its key in
  `_reservations`, and says that a closed stream is recorded and only an open or
  a closed one has a chunk in hand. `Screened`: `_note_tool` lets a name it has
  marked as seen pass, so a forbidden name so marked must be one the session has
  raised over. The refinement shows that `Admit` and each charging step are the
  ledger's `Admit` and `Settle`, with `claimed` the sum of the reservations, and
  every other step a stutter; `ClientWithinBudget` carries the ledger's theorem
  back. `SumOver` is defined as a cardinality, because a fold or a recursive
  operator would need an induction no installed prover can instantiate; `SumAdd`
  and `SumCongruence`, adding a key and changing nothing that counts, follow from
  the library's theorems on cardinality.
- *Pricing.* `BeforeKept` remembers the table of the moment at which the usage came
  and says that one registration since makes at most one entry of difference
  (`OneMore`); `LookUpOK` says that what the reads of a look-up have found or ruled out
  so far agrees with a look-up in that table or in the present one, and `EntryCurrent`
  the same of the entry that is kept for the bill. `ScanFinds` is where it matters that
  the reads go from the whole name to its prefixes: a key that comes in between cannot
  make the scan find what neither table would. `EstimateCurrent` says that an estimate
  is still that of the prices unless one changed, and `CeilingsCurrent` that
  registrations which do not overlap leave the ceilings of the table behind, pass by
  pass. The rest is arithmetic.
  `ReportsRead` shows for each provider that a report comes to the tokens it is
  about, or to an invalid usage if one of its counts is no amount; `BillMono` that
  dearer rates make a dearer bill; `EstimateBound` that the input at its rate,
  raised by the multiplier, is dearer than any division of it among the classes of
  tokens. That a finite set of prices has a largest (`MaxIsLast`) follows from the
  least of its upper parts, as strict inclusion is well-founded on finite sets.
- *Enforce.* `HaltsRaised` says that a violation that halts is in flight or has
  been swallowed, at every stage a run goes through. `SessionKept` holds because
  a session that starts remembers that there was none before it. The first clause
  that raises is the smallest number of a set (`SmallestOf`), which exists by
  well-founded induction over the naturals at a fixed set.
- *MCP.* Entries cross in flight, so `EntriesOffered` says of the server's list,
  of the adapter's copy and of every listing being read that whatever in them
  would pass was offered at some time. `StaleUntilAsked`: as long as no request
  followed an invalidation, no listing is under way that could set `_listed`.
- *Refunds.* `SendsClaimed`: who reserved a row has sent nothing yet and is the
  only one that may, and nothing is sent without a row. `GrantsCover`: the
  version a grant was found to be for lies between the one proposed and the
  order's, and the provider takes only the proposed one, so all three are equal
  when the refund takes effect. `SightingsTrue`: what a worker or a lookup has
  seen stays true until it is recorded, as the one call for the row was made.
- *Adapters.* `Tidy` says what each block holds: while blocks close in the order
  of a stack, those that are open belong to as many adapters, which are the ones
  patched, and each has saved the method that the blocks opened before it make
  up, so that leaving the last one puts back the right one. `CallOK` follows a
  call through its wrappers: those that have run told of what they passed on, but
  for one at most that was cut off, by a clause or an exception of its own; what it counts in a log is split at each
  wrapper by lemmas on how often something occurs in a sequence (`Hits`).
- *Agent run.* `HarmPrevented` speaks of all calls that ran; a predicate sees one
  of them when it is recorded, with the events as they are then. `Clear` is what
  it found, said of the events before that call only and of fields that `Fail`,
  `Return` and a restart leave alone, so that nothing later can change it.
  `Counted` is the same for the predicates that bound a number. The gate lets a
  call through because of its ledger, which the events must have earned, also
  when a restart folds it anew out of the trace (`PhaseEarned`). For `quota` it
  matters that an error only ever takes a call out of the count.
- *Clock.* What lies between the start and where the clock stands has been run
  or is booked as a pause (`BookedAtMost`), exactly so while the machine's clock
  was not set back (`BookedAtLeast`). Across restarts, `HandedOver` says that a
  number with no idle time in it is at most the running time, `SinceBegun` that
  every timestamp and everything that counts as elapsed lies in the run, and
  `ToldKept` that the running time between two events is at most the difference of
  their timestamps, and at most what is handed over.
- *Observed run.* A file grows by a whole line, a garbled one, or text that runs
  on in a cut line (`Grown`); the proofs reason about that relation only.
  `ChainBehind` says whose `prev_hash` is the hash of the last record: of the
  observers that are not stale, and of no other, because a hash is the sequence of
  everything it covers and so grows along the chain. `TraceBehind` and
  `JudgedBehind` count, at each stage of `record_event`, the event that is in hand.
- *Alerts.* `BufferBounded` counts the threads that found room and have not
  appended yet, which is why the cap may be exceeded by the number of threads
  less one and not more. `NoneUncounted` is inductive once `StagesKept` says which
  stages hold a violation. `PostsApart`: a POST of a clause of which no two were
  under way at once began a throttle after the last delivery, since nobody else
  could deliver in between; `DeliveriesKnown` makes `last_sent` the last delivery.
- *Telemetry.* `SpansClosed` and `CallsCounted` speak of a session's end; the
  invariant says what holds before it: a session has at most the run that `_runs`
  holds (`OneRun`), and that run counts the calls for whose run no task is still
  looking (`CountsRight`). Both leave out a session of which two tasks started the
  run at once, which is a step of `Start` that `disturbed` records. `OpsKept` ties
  `_open` to the events that tasks are recording, which is where `on_violation`
  finds the run of an event.

The assumptions are the named ones of the modules, each of which TLC evaluates in
that module's run. Three are worth naming. `PricingAssumption` says of the shipped
table what the table shows: the rates of a long prompt are not lower than the
usual ones, and those of fast mode are the highest of an entry. Of what
applications register it says that it is amounts under a name, which
`register_price` checks, and of names that they are sequences of segments; where a property needs usual cache rates, it says so
(`HasUsualRates`). `RefundAssumption` keeps the value that
stands for SQL's NULL apart from proposals, statuses and issued grants.
`AlertsAssumption` makes the threads finitely many and at least one; they are
counted. Bounds such as `MaxEvents` or `MaxTime` are arbitrary
naturals in the theorems, so that they bound nothing there.

Only model-checked are:

- the liveness properties `EventuallySettled`, `CallEnds` and `CallSettles`: the
  prover does not reason about fairness and `ENABLED`;
- `RatesExact` and `ProgressExact` of `AgentRun`. They compare a predicate with
  its reference definition in both directions; most of the predicates build a
  subsequence with `SelectSeq`, a primitive that the prover does not unfold.

Two proofs need an induction. The library's induction rules take an operator as a
parameter, which the provers cannot instantiate. `Induction` states the rule for a
set of numbers instead and derives it from the least element of the numbers that
the set lacks. With it `FoldExists` proves that the fold of a given step over the
indices of a given sequence exists and satisfies its recursive equation, and
`PhaseRestoredEarned` and `SpendAtLeast` follow the gate's ledger and the sum of
`tool_spend_under` along it. Properties of all data, rather than of one
sequence at hand, are not proved that way.

## 5. Where code and documents disagree

Found by a run of its own, with a trace:

- `Enforce_BlockRaises`. `contract.py:253` says that block and escalate
  violations raise out of the call. A `session_end` clause with
  `on_fail="retry"` that fails while a `ViolationError` is in flight replaces it
  with `RetrySignal` (`session.py:214-217`), so the blocked function runs again
  and its value may be returned.

Noticed while modelling and followed by the model, without a run of its own. In
the session and the predicates:

- `session.py:192`, `226-229`: a clause that raises in `_start` or `_end` leaves
  the session active; `tests/test_session.py:63` expects none after one is left.
- `session.py:386-390`: the first recovery that raises ends the evaluation of
  the event; `docs/LIMITATIONS.md:12` says the remaining clauses are evaluated.
- `session.py:214-224`: a clause that raises at the end keeps observers from
  `on_session_end`; `recovery/digest.py:21` relies on it to flush, and the
  OpenTelemetry observer to end its run.
- `contract.py:97` against `177`: `on_violation` does not govern clauses added
  before it, nor `forbid`.
- `session.py:242-243`: without an event to restore, `restore_elapsed_ms=` does nothing:
  a run that used its time up before its first event was recorded starts again at
  zero. `CHANGELOG.md:115-116` says that it sets the restored wall-clock time.
- `session.py:208`: on the event clock the final elapsed time may be negative;
  `session.py:494` guards the same subtraction with `max(0.0, ...)`.
- `session.py:364`: events recorded after the end are still counted and judged, and
  on the wall clock judged by the time since the end as well, whatever was paused.
- `session.py:252-253`: a restore calls the gate with every event, also with one
  that an earlier clause blocked before the gate was evaluated, so the restored
  run is a stage further than the run was; `session.py:234` and `flow.py:132` say
  that state is rebuilt as for a live event.
- `session.py:478-481`: the tool history keeps calls that were blocked, so
  `must_call` and `tool_order` count tools that never ran.
- `session.py:475` against `488`: `cost_per_turn_under` judges each LLM call, while
  turns are counted at `TURN_END`.
- `flow.py:108`: the gate advances when it passes an event, also if a later
  clause then blocks it, so a stage that was refused counts as done; a tool that
  stands twice in `stages` never passes its second stage.
- `behavioral.py:14` against `27`: `no_loops` speaks of more than the threshold
  and fails at the threshold, so four of five calls trip the default.
- `behavioral.py:147`: of the adapters, MCP is said to fill in errors; it does
  not, Pydantic AI does. `bounded_error_retries` (`behavioral.py:221`) judges
  only an event that has an error already, which no event has when it is judged
  in a Pydantic AI run.
- `adapters/pydantic_ai.py:261-264` fills in outcomes and results after the trace
  line was written, so rules that read them judge a restored run by calls that
  all look successful and return nothing: taints are forgotten.
- `ratelimit.py:26`: windows trust timestamps; a clock set back between two
  calls takes the earlier one out of the window.

In the wrapper, the workflow, the adapters and the observers:

- `wrap.py:675`, `682-683`, `713-714`: of a plain response the recorder reads the
  first choice, and nothing behind a part of unexpected shape, yet `wrap.py:271`
  returns all of it. `ForbiddenBlocked` excepts what was not read.
- `wrap.py:335` says that a complete forbidden tool name is blocked before its chunk is
  delivered. `_note_tool` marks the name as seen before it is judged (`wrap.py:542`),
  and `__next__` does not look at `_closed`: a consumer that reads on after the exception
  is handed the next chunk that names the tool, if the upstream stream has one.
  `ForbiddenBlocked` says only that the session has raised over the tool before.
- `refunds.py:228-240`: a reconciler whose lookup is older writes `unknown` over
  `verified`, which `docs/SUPPORT_REFUND.md:72` says the effect is marked; a later
  reconciliation repairs it.
- `adapters/mcp.py:163` says that after `invalidate_tools` the next call lists
  again. A listing already on its way sets `_listed` (`mcp.py:238`) and undoes the
  invalidation. `FailureBlocks` excepts this case.
- `adapters/mcp.py:132`: the session of a `GuardedMCPSession` is never started
  or ended, so preconditions and `session_end` clauses are not judged.
- `adapters/openai.py:105`: a block left out of order puts back a method that
  another adapter has replaced, or leaves the wrapper of an adapter that is gone;
  two nested adapters record a call twice.
- `adapters/openai.py:3-4` says that every call is automatically recorded into the
  active session. `choices` set to `None`, or arguments that are no string, raise a
  `TypeError` that no `except` of `_emit_response` expects (lines 128, 140, 143), so
  the adapter does not record the call and its caller gets the exception, though the
  provider has answered. `CallsRecorded` says of an exception that escaped like this
  what it says of a clause that raised.
- `adapters/openai.py:138-154`: the tool calls of a response are recorded before
  the response, so if a clause blocks one, the cost of the response is never
  recorded; the other adapters do the same. A tool call without a function makes the
  OpenAI adapter skip the later ones; a call with `stream=True` is recorded as an
  empty one of no cost.
- `adapters/langchain.py:50`: `_starts` keeps the entry of a call that ends with no
  session. The handler does not set langchain-core's `raise_error`; a manager that
  honours it logs what the handler raises, and a clause then stops nothing.
- `observability/audit.py:4` says that deleting any record breaks the chain;
  deleting the last ones does not. `verify_audit_log` raises on a torn line.
- `observability/otel.py:272`: a violation of an event that has no open operation
  goes to the run of the active session, which may be another, or to a span of
  its own. What is recorded after a session's end starts a run that never ends,
  and two tasks with a session's first events start two.
- `recovery/digest.py:89-100`: a `flush` by another thread between the test of the
  length and the append leaves a buffer that has no `_window_start`, which its
  window then never flushes; with `max_buffer=0` nothing is ever reported.
- `recovery/webhook.py:112`: alerts of one clause in two threads may both be
  posted, and `last_sent` may go back when the later POST returns first.
- `README.md:338` of the repository composes `digest` with `webhook_handler`,
  whose throttle per clause then drops later aggregates uncounted.
- `cost_model.py:305`: whether a request may write to the cache at a premium is
  decided by the model's name; an Anthropic model under a name that does not say
  so is estimated at 1.25 or less and billed 2.0 for a one-hour write.
  `EstimateCovers` excepts such names.
- `core/pricing.py:247`: `register_price` takes a `cache_read` above 1 and, for a
  model with an Anthropic name, a `cache_write` above 1.25. Ceilings and estimates
  expect neither (`pricing.py:231`, `cost_model.py:305-310`), so that an unknown
  model may be cheaper than such a one, and its estimate too low.
  `UnknownNotCheaper` and `EstimateCovers` except it.
- `core/pricing.py:204`: the scan of the table for a prefix raises `RuntimeError` if
  another thread registers a new name meanwhile. It leaves `cost()`, and with it the
  recording of a call that the provider has answered: an adapter does not record it,
  and `wrap()` does not charge it. `BillExact` allows this, and only this, exception.
- `cost_model.py:199-203`: a name is looked up again after litellm was ruled out, and
  once more for the event's metadata, so a call may be billed at the ceiling without
  the mark of an unknown model, when its price is registered between the two.
  `BillExact` does not speak of the mark.
- `core/pricing.py:235-241`: the passes of `_ceilings` raise as well when another
  registration adds a name, or takes the only model of a provider elsewhere.
  `register_price` then raises with its price in the table and the old ceilings.
- `core/pricing.py:261-262` says that ceilings are recomputed, so that registering a
  pricier model raises them. Of two registrations that overlap, the one that computed
  its ceilings first may assign them last (line 279), and the other's model is dearer
  than its ceiling. `UnknownNotCheaper` excepts overlaps.
- `adapters/litellm.py:207`: `completion_cost(...) or 0.0` records 0 if LiteLLM
  answers 0 or nothing; line 212 says never a silent $0.

## 6. Plan

Done: budget, contract and session lifecycle, clocks, MCP, refunds, observers and
restore, the predicates that look back, alerts, pricing, SDK adapters and
telemetry; proofs about all of these, and of the predicates that they prevent
what they forbid. Next, in this order:

1. Proofs: `RatesExact` for the predicates that do not select.
2. `multi_party_approval_required` and the shadow store of monitor mode in
   `consent.py`: a quorum of distinct approvers over one proposal, none of whose
   nonces is spent unless all are.
3. The LangChain callbacks, whose ends may come in another order than their
   starts, and which another thread may deliver.

### Not modelled

- Content predicates other than the two that look back, and the per-event checks
  of `tools` and `tool_args`: they match the text, the URL or the arguments of
  one event, keep no state, and their difficulty is in the patterns. Sessions
  treat their verdicts as free, which covers every way they may interfere.
- The drift monitor: floating-point statistics over long series.
- Core models, the loader, the CLI, the pytest plugin, the evalcraft bridge: data
  classes, parsing, printing and files.
- The scenario harness: its injected faults are the crashes, lost answers and
  faulty lookups of `RefundWorkflow`.
- Replay: a session in monitor mode on the event clock, both of which are
  modelled.
- In `Pricing`: counting tokens of a text, LiteLLM's own calculator, reports that
  lack fields, and a response that names another model than the request.
- In `Telemetry`: attributes, metrics, times, and an observer that records
  events itself.
- In `Session`: summaries, and leaving a session in another task than it was
  entered in, where resetting the context variable raises `ValueError`.
