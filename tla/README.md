# Verification of flarion

flarion is an LLM gateway written in Rust: an OpenAI-compatible HTTP server that serves
local GGUF models on its own GPUs (llama.cpp on worker threads) and cloud models, behind
routes with fallback chains; the same binary is its command line client. This directory holds TLA+ modules translated from the source,
the TLC configurations that check them and the theorems TLAPS proves about them.

## 1. Inventory

| Component | State it keeps | Operations | What makes it correct |
| --- | --- | --- | --- |
| `engine/scheduling.rs` Placement | none | split of a model's estimate over devices | the parts add up to the estimate |
| `engine/scheduling.rs` ResidentSet, Scheduler | per GPU: a mutex-protected map from model to (cost, pinned, shared last-used and in-flight handles) | `try_reserve`, `release`, `pick_eviction_candidates`, `pick_most_free_device`, `try_reserve_split` | no device above its budget; victims oldest first, never pinned or busy, and enough |
| `engine/llama/mod.rs` LlamaBackend | load state behind an async mutex, placement behind another, in-flight count, last use, poisoned and draining flags | `load`, `chat_completion(_stream)`, `unload`, `shutdown` | one load at a time, nothing taken from a request, every reservation given back, waiters woken |
| `engine/llama/worker.rs` worker thread | the llama.cpp model, a command queue of 64 | `Load`, `Chat`, `ChatStream`, `Shutdown` | every caller is told, also behind a panic or a shutdown; nothing is answered after a panic |
| `engine/llama/inference.rs` adapter | context and sampler of one request | `load`, `generate` | an answer of at most `max_tokens`, cut before a stop sequence; errors that name the right culprit |
| `routing/routed_backend.rs` | none; a trace slot per request | fallback over a rule's targets with a first-token timeout | every target tried once, in order; no second target after a chunk was sent |
| `routing/matchers.rs`, `rules.rs` | none | rule selection | first match wins, the catch-all always answers |
| `api/chat.rs` | per request: RAII guards, a oneshot for the terminal error | `chat_completions` | counter balanced and one terminal event on every exit |
| `admin/tracker.rs` | ring of events, broadcast channel, a counter per model | `record`, `tail`, `in_flight_inc/dec` | bounded history, order |
| `admin/*.rs` | none | load, unload, pin, status | unload refused when busy |
| `engine/registry.rs` | map of backends, fixed after startup | lookup, `Evictor::unload` | total lookup |
| `cli/commands/serve.rs`, `server.rs` | the whole process | startup loads, evictor binding, listeners, signal, drain | what validation accepts starts; nothing is served before all is ready; a signal ends the process |
| `engine/openai.rs`, `anthropic.rs` | HTTP client | proxied completion | chunks in order and once, error classification |
| `engine/hf/` | none | a stub that fails to load | |
| `config.rs` | none | load, interpolate, override, validate | budgets of eager and pinned models fit; ids in range; routes lead to models |
| `cli/cache.rs` | a value per resource for one second, shared by tasks | reads, mutations that invalidate | no value from before one's own mutation |
| `cli/client.rs`, `cli/commands/*` | none | one HTTP call each, or a feed | the exit code tells what became of a mutation |
| `cli/endpoint_file.rs`, `resolve.rs` | a TOML file shared by processes | load, save; add, remove, use, login | the file stays readable and has a default |
| `auth.rs` | none | bearer check | on a public interface nothing is open that should not be |
| `error.rs` | none | tables from errors to statuses | the status names whose fault it was |
| `metrics.rs`, `vram_detect.rs`, UI | none that others depend on | | |

How they meet: an HTTP request (`api/chat.rs`) looks its backend up in the registry; a
`RoutedBackend` calls other backends, each attempt in a future or a spawned task that it may
drop or abort; a `LlamaBackend` reserves memory in the scheduler's ResidentSets, possibly
calling the registry (as `Evictor`) to unload other LlamaBackends, and talks to its worker
thread over channels. All LlamaBackends share one `load_coordinator` mutex, which loads and
their evictions take and which `unload` from the admin API and `shutdown` do not.

What is hard here: futures dropped at any await; a state lock released before the slow part
of an operation; a coordinator that only some of the actors take; reservations in several
mutexes; a notification that reaches only those already subscribed; shutdown while detached
streaming tasks run; one thread per model behind a bounded queue, which a slow client can block; a
process start in which every step may fail; files and caches shared without locks. `PROJECT.json` lists each hazard at its line with the properties for it.

## 2. Modules

| Module | Models | State |
| --- | --- | --- |
| `ResidentSet` | `scheduling.rs` | `reserved[g]`, the set of models in the map of device `g` |
| `ModelLifecycle` | `llama/mod.rs`, `try_reserve_split`, the Evictor, admin load and unload, shutdown | one variable per field of LlamaBackend, the coordinator, and what each task is doing |
| `Residency` | the abstract promise: workers fit in memory, requests are only given serving models, only unused unpinned models are retired | where workers are, which models serve, how many requests use each |
| `Routing` | `routed_backend.rs`, rule selection, what the backends do as the router sees it | one request: its attempts, the channel of the last one, the trace, what the client got |
| `ChatTracker` | `api/chat.rs`, `admin/tracker.rs` | stage and backend call of each request, counters, events broadcast, ring |
| `Follow` (on `ChatTracker`) | `admin/requests.rs`, `cli/commands/requests.rs` | what a follower of the request log printed, its place in the broadcast channel |
| `Config` | `config.rs`: loading and validation as operators on records | |
| `Startup` (on `Config`) | `serve.rs`, `server.rs`, `auth.rs`, `rules.rs` and what they call | how far the process is, budgets answered, reservations, registry, listeners, connections |
| `Errors` | `error.rs` | |
| `AnswerStream` | the abstract promise of a streaming call: role, text, finish, then one result | kinds of chunks sent and result of each call |
| `Calls` | a chat call between handler, backend and client | stage, chunks, result and reply of each call |
| `Worker` (on `Calls`) | `worker.rs`, `inference.rs`, the calls of `llama/mod.rs` that reach the thread | command queue, thread, generation in progress, flags, shutdown |
| `Upstream` (on `Calls`) | `openai.rs`, `anthropic.rs` | what the upstream of each call has sent |
| `Backends` | the composition of `Worker` and `Upstream` with clients | |
| `Endpoints` | `endpoint_file.rs`, `resolve.rs`, `commands/endpoints.rs`, `login.rs` | the file, and each process's copy of it |
| `Client` (on `Endpoints`) | `client.rs`, `cache.rs`, the one-shot commands, the server as they see it | each call, the server's version, the cache |
| `MC...` | constants for TLC | |
| `ResidentSet_proofs`, `ModelLifecycle_proofs`, `Residency_proofs`, `Routing_proofs`, `ChatTracker_proofs` (also about `Follow`), `Backends_proofs`, `Client_proofs`, `Startup_proofs` (with lemmas about `Config`) | the theorems of section 5 | |

### ResidentSet

A model's estimate and configured devices are fixed at startup, so what it costs on a device
(`Share`) is a constant operator and an entry of the Rust map is its key. Costs are megabytes:
`Total(S, g)` counts pairs of a model and a number, which is the sum of the shares and, unlike
a recursive sum, something the provers reason about. `LruOrders` keeps every order
`sort_by_key` can leave equal times in, because the entries come out of a hash map.
Saturation of u64 additions is not modelled: it needs estimates near 2^64 MB.

### ModelLifecycle

A *task* is one async call: `Requests` run `chat_completion(_stream)`, `Loaders` `load()`,
`Unloaders` the admin unload, `Drainers` `shutdown` (one drainer visits the models in any
order). `task[t].pc` names the point a task has reached, the other fields are its local
variables. An action is the code between two points where another task can interleave: an
await, a mutex, an atomic that others read. Correspondence of the main fields:

| Rust | TLA+ |
| --- | --- |
| `LoadState::{Unloaded, Loading(n), Loaded(l)}` | `loadState[m]`, `notify[m]` (the task that will notify `n`), `loadedOn[m]` (the devices of `l`'s worker) |
| `ResolvedPlacement` | `placement[m]`, `<<>>` for Auto |
| `in_flight`, `last_used_ms` | `inFlight[m]`, `lastUsed[m]` (only the order of times matters, so they are renumbered; equal milliseconds are allowed) |
| `load_coordinator` | `coordinator`, the task inside |
| `Notify` clone before `notified().await` | `task[t].awaits`, set in `FoundLoading`, useless once the leader has announced unless the task is `waiting` |
| dropping the future | `Cancel`: guards fall and the mutex is freed, nothing else is undone |

Merges: a critical section of the `load_state` lock is one action; `pick_most_free_device`
reads its devices in one action although each has its own lock; joining the worker and reading
the placement afterwards are one action. Cancellation happens at awaits that really pend:
waiting for a load, queued behind a held coordinator, waiting for the worker to load, to
answer or to stop. The worker orphaned by a cancelled load (its command channel closes, so it
exits by itself) is not counted by `VramFits`. A poisoned worker that has exited is still
counted, which is on the safe side. The admin API's own look at the request tracker before
`unload` is left out: the tracker counts by the id a client asked for, so it does not see
requests that arrive through a route, and the model must be correct without it.

Initially every model is Unloaded, as with `lazy = true`. Eager models are loaded one after
the other before the evictor is bound and before any request: that is in `Startup`.

### Residency

The refinement mapping (`R` in ModelLifecycle) counts a worker as occupying memory while it is
spawned, Loaded or being joined; serving is Loaded; a user is a request between receiving its
guard and dropping it. `ImplementsResidency` says that reservations, eviction, single flight
and guards together never start a worker where it does not fit beside those really there, and
never retire a model in use. It holds without an admin unload, a shutdown or a disconnect;
with them the runs of section 4 show which part breaks.

### Routing

One request, because requests share nothing in the router. `attempt[i]` is the call to the i-th
target of the selected rule: a spawned task when streaming, a future otherwise. `queue` is
`internal_rx` of the last attempt; the receivers of earlier ones are dropped with them. A step
of the router is the code from one await to the next: `TryNext` (spawn, or the first poll),
`GiveUp` (timeout, retryable error, end of the channel), `FirstChunk` and `NextChunk` (receive
and send on), `EndOfStream` (join), `Answered`. `Disconnect` only marks a streaming client as
gone, since its request runs in a detached task and finds out when a send fails; it drops the
future of a non-streaming one. What a backend may do is translated from the adapters: fail
before its first chunk (`FailAtOnce`), send, end, be cut off (`CutOff`: the worker reports the
error, the HTTP adapters leave their loop and return Ok), and, once given up, end by itself
(`Wither`: an aborted HTTP call at once, a worker at its next send or at the end of its answer).

Left out: the buffer of the client's channel, so a chunk passed on is a chunk received; a panic
inside an attempt's own future, which `unwrap_or(Ok(()))` would call a success
(`routed_backend.rs:239`); matchers, of which any set that includes the catch-all may hold.

### ChatTracker and Follow

`Arrive` is the code up to the first await (count, broadcast Started), `CallBackend` stores
Started and calls the backend, `Finalize` and `Respond` are the two halves of the terminal
`record`, split at its lock. `Guarded` says where an armed guard exists: from the start on the
plain path, between `record(Started)` and `finalize` for a stream. `Disconnect` drops the
handler there; the spawned call of a stream goes on. A stream left while Started is being
recorded is counted and has no guard yet: its stage is `leaked`, and `CountersBalanced` says
that the counters are exact but for those. The channel is seen through what it told of each
request, because nothing depends on the order between requests; the ring is global.

`Follow` runs `requests tail -n N --follow` beside it: `List` prints the tail, `Subscribe`
comes later, `Serve` is a step of a handler whose event reaches the subscriber's part of the
broadcast channel, at the cost of the oldest when that is full, and `Receive` prints an event or
the gap. A follower that stops is forgotten.

### Config and Startup

`Config` translates `load`, `interpolate_env`, `apply_cli_overrides` and `validate` check by
check, in the order in which the first fault is reported. A text is the class the code puts it
in (set, blank, a reference to an environment variable, malformed), a URL its scheme and the
kind of its host, a file's content what parsing makes of it; megabytes are small numbers, and
`1.2 * size` is `(size * 6) \div 5`. Devices are numbered with `U32` values, so that the
greatest id plus one wraps as it does in a release build. What several models need of a device is
the size of a union of sets with one element per megabyte (`Megabytes`, `Need`), which is their
sum because validation has refused an id given twice before it adds anything up. `IsConfig` is
what deserialization guarantees of any file, faulty or not.

`Startup` has one action for each thing `run` does that can fail, in its order; the exporter of the
metrics is installed at the end of `Check` and may refuse (`Exporters`). The driver is
asked twice (`Check`, `ResolveBudgets`) and may answer differently. Loading is translated from
`load_backend`, where the HTTP client of a hosted model may fail to be built; `Fits` is `try_reserve_with_eviction` without an evictor. Once the listeners are
bound, connections come (`Connect`): answered at once, refused, a chat that keeps a worker busy,
or the feed, which has no end of its own. `Leave` is also the timeout layer, which covers the
head of a response. `ConnectionsDone`, `Drain` and `Exit` are the graceful shutdown. Left out:
what lazy models do while serving (ModelLifecycle), the thread in detail (Worker).

### Calls, Worker, Upstream, Backends

`Calls` has what all backends share: `Arrive` is the handler up to the call, `Send` a chunk
accepted by a channel of `ChunkCap`, `Settle` the return of calls and the HTTP reply, `Leave` a
disconnect: a streaming call is a task of its own, a plain one is dropped.

`Worker` is one loaded model: `Enter` to `SendCommand` are the steps of a call between awaits
and locks, the thread takes one command after another, and a generation is `SendRole`, `Prompt`,
then rounds of `Sample`, `Push` and `Decode`, then `SendFinish` and `Complete`. A piece of text
is a sequence of characters, as far as stop sequences need them. `Panic` and `Poison` are two
steps because the caller of the panicking command hears of it while the stack unwinds, before
the flag is set. `BeginDrain`, `SendShutdown` and `Join` are `shutdown`. A token whose piece is empty, because a
character is not complete yet, is sent as a chunk without text. llama.cpp may fail in the prompt or
at any token (`LibraryFails`). `BeginDrain` sets the load state to Unloaded even while a load goes on,
which then sets it back. A call that had passed the flags before finds no model and loads once
more (`LoadTooLate`). Here one thing is assumed of timing: a call that has looked at the flags a
second time (`checked`) gets the lock of the load state before a whole load is through, so that the second
thread never gets a command. That such a load waits for the coordinator, and may run beside the old
thread, is in ModelLifecycle. Merges: the response to a plain request is written in the step in
which the call returns; a load's failure is seen by leader and waiters at once (the detail is in
ModelLifecycle, as are lost wake-ups: here a waiter looks again).

`Upstream` is one HTTP request per call. The upstream is external: it may refuse, time out,
stop anywhere (`CutOff`) or send an event that does not parse (`Garbled`), which the adapter
skips. The text pieces are numbered, so that loss, order and repetition can be told. An upstream
that does not stop at its finish is passed on as before (`GoesOn`, once for each call: the adapters
look at no chunk but for `[DONE]`); that its role comes first and once is assumed of it.

### AnswerStream

What the consumers of a stream rely on: at most one role, first; text; at most one finish
reason, after all text, unless the upstream itself goes on after it (`on`); one result, and no error
after a finish. `ImplementsAnswerStream` maps the chunks and results of `Backends` to it, for both
kinds of backends.

### Endpoints and Client

Each process loads the whole file, edits its copy and saves it: `Truncate` (the file is opened
and emptied), then `Write`. Two processes between the two steps may leave either text, a mix, or
something that does not parse, according to their lengths; all three are outcomes of `Write`
(`Overwrite`). `Kill` stops a command anywhere, in the middle of the text too: what is left may then be
anything its beginning says (`Beginnings`), for example the default without the entries, or nothing
that parses, and `cut` remembers it. `FileStaysUsable` is about files that were not cut so; section 4
says what the code does not do about them. `Resolve` is the precedence of flags, environment, named
and default endpoint, `flarion.toml` and loopback.

`Client` adds the network. A caller's request is served (`Serve`), gets lost (`Lose`), or runs out
of time (`Expire`); a mutation given up may still reach the server (`stray`, `ServeStray`). The
server's state is the number of mutations that took effect, because that is what a reader can be
behind. Commands name local models; `pin` and `unpin` are answered like the others and change
nothing (`Effective`), because no backend overrides `pin`, so `ExitTellsTheTruth` is about `load` and
`unload` only: for the other two a 0 says nothing (section 4). `Read`, `StoreValue`, `Succeed` and `Invalidate` are `CachedClient` with a step per lock.
Time is `Tick`; a call that has run out of it ends before the next one.

## 3. Passing runs

| Run | Question | Bounds and why they are enough |
| --- | --- | --- |
| `ResidentSet` | budgets, splits, choice of victims, automatic placement | 4 models and 4 devices, one disabled: an uneven split, a pin, two automatic models whose choice matters; all ages 0..2 and all busy patterns |
| `LifecycleEvict` | single flight, eviction, failing loads, refinement of Residency and of ResidentSet | 1 device of 3 MB, two models that exclude each other and a pinned one beside them; 2 requests and 1 loader, so a leader, a waiter and a competing leader meet; requests are symmetric |
| `LifecycleSplit` | split reservation, rollback, eviction on the second device, real memory, no reservation without an owner; loads end and waiters wake | 2 devices, a model split 3+2 whose load may fail, an automatic one, a pinned one; 2 requests: a leader with a waiter, or two leaders that need each other's memory. No symmetry, because liveness is checked |
| `LifecycleChurn` | in-flight counts and guards under admin unload, shutdown, disconnects and panics | one request, one unloader and one drainer on two models, every await of request and unload cancellable: each pair of them interleaves at every point |
| `Routing` | fallback, timeouts, commitment, abandoned calls | a rule with two targets and one with three, local and upstream; answers of up to 2 chunks through a channel of 1, so a backend blocks on a full channel; each call can fail, hang or be cut off, the client can leave anywhere |
| `ChatTracker` | counters, events, what a follower of the log sees | two streams and a plain request over two ids; a ring of 3 for up to 6 events, so it evicts; any await can be the last. The follower lists 2 and its channel holds 1, so that it lags at once; while it follows, one of the streams waits (`FewWhileFollowed`), and all three run when there is none |
| `Startup` | does what validates start, is it ready when it listens, who gets in, does a signal end it | some fifty files, each with one fault or tight on memory, two devices; the driver fails, finds less or a device less, at either time; two connections, so one is busy while another stays open |
| `Backends` | do all calls return, whose fault is told, what streams deliver | three calls on a thread with a queue of 1 and channels of 1, so the second waits in the queue and the third for room; prompts below, at and above the context; up to two tokens of three texts, one of which ends in a stop sequence that another may complete; a panic, libraries that fail in the prompt or between tokens, a shutdown at any time; two upstream pieces, before or after a finish |
| `Client` | is the file usable, do exit codes tell the truth, does the cache mislead | every pair of edits and of an edit with another command over five files; a dashboard of two tasks with two calls each, or one each beside a command that changes the server; a value is stale at 1 tick and a call over after 2, so a slow answer outlives a cached value |

Deadlock is checked in the lifecycle runs and absent: some task can always go on. The requests
of `Routing`, `ChatTracker` and `Backends` and the process of `Startup` come to an end, so there it
is not checked; in `Client` time goes on.

Fairness (`LCFairness`): weak for the work of each task, since tokio polls every ready task, a
worker answers (generation is bounded by `max_tokens_cap`) and a load of a file ends; strong
for taking the coordinator, since tokio's mutex queues its waiters first come, first served.
Nothing is assumed of clients, disconnects and panics. That a shutdown ends rests on generation
ending: the join in `shutdown` has no time limit of its own. `RoutingFairness` lets the router
run and its timers fire, calls that were given up end, and a backend that has begun its answer
go on (decoding is bounded, reqwest's `timeout` of 300 s by default covers the body); a backend
that has sent nothing may stay silent for ever.

`BackendsFairness`: the thread runs, the futures of calls are polled, `shutdown` goes on, an HTTP
request ends within reqwest's timeout, and a client that has not left reads what it is sent. The
last has no support in the code: a client that keeps its connection and never reads stops the
thread of the model and everything behind it. `StartupFairSpec`: generations end, the shutdown
goes on, and whoever is connected leaves some day, which for the feed is up to the client alone.

## 4. Disagreements

The runs that end in a violation check what a comment or document of the repository says and
find a trace of the code that does otherwise. `PROJECT.json` quotes the lines.

| Run | Property | What happens |
| --- | --- | --- |
| `UnloadRace` | `LoadedIsReserved` | admin unload: Unloaded first, release later, without the coordinator; a reload in between loses its reservation |
| `CancelStuck` | `LoadingEnds` | the leader's future is dropped (disconnect, a route's first-token timeout): Loading for ever |
| `LostWakeup` | `RequestsAnswered` | the load ends between cloning the Notify and subscribing |

Seen in the code, without a run of its own. Streaming and its ends:

- An upstream that breaks off in the middle of a stream, and Anthropic's error event, end the
  adapter's loop with Ok (`openai.rs:208-213`, `anthropic.rs:376-382`, `461-464`); the client gets
  `[DONE]` and no finish reason. `README.md:195` says mid-stream failures surface as an error.
- A streaming target that fails for good before its first chunk is followed by the next target
  (`routed_backend.rs:250`), where `README.md:195` says "Non-retryable errors surface immediately."
- A client that leaves while Started of its stream is being recorded leaves the counter
  incremented (`chat.rs:160`, against `CHANGELOG.md:49`): stage `leaked` of ChatTracker.
- An upstream event that does not parse is skipped and the finish reason still relayed
  (`openai.rs:227`): `AnswerWhole` is exact but for those.
- The streamed text of an answer that a stop sequence ended may hold the beginning of that
  sequence, which the plain answer does not (`inference.rs:365`).
- A generation that reaches the end of the context is an error 500 after text was sent
  (`inference.rs`, the decode in the loop), not a finish with `length`.

Threads, loads and shutdown:

- A client that keeps its connection and does not read blocks the thread of the model
  (`worker.rs:196`). A plain request whose client has gone is generated to its end.
- Between `cmd_tx`'s look at the flags and its lock (`mod.rs:438-444`) a shutdown turns the answer
  into 500 instead of 503; commands queued behind a Shutdown report a poisoned backend.
- A reload sets the poisoned gauge back (`worker.rs:44`) while the flag, which decides, stays.
- An open admin feed keeps the graceful shutdown waiting (`serve.rs:205`), whatever
  `config.rs:172-173` says of the grace period.
- `[automatic eager, explicit eager]` in this order may validate and then not start, because the
  first takes the room of the second; in the other order it starts. The driver is asked again
  (`serve.rs:79`) and may change what was validated.
- Any valid `hf` model ends the startup (`hf/mod.rs`, NotImplemented).

Client:

- Concurrent edits of the endpoint file lose one of them; a kill between truncating and writing
  leaves an empty file, and one in the middle of the write (`endpoint_file.rs:46`) a beginning of the text,
  which may name a default that has no entry; `login` takes a file it cannot read for an empty one and replaces it
  (`login.rs:9`).
- `--endpoint` with an unknown name asks the default endpoint (`resolve.rs:31`), and `--api-key`
  without `--url` is ignored.
- An unload or unpin the user declines exits 0, and so does a streaming chat or a follower whose
  connection breaks (`commands/requests.rs:88-91`).
- The five seconds after which `models load` gives up drop the server's handler, which is what
  `CancelStuck` is about.
- What happens between the tail and the subscription is never shown by `tail --follow`
  (`commands/requests.rs:54-74`).

Scheduling and the admin API:


- Eviction asks for the model's full share instead of the deficit (`mod.rs:296`), so a load is
  refused though evicting one idle model would do; `README.md:426` promises the eviction.
- In the window of `UnloadRace` the reload also reuses the reservation while the old worker is
  still in memory (`mod.rs:557`, against `flarion.toml:23-24`), and the placement it committed
  is reset under it (`mod.rs:595`, against `mod.rs:224-225`).
- A client that disconnects during its unload leaves the reservation of an unloaded model
  (`mod.rs:557-592`). A second unload answers Ok and still releases nothing (`mod.rs:554`,
  against `backend.rs:44`), and a load that picks the model as a victim "evicts" it with
  success, frees nothing and tries again for ever, holding the coordinator (`mod.rs:322`).
- A failed load keeps its automatic placement, so a retry cannot choose another device
  (`mod.rs:256`, against `mod.rs:53-54`).
- A load queued for the coordinator when the server shuts down finishes after `shutdown`
  returned (`mod.rs:612`, against `backend.rs:39-41`).
- A disconnect records no terminal event (`chat.rs:103-113`) where `CHANGELOG.md:49` says every
  request emits one; a stream cut off by its upstream is the one recorded as Canceled.
- `POST /admin/models/{id}/pin` answers `pinned` and changes nothing: no backend overrides
  `pin` (`backend.rs:55-57`, against `README.md:241`).
- `shutdown_grace_secs` is not what the drain uses (2 s at `serve.rs:213`, then a join without
  limit at `mod.rs:645-647`, against `README.md:398`).
- `request_history_size = 0` gives a ring that grows without bound (`tracker.rs:36`).
- A `BackendBusy` from `unload` is answered 500 (`admin/models.rs:82-88`) where
  `CHANGELOG.md:48` says 409.

## 5. Proofs

The theorems hold for every value of the constants that satisfies the assumptions of the module,
so for any number of models, devices, tasks, requests, targets, processes and calls. Each comes
from an inductive invariant, one lemma for each action that it keeps it, and one temporal step.

What the assumptions ask, and why the code has it: `ResidentAssumption`, finitely many models,
natural budgets and estimates, no device twice in a model's list (validation refuses that);
`LifecycleAssumption`, tasks are not models and the kinds of tasks are different ones;
`CallsAssumption`, a model id names one backend (the registry is a map); `WorkerAssumption`, a
request is not one of the commands Load and Shutdown; `ClientAssumption`, well-formed files to
start with, the commands clap accepts, callers of either kind; `StartupAssumption`, files have the
types of the structs of `config.rs` and the driver answers with a list of totals;
`ConfigAssumption`, there are `U32 > 1` device numbers; the others, the types of numbers.

### ResidentSet_proofs

- `ResidentTypeCorrect`: the sets hold known models only.
- `BudgetNeverExceeded`: `Total(reserved[g], g) <= Budget[g]` always. `BudgetRespected` is
  inductive with the type invariant. The argument: entering an absent model adds exactly its
  share (`TotalOfOneMore`, from disjoint unions of finite sets), and that sum was compared with
  the budget in the same step; removing models never raises a total (`TotalMonotonic`).
- `AutomaticPlacement`: whenever some device has room for an automatic model, the one
  `pick_most_free_device` returns has. `MostFreeExists` shows that the CHOOSE of `MostFreeDevice`
  is met (the greatest free amount, then the greatest index with it); below its budget no device
  saturates, so the room of any device bounds that of the chosen one from below (`RoomIsFound`).
- `EvictionIsEnough`: for any ages and any business of the entries, unloading the victims makes
  the request fit. What the victims hold and what is left add up to the old total
  (`TotalOfDisjoint`), which the budget bounds: this is where `BudgetNeverExceeded` is needed.
- `LeastRecentlyUsed`: nobody spared was used before a victim. A sorted list without repetition
  of as many entries as are eligible misses none (`OrderIsComplete`, an injection between finite
  sets of equal size), so a spared entry stands behind the prefix that was taken.
- `SplitsReserveTheWhole`: the shares of a split model add up to its estimate. Each device but the
  first has the even share, the first what is left (`SplitAddsUp`): the unions of the shares are
  counted as products of intervals and disjoint sets, division by what its remainder leaves.

### ModelLifecycle_proofs: whatever is cancelled, unloaded or shut down

`LCInv` is the type invariant, strengthened by the shape of a task at each place (who can be there,
and that what it holds and still has to do are devices of its model), with `InFlightCounts`. Every
action is shown to move one task and either to leave the counts alone or to change one count with
the one request that enters or leaves its guard (`Counts`), so the cardinality of the holders moves
with the counter.

- `LifecycleTypeCorrect`, `GuardsAreCounted`.
- `LifecycleKeepsToResidentSet`: every step is a step of ResidentSet or leaves the reservations
  alone. So all that is proved about `RSSpec` carries over: `LifecycleKeepsBudgets`.
- `GuardsKeepModelsLoaded`: no eviction, admin unload, failing load or disconnect takes a model from
  a request that has it. Not inductive by itself: `UsedStaysLoaded` adds that the model whose
  load a task leads is in Loading and has no second leader (`SingleFlight`), and that a shutdown marks
  a model before it takes it (`ShutdownIsMarked`). The heart is `TakeWorker`: the idle check and the
  change of the load state are under one lock, and in_flight counts exactly the guards.
- `LoadingHasOneLeader` has two hypotheses, no cancellation and no shutdown (`Cancellable = {}`,
  `Drainers = {}`), and they are needed: with cancellation `CancelStuck` finds models in Loading
  that nobody loads.

### Residency_proofs: while only evictions take models down

The hypotheses are `Unloaders = {}` and `Drainers = {}`. They are not a convenience: the run
`UnloadRace` refutes `LoadedIsReserved` with one admin unload, because that does not take the
coordinator. Cancellation, failing loads and panics are allowed.

- `LoadedModelsAreReserved`, from `ReservedInv`: whoever is at a place of the critical section is
  the task in `coordinator`, and what that task has secured so far is in the sets (`Provisioned`).
  All tasks outside leave that alone (`AsideStep`), the one inside is followed step by step.
- `PinnedModelsStay` and `WorkersFit`: workers in memory, those being spawned or joined included,
  are a subset of the reserved pairs (`WorkersWithinReserved`), whose total is within the budget.
- `LifecycleImplementsResidency`: the refinement, `ResidencyInit` and one lemma per action that says
  which step of Residency it is (`Serve`, `Vacate`, `Retire`, `Use`, `Finish`) or a stutter.
- `ReservationsAreAccountedFor`: no reservation without an owner. Also without cancellation
  (`Cancellable = {}`), since a load that is dropped leaves its reservation to the next load.

### Routing_proofs, ChatTracker_proofs

`RoutingInv` says that targets are tried in order and each is given up before the next
(`InOrder`, `MarkedWhenGivenUp`), and that every chunk of the current attempt is in the channel or
with the client, once and in order (`ChunksInOrder`). From it `ClientHearsOneVoice`,
`ExhaustedMeansAll`, `NeverTwoCalls`, `SuccessIsComplete`, `RoutingTypeCorrect`.

`ChatInv` ties what a handler has told to its stage (`StoryInStep`), and what the ring holds and
misses of a request to how far its handler has stored (`RingInStep`): `CountersAreExact`,
`StoriesAreWhole`, `RingIsHonest`. `FollowingIsHarmless` shows that `Follow` implements
`ChatTracker`, so that all three hold while the log is followed.

`FollowingIsHonest` is about the command that follows. `FollowInv`: what it shows (printed, then
pending in its channel) is in order and was sent (`InOrder`), and while it listens the events sent
since it subscribed and not shown are as many as its gaps count (`AllAccounted`). An event that a
handler sends is new (`OneMoreSent`), so it is one more shown; one that falls out of a full
channel is one more counted (`LostBetween`), and a gap told in between moves the count from
`missed` to what is printed (`GapBetween`, `GapsCounted`). That the tail of the ring is in order
is where `RingHolds` is needed: the ring may lag behind what was broadcast but never reorders it.

### Backends_proofs

`BackendsInv`: the flags against the load state and the thread (`FlagInv`), a call is in the queue or
generated at most once and only while its caller waits (`QueueInv`, `GenInv`), and, call by call,
what stage, chunks, mishap, result and reply have to do with one another (`CallInv`). An action
touches one call (`OneCall`, `OthersKept`), but for the exit of the thread, which settles all that
are queued (`ThreadExits`).

- `BlameIsAlwaysRight`; `PoisonIsFinal`: a poisoned thread has exited, so no `Ok` comes from it.
- `StreamsAreAnswerStreams`: both kinds of backends implement `AnswerStream`. A step appends a chunk
  of the next kind (`SendIsChunk`), is the upstream going on (`GoesOn`), settles calls (`SettleIsReturn`), or is a stutter; that text
  is over when the finish is sent follows from the phases of the generation.
- `AnswersAreWhole`, from `AnswerInv` on top of `BackendsInv`. For a local model, the text of the
  generation is what was said to the client, but for the piece about to be said and what a stop
  sequence cut off (`GenText`), so that the answer of a generation that ended otherwise is what was said,
  and one that a stop sequence ended is that text with one more piece, cut (`Stopped`, `LocalWhole`).
  For a hosted one, the texts in the channel are those of the upstream but for the garbled ones,
  in order, at every moment (`CloudWhole`). `Said` flattens a sequence, and `FlattenSeq` is
  defined by a recursive function: `JoinsExist` and `FlattenMore` show, from the least number of a
  set, that such a function exists and what one more member adds, which is all that is needed.

### Client_proofs

`ClientInv` has a part for each theorem. `FileInv`: while no two saves overlapped, the process
between truncating and writing is alone; a sound copy stays sound under each edit, and nothing is
claimed once a write was cut:
`EndpointFileStaysUsable`. `TruthInv`: what a load or unload was answered against what the server did, also
by way of requests that arrive late: `ExitCodesTellTheTruth`. `SeenInv` and `AgeInv` relate the
versions in the cache and in answers under way to the last invalidation (`floor`) and to the time
each version was replaced (`since`): `CacheIsHonest`.

### Startup_proofs

Three invariants hold together with each other; each action of `Startup` keeps them.

- `NothingOpenInPublic` from `AccessInv`: past validation the posture is in order and nobody is
  connected before, so who gets in without a key was admitted by `Admitted` under a configuration
  that passed `PostureFault`; and the metrics that `Admitted` leaves open are at their own listener.
- `ListeningWhenReady` from `LoadInv`. While loading, the registry holds the first `Loaded` names of the
  file (`RegistryInv`: a name more each time, `Registering`, as validated names are distinct), and the
  reservations are those of its eager models, within every budget (`ReservedInv`, `Reserving`). When
  the evictor is bound all names are there.
- `ValidConfigsStart`, also from `LoadInv`. `StaticFault(c) = "ok"` gives `Valid(c)`: distinct ids,
  patterns that compile, targets that are models (`StaticIsValid`), so every route compiles.
  `FitFault` gives `Fitting`: devices that exist and `Need` within each budget. At each load, the
  megabytes reserved on a device and those of the model that comes are disjoint and both a
  part of what validation added up (`NeverExceeds`), so they fit. That no other step can report
  one of the errors in question goes through every check of the validation (`Benign`). Hypotheses on the
  driver or on automatic placement are in the property itself.

Validation's lists of checks are functions with a least failing index; that this minimum exists
(`LeastOne`), and the maximum in `DeclaredDevices` (`GreatestOne`), is from the well-foundedness of
the natural numbers.

### Only model-checked

- Liveness (`LoadsFinish`, `WaitersWake`, `EverythingEnds`, `CallsEnd`, `SignalEnds`): fairness and
  ENABLED are out of the prover's reach.

## 6. Not modelled, and the plan

- The chat REPL and all terminal output, the web UI, CORS, metrics exposition: no state that
  anything depends on.
- The predicates of matchers: pure functions of one request; `Routing` lets any of them hold.
- llama.cpp, its sampler chain and the decoding of UTF-8 across tokens: what a model samples is
  arbitrary in `Worker`. The fields of the adapters' JSON.
- The Hugging Face download: a stub that nothing calls.
- Read-only admin endpoints: they compute JSON from state that is modelled.
- A reload after a panic or an eviction is in `ModelLifecycle`, which has no queue; `Worker` loads
  once. Their composition would multiply two large state spaces for no property of its own.

Every safety property that a passing run checks is proved. What more could be proved: facts about
single operators, for which no run asks (that `RouteFault` accepts every route that `Valid`
describes).
