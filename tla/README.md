# TLA+ models of NetEnforcer

This directory holds TLA+ models of `src/src/NetEnforcer/NetEnforcer.cpp`,
the per-host daemon of WorkloadCompactor. The daemon turns the controller's
per-client priorities and rate limits into Linux Traffic Control (TC) state,
and it reports each client's occupancy, meaning how much of its allowance it
used. The models are checked with TLC.

## 1. The system

NetEnforcer is one process running `svc_run`. Every RPC handler runs to
completion before the next request is read, so the only concurrency is
between the process and the world around it:

- the kernel, whose class counters grow with traffic;
- the clock;
- signals (`term_signal`);
- kills, after which a restart finds the previous TC state still in place.

| Part | Source (NetEnforcer.cpp) | State | Operations |
|---|---|---|---|
| Handle allocator | 79-127 | none (pure functions of `g_numPriorities`, `g_numLevels`) | `rootHTBHandle` .. `HTBMinor` |
| TC driver | 129-266, 336-361 | the device's qdiscs, classes (with byte counters) and filters | `runCmd`, `removeRoot`, `removeQdisc`, `removeClass`, `removeFilter`, `addHTBQdisc`, `addHTBClass`, `addFilter`, `getSentBytes` |
| Client table | 59-77 | `g_clients`, `g_nextId` | read and written by the handlers |
| Reconciliation engine | 376-471 | client entries and TC | `updateClient` |
| Occupancy accountant | 363-374, 473-494 | `prevSentBytes`, `sentBytes`, `maxSentBytes`, `lastSentBytesTime` | `updateSentBytes`, `getOccupancy` |
| RPC surface | 496-593 | none | UpdateClients, RemoveClients, GetOccupancy (batches, per-item validation), `net_enforcer_program`'s dispatch |
| Lifecycle | 268-334, 595-663 | the root tree | `initTC`, `term_signal`, `main` |
| Estimator, ProcessedTrace | src/src/Estimator, src/src/TraceCommon | none | a factory and a trace reader (not modelled) |

How the parts interact:

- A handler changes the client table.
- `updateClient` then issues an ordered list of TC commands:
  1. build or extend the chain;
  2. add the base filter;
  3. add the root filter;
  4. prune the chain's old tail;
  5. drop the old base filter and class.
- `getOccupancy` reads counters back through `getSentBytes`.
- Filter preference ("prio") doubles as the client id plus 1. `removeFilter` therefore deletes every filter of that id under a parent.

The properties each part needs are the hazards in `PROJECT.json`:

- The TC state always equals the realisation of the table (section 3).
- An update never disturbs another client's objects.
- Ids are never shared.
- The occupancy reply is a number in [0, 1].
- The byte accounting never wraps.
- Restarting after a kill leaves no stale state.
- Handles stay within tc's 16-bit hexadecimal range.
- Counter lookups read the right class.
- Each occupancy query starts a new sampling interval.
- `initTC` runs to the end and builds the tree the file header draws.

## 2. Modules

| Module | Models | State / actions |
|---|---|---|
| `Handles` | the handle allocator | operators only, same names as the C++ functions |
| `TCKernel` | the TC driver, as the effect of each tc command on a kernel record | `qdisc`: handle -> parent `<<handle, minor>>`; `class`: `<<handle, minor>>` -> sent-bytes counter; `filter`: bag of `[parent, prio, key, minor]`. A command tc would reject leaves the record unchanged (`runCmd` ignores failures). Deleting a qdisc deletes its subtree. `removeClass` is refused while a filter points at the class. `getSentBytes` returns every counter its substring search could hit (`IsDecimalPrefix`). Every handle and minor must survive tc reading the `%d` text as 16-bit hexadecimal (`DecimalAsHex`, `TcParses`). |
| `NetEnforcer` | client table, reconciliation, occupancy, RPC handlers, lifecycle | variables `running`, `clients`, `nextId`, `kernel`, `occupancy` (the last reply as a fraction, where `<<0,0>>` is NaN) and the history variable `tcFailures` (failed tc commands so far). Each client also carries a history field `window`: the time since its counters were last zeroed. Actions: `Dispatch` (`net_enforcer_program`) choosing among `UpdateClients` and `RemoveClients` (a batch folded item by item with `updateClient`) and `GetOccupancy`, `Start` (`initTC`), `TermSignal`, `Crash` (kill), and the environment actions `Tick` (clock) and `Traffic` (a packet counted on a base-qdisc class). |
| `EnforcerPolicy` | the abstract promise: a policy store whose TC realisation (`Realize`) is installed after each request | `Configure`, `Remove`, `Start`, `Stop` |
| `RootTopology` | `main`'s `-n`/`-b` and `initTC`'s loop, with its numbers | variables for `g_numPriorities`, `g_maxRate`, the loop counter, the running `rate` and `ceil`, the root classes added and the DSCP value of each priority. One action, `AddPriority`, per loop iteration, weakly fair. Unsigned ints are held as the signed value `%d` prints; the DSCP value is taken mod 256 like the `unsigned char`. |
| `SignalTeardown` | `main`'s start-up and `term_signal` at the grain of tc processes | variables `root` (the device has a root qdisc: every other object hangs below it), `mainPc`, `step` (main's next command: `initTC`'s `InitCmds`, then those of served requests), `children` (tc processes running, by main, the handler or a nested handler), `handlerPc` (the innermost handler) and `nested`. Actions: `Setup` (the `sigaction` calls at 633-639, before `initTC`), `Spawn` (`runCmd`'s popen, or popen returning NULL), `Land` (a tc process doing its work, also after its parent has gone), `Reap` (the `fgets` loop ending and `pclose`), `Signal` (SIGTERM/SIGINT stopping main), `NestedSignal` (the other signal re-entering `term_signal`, which the empty `sa_mask` at 636 allows), `HandlerPopen` (the handler's `removeRoot`: its popen runs, returns NULL, or, when the handler stopped code inside `runCmd`, blocks on a libc lock; that last case is undefined behaviour, modelled as a choice) and `HandlerExit` (`exit(0)`). `pmap_unset` (599) talks to the portmapper and holds no state of the model. |
| `MCNetEnforcer`, `MCRootTopology` | model values for keys, symmetry, state constraints, and the `-n`/`-b` values explored | |

How the code is translated:

- `updateClient` is one operator that returns the set of possible successor `[clients, nextId, kernel]` records. The set is needed because `getSentBytes` may match several classes.
- Its tc commands are built as a sequence (`UpdateCmds`) in the code's order and applied by `Exec` through `RunCmds`. When `tcFailures < MaxTcFailures`, any one command of the call may fail and have no effect. `runCmd` never reports a failure, so the rest of the call goes on.
- Data is abstracted:
  - rates and bursts: only the chain length and `rateLimitRates[0]` (the client's `rate`) are kept;
  - addresses: model values;
  - time: per-client `elapsed` ticks. `maxSentBytes += rate * elapsed`, and `elapsed` is reset at each sample.
- `sentBytes` is an exact integer, so a uint64 wrap appears as a negative value.

`NetEnforcer` shows that it implements `EnforcerPolicy` with the following mapping:

```
Policy == INSTANCE EnforcerPolicy WITH policy <- PolicyView, tc <- TCView, up <- running
```

- `PolicyView` is the table restricted to id, priority and length.
- `TCView` is the kernel without its counters.

## 3. Runs

Each run's exact constants are in its `.cfg`.

| Run | cfg | Expect | What it shows |
|---|---|---|---|
| topology | `MCNetEnforcer.cfg` | pass | `KernelMatchesTable`: whenever the process is up and no tc command has failed, the TC state equals `Realize` of the table. This covers every interleaving of updates, removals, kills, restarts and signals. It checks the command ordering of `updateClient` across priority changes, chain growth and shrinkage, odd lengths, and a restart over stale state. `UntouchedClientsKeepTC`: with one failed tc command anywhere in an `updateClient` call, a request still never costs a client it leaves alone a filter or a class. |
| refinement | `MCRefinement.cfg` | pass | `RefinesPolicy`: with traffic and time, every step implements an `EnforcerPolicy` step. In particular ids are fresh, and occupancy queries and traffic change neither the policy nor the TC structure. |
| phantom | `MCPhantom.cfg` | violation | `UntouchedClientsKeepTC` fails. A query for an unknown key inserts an entry with id 0 (line 478). A later update of that key deletes client 0's root filter. |
| occupancy_nan | `MCOccupancyNaN.cfg` | violation | `OccupancyInRange` fails. An unlimited client at a priority other than 0 gets the reply 0/0 (line 483). |
| counter_wrap | `MCCounterWrap.cfg` | violation | `SentBytesNeverWraps` fails. Limits dropped and re-added at the same priority re-create the class with a zero counter, but `prevSentBytes` is reset only on a priority change (line 442). |
| stale_allowance | `MCStaleAllowance.cfg` | violation | `AllowanceWithinWindow` fails. While a client is unlimited, `updateSentBytes` returns early (line 366) and `lastSentBytesTime` stays behind. The first sample after limits come back charges time from before the last occupancy reset. |
| handle_width | `MCHandleWidth.cfg` | violation | `KernelMatchesTable` fails at the defaults (7 priorities, 5 levels). Client id 284 at priority 6 gets chain qdisc handle 10000. tc reads it as 0x10000 and refuses it. |
| resend | `MCResend.cfg` | violation | `RepairableByResend` fails. After a failed root-filter add, re-sending the same configuration issues only class replaces (lines 413, 437, 441), so the filter stays missing. |
| root_topology | `MCRootTopology.cfg` | pass | `RatesNested` holds for `-n` 1..8 and four link rates: every root class has a positive rate within its ceil and within its parent's rate. `RootTreeBuilt`: under weak fairness of the loop, `initTC` eventually builds and keeps the helper chain, each priority's class and the default class, each under the parent the file header draws. |
| prefix_collision | `MCPrefixCollision.cfg` | violation | `SamplesOwnClass` fails. Client 0 stays configured while a second key is removed and re-added up to id 18, both at the same priority. getSentBytes searches for `class htb H:2` with `string::find` and can stop at client 18's `H:20` (line 350), so client 0's `prevSentBytes` becomes client 18's byte count. |
| priority_zero | `MCPriorityZero.cfg` | violation | `QueryResetsCounters` fails. A client configured at priority 0 is taken for an unknown entry by `c.priority != 0` (line 480). Its reply is 0, and its `sentBytes` and `maxSentBytes` carry over into the next interval. The spec leaves this as an open question and asks for it to be decided explicitly. |
| signal_teardown | `MCSignalTeardown.cfg` | violation | `SignalLeavesDeviceClean` fails: after SIGTERM the process does not reliably exit leaving a device without TC state. The handler is installed before `initTC` (line 638). In the trace TLC prints, SIGTERM arrives, SIGINT re-enters `term_signal` while the first handler is in popen (the empty `sa_mask`, line 636), and the inner popen (line 601) blocks, so the process never exits. With the hang and a NULL popen both removed, TLC still finds a trace: `exit(0)` does not wait for main's tc child, and `initTC`'s `qdisc add ... root` lands after the handler's `qdisc del root`, so the root tree stays behind (line 602). A popen returning NULL in the handler is a further way. |

Bounds, and why they are enough:

- **topology:**
  - `NumPriorities = 2` and `NumLevels = 1`. Lengths therefore range over 0..4, so chains have 0, 1 or 2 stages, which includes odd lengths and every grow/shrink/move transition.
  - Two keys, which is needed for one client's commands to touch another's.
  - `MaxIds = 3`, so re-adding a removed key gets a new id.
  - Counters stay at 0 (`MaxBytes = 0`), since they do not affect structure.
- **refinement:** one key, `NumLevels = 2` (three stages), `MaxIds = 4`, and one byte of traffic.
- **stale_allowance, resend:** one key and one tick of time, or one failed command. This is the shortest setting in which each defect shows.
- **handle_width:** the real defaults, since the id at which handles break depends on them. `MaxIds = 300` is past the first failing id (284). `LongRunConstraint` keeps the client at priority 6 with a length of 0 or 3 and stops the clock, because only the growth of ids matters to this run.
- **topology, failures:** `MaxTcFailures = 1` allows one failure per behaviour; the behaviours without one are those `KernelMatchesTable` speaks of. Failures leave different leftovers in the kernel, and more than one failure exceeds TLC's reach with two clients. `TimelessConstraint` stops the clock, since no occupancy is involved (time is explored in refinement).
- **Batches:** `MaxBatch = 1` everywhere. Per-item validation is still exercised, because an item with an invalid length is skipped. With batches of 2 the refinement run takes longer than TLC's budget. `UntouchedClientsKeepTC` no longer applies either, because one batch may change a client and change it back.
- **prefix_collision:** two keys and `MaxIds = 19`. 18 is the first id whose minor (20) starts with the digits of another live client's minor (client 0's 2). `SamePriorityConstraint` keeps both clients at priority 1 with a one-level chain and stops the clock. This excludes the two other ways `prevSentBytes` can be stale: a priority change, and the re-created class of counter_wrap.
- **priority_zero:** one key with one byte of traffic and one tick, as counter_wrap.
- **root_topology:** `-n` 1..8 (the DSCP class selectors cs0..cs7) and `-b` in {100, 12345, 125000000, 2^31 - 1}: the smallest rate with a nonzero `minRate`, an uneven one, the default, and the largest `int`. From `-n 9`, priority 8 gets `(7 - 8) << 5` = 0xE0 in an `unsigned char`, which is priority 0's cs7 (line 312). No run checks this: a property of distinct DSCP values holds by arithmetic for `-n` up to 8 and fails at 9, and there is no room for a violation run. `RatesNested` also fails from `-n 100`, where the 1% reserved per priority exceeds the link and `ceil -= minRate` then wraps (line 323). TLC shows this once `PriorityCounts` reaches 100, but no run keeps that setting.
- **signal_teardown:** `-n 2`, so `initTC` issues 13 commands, and then served requests issue commands for ever. At most two signals. `sa_flags` has no `SA_NODEFER`, so a handler blocks its own signal while it runs. The empty `sa_mask` leaves the other one open, so a second handler can start on top of the first. In the second handler both signals are blocked, and neither handler returns.
- **State constraint:** it keeps `maxSentBytes <= 1` and `sentBytes` in -1..1. That is the smallest range in which an allowance, a use and a wrap all happen.

**Fairness.**

- **RootTopology:** `AddPriority` is weakly fair. `initTC` is straight-line code that `main` runs in its only thread before `svc_run`, and none of its steps waits on anything. So while iterations remain, the next one is taken. `RootTreeBuilt` is the liveness this justifies. A SIGTERM that ends the loop early belongs to the lifecycle, which NetEnforcer models as `TermSignal` and SignalTeardown at the grain of tc processes.
- **SignalTeardown:** main's steps, the tc children's and the handler's are weakly fair: they are processes the kernel keeps scheduling, and none waits on a request. The signals are not fair; they need never come.
- **NetEnforcer:** no fairness is assumed. The daemon only reacts to requests, and every handler runs to completion within one step. No promise of the code or the spec says that something eventually happens without a request. The one candidate, repair after a failure, depends on the controller's retries, which are not in this repository, and `resend` shows that a retry of the same request does not repair anyway.

## 4. Not modelled, and the plan for later work

- **Not modelled:**
  - XDR encoding and decoding: transport I/O. `Dispatch` covers `net_enforcer_program`'s choice of handler. A NULL ping, an unknown procedure and undecodable arguments change no state, so they are stuttering steps.
  - `-d` and RPC registration in `main`. They fix the device and the transport, and no state of the model depends on them.
  - The Estimator factory and ProcessedTrace. The spec puts the estimator and trace subsystems out of scope, and the classes they forward to (the estimators and TraceReader) are not in the repository. What remains is a string dispatch and a field copy, with no state to check.
  - Where exactly main is stopped inside popen, fgets or pclose: SignalTeardown keeps only "inside `runCmd`", the condition under which the handler's popen may block.
- **Planned for later work, in order:**
  1. A property about a client's own objects that holds for batches of 2, so that batches can be explored.
  2. Per-level rates in the kernel record. `%d` prints a rate of 2^31 bytes/s or more as negative (line 227), and tc then refuses the class, like the handles of handle_width.
