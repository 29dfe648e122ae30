# A TLA+ verification project for rust-plc

`rust-plc` is an IEC 61131-3 Structured Text toolchain: a compiler and editor
services, a bytecode VM with a cyclic scan engine, and an agent that runs the
engine on a target device, where it is deployed to, monitored, debugged and
changed while it runs. This directory holds TLA+ models of the
parts where the behaviour is hard to test (threads, channels, sessions,
persistence, online change, field buses, the chain from source to machine), the
TLC configurations that check them, and TLAPS proofs of the properties that
matter most.

## 1. Inventory

### Target agent (`crates/st-target-agent`)

| component | state | operations | talks to |
|---|---|---|---|
| Runtime manager (`runtime_manager.rs`) | shared `RuntimeState` under a lock (status, program, variable catalog, values, stats); a 16-slot command channel; inside the thread: the engine, the debug session | `start`, `stop`, `shutdown`, `online_change`, `force_variable`, `unforce_variable`, `reset_stats`, `debug_attach`; the thread: `runtime_thread`, `run_cycle_loop`, `handle_debug_commands` | API handlers and OPC UA send commands; the DAP handler holds the other end of a session |
| Program store and program API (`program_store.rs`, `api/program.rs`) | the stored bundle and its metadata, the files on disk | upload, start, stop, restart, update, remove; load at boot | runtime manager |
| Remote debugging (`dap_proxy.rs`, `dap_attach_handler.rs`) | one `active_debug_session` flag; per connection: attached flag, breakpoints, pending request | accept a TCP client, attach, DAP requests, engine events, disconnect | runtime manager's debug session |
| Monitoring (`api/monitor_ws.rs`, `api/variables.rs`, `st-monitor/src/server.rs`) | per client: subscriptions, whether the first update is due, a push task with a receiver of the cycle broadcast and a throttle | connect, subscribe, unsubscribe, force, unforce, reset of statistics; push, skip, throttle | reads the runtime manager's shared state, sends it commands |
| OPC UA server (`opcua_bridge.rs`, `st-opcua-server`) | the nodes with their values, the catalog they were built from | build, synchronise nodes and values, write | the same |
| Watchdog (`watchdog.rs`) | last seen cycle, restart counter | poll, restart with a delay | runtime manager |
| Singleton (`singleton.rs`), boot (`main.rs`, `server.rs`) | pid/lock file | acquire, release, auto-start | operating system, program store |

### Engine (`crates/st-engine`)

| component | state | operations |
|---|---|---|
| VM (`vm.rs`) | globals, call stack, function-block instances, retained locals, forced variables | scan cycle, continue after a halt, force/unforce, `swap_module` |
| Engine (`engine.rs`) | VM, cycle counter, retain configuration | construct (global init, retain restore), `run_one_cycle`, `save_retain`, `online_change_module` |
| Debug state (`debug.rs`) | breakpoints, step mode, pause location | set breakpoints, `should_pause`, step over/in/out, resume |
| Online change (`online_change.rs`) | none (pure) | `analyze_change`, `migrate_locals`, `apply_online_change` |
| Retain store (`retain_store.rs`) | a file | capture, restore, save (temporary file and rename), load |

### Language pipeline

| component | state | operations |
|---|---|---|
| Analyser (`st-semantics`) | scopes while it walks a source | check units, statements, expressions, classes; report errors |
| Compiler (`st-compiler`), IR (`st-ir`) | the code, labels, slots and registers of the function being compiled | compile units, methods, statements, expressions, global initialisation |
| VM (`st-engine/src/vm.rs`) | see above | one instruction at a time, calls, instances, limits |

### Communication, servers, tools

| component | state | operations |
|---|---|---|
| Serial link, bus, transport (`st-comm-serial`) | the port, the list of devices under a lock, one bus thread per port, a receive buffer | open, register, poll each device in turn, transact with a deadline |
| Modbus RTU, Modbus TCP, UPP, simulated device blocks (`st-comm-*`) | fields of the block in the VM, a shared `IoState` (values read, values to write, connected, error), for TCP a thread and a connection per device | execute in the scan; poll: write batches, read batches, retry, reconnect |
| Local DAP server (`st-dap`) | request channel, deferred requests, the VM and its debug state, variable references | requests, resume with scan cycles in the same thread |
| Monitor server (`st-monitor`), CLI, deployment, language server, grammar | subscriptions; documents; processes | requests; archive and shell I/O; text queries |

Hard behaviours, in the order of what goes wrong when they do: one OS thread
serves commands from many tasks, runs the machine and is steered by a debugger
over a second channel; a debug session has two reader threads and one channel
for requests, events and disconnects; requests of the program API are chains of
awaits with time-outs; the program on disk is several files written one after
the other; the VM's tables are indexed by slots that an online change moves;
retained values pass through a file that may be saved at any moment; device
values pass between scan thread and I/O threads over lines that lose, damage and
delay answers; watchers read copies of the machine at moments of their own; a
debugger decides where to stop from a call stack, offsets and what it stopped at
before; a compiler falls back to slot 0 where it resolves nothing.
`PROJECT.json` lists them as hazards, each at its line with the properties that
would notice it.

## 2. Modules

| module | models | state | actions |
|---|---|---|---|
| `RuntimeManager` | `runtime_manager.rs`: API calls, command channel, `runtime_thread`, `run_cycle_loop`, `handle_debug_commands` | the shared `RuntimeState` (status, program, catalog, snapshot), the queue, each call's progress, the thread's position `pc`, the engine's module, call stack, step mode and breakpoints, the session and its channel | one per command taken at each place where the thread takes commands, per debug command, per end of a cycle (complete, halt, error), per end of a debug wait (command, closed channel, time-out) |
| `RuntimeLifecycle` | what a client of the status API may rely on | status, program, published variables | begin, up, change, pause, resume, end |
| `RemoteDebug` | `dap_proxy.rs` composed with `RuntimeManager`: connections compete for the single-session flag | the flag, each connection | accept, attach, clone of the stream (which may fail), relay, leave, close, besides all of `RuntimeManager` |
| `DapAttach` | `dap_attach_handler.rs`: one session in detail, against the engine's end of it | client, the handler's input channel, command and event queues, both threads, the handler's `is_paused` | client request or drop, event forwarding, each request of the main loop, `wait_for_engine_response`, the engine |
| `ProgramApi` | `api/program.rs` composed with `RuntimeManager`: requests step by step | the store's program, each request's step | upload, start, stop, restart, update, remove, split at every lock and await |
| `ProgramStore` | `program_store.rs`, the start handler and `auto_start_program` of `main.rs` | the files as processes see them and what of them has reached the medium, the program in memory, deployments under way | each write of `store_bundle`, a refused write, commit, removal, boot, start, auto-start, crash of the process, write-back by the system, power failure |
| `StValues` | values, types and conversions (`st-ir`, arithmetic of `vm.rs`) as operators | | |
| `StCompiler`, `StAnalyzer` | `compile.rs`; `analyze.rs`, `types.rs`, `scope.rs`: from a syntax tree to errors and code, as recursive operators that thread the state of the compiler or checker | | |
| `StMachine` | `vm.rs`: frames, registers, instances | call stack, globals, instances, retained locals, instruction count, status | global initialisation, start and end of a cycle, one action per group of instructions, errors and limits |
| `StReference`, `StLanguage` | what a source means by the language documentation; the pipeline compared with it | | |
| `LocalDebug` | `st-dap/src/server.rs` over `debug.rs` | channel, deferred requests, phase of the main thread, stack, debug state, breakpoints, variable references, what the client was told | client requests; receive, resume, iterate, execute, halt, complete a cycle, poll, sleep, deferred requests, limits |
| `FieldbusCodec` | the pure half of `st-comm-*`: layouts, batches, conversions, recognising an answer | | |
| `Fieldbus` | the threads: scan, bus, one per TCP device; lines and devices (external) | fields of the blocks, link, `IoState` of each device, threads, answers under way, connections, device memory | scan steps, registering, rounds, begin of a poll, send, receive, deadline, retry, reconnect, end of a poll, faults |
| `MonitorViews` | catalog, values, update lists and trees, OPC UA nodes and variants, as operators | | |
| `MonitorUpdates` | what a subscription's update has to tell, read from the declarations | | |
| `Monitoring` | runtime thread as watchers see it, WebSocket tasks, HTTP, OPC UA tasks | shared state, machine, command queue, per client subscriptions and push task, nodes and writes under way | start, stop, change, cycle, failure, halt; connect, subscribe, push, throttle, force; build, sync, write |
| `OnlineChange` | `online_change.rs` as operators | | |
| `HotSwap` | `apply_online_change` on a VM that holds state | module, locals, globals, function-block instances, each value abstracted to its owner | scan cycle, swap |
| `ScanEngine` | `engine.rs`, the variables of `vm.rs`, `retain_store.rs` | globals, retained locals, the frame, forces and forced slots, checkpoint counter, retain file and the save under way | construction with global initialisation and restore or a file that cannot be read, cycle, writes, halt and resume, force, unforce, online change, stop, the steps of a save, crash |
| `MC*` | constants for TLC | | |
| `DapAttachProofs`, `ProgramStoreProofs`, `HotSwapProofs`, `ScanEngineProofs`, `LocalDebugProofs`, `FieldbusProofs`, `MonitoringProofs` | theorems about the module of the name | | |
| `AgentProofs` | theorems about `RuntimeManager` and its two compositions, `RemoteDebug` and `ProgramApi` | | |

Names follow the source where they can. Every definition that models code is
listed under `map` in `PROJECT.json` with its lines; the comment
`mutant of X` marks a definition that changes X the way a bug would, and is used
only to show that a property can fail.

The handlers are split where another thread can get in between: at a channel
operation, a lock, an await or a file write. Between two such points a handler is
one action, with every state change it makes.

## 3. Runs

| run | instance | shows |
|---|---|---|
| `runtime` | one caller, two sessions, queues of one, fair | a paused machine is held by a session that was told; no debug state outlives its session; every waiting call is answered, a silent debugger is released, a queued Stop ends the run |
| `remote_debug` | one API task, two connections, fair | one debugger at a time, the connected one is the one served, one that leaves is let go for good, unless its handler could not clone the stream |
| `dap_session` | four requests, fair | handler and engine agree on paused, answers belong to their requests, a lost connection ends the session |
| `dap_drop_while_querying` | four requests | violation: see findings |
| `program_api` | one deployer, one debugger, two modules of which one replaces the other online, fair | the published program is the one that executes through every request; modules are swapped between cycles only; an update stops the machine only when the change is incompatible; every request ends; the life cycle is implemented |
| `program_store` | two deployments, crashes, power failures, refused writes | an acknowledged deployment survives a crash at once, a power failure once its files are written back; code is never older than what is reported, under the same conditions |
| `hot_swap` | all programs with up to three locals out of five declarations, three global layouts, a helper function in three positions | values are never mixed up; an accepted change keeps every plain local, and the state of an instance exactly if its key stays |
| `engine_values` | two programs of which one puts a global with a failing initializer in front of the other's, a REAL that may hold an integer, three values, one force at a time, a checkpoint every second cycle | forces hold but for the ways named; what each variable starts from after a restart |
| `language` | every pair of 22 statements as a program, and single sources for errors, recursion, instances, inheritance, bit strings, in-out arguments, nested accesses and every kind of store; three cycles | what runs is what the source means, except for a list of constructs that is exact; what is accepted is resolved or on a list; values stay in their types but where a store is known not to narrow |
| `local_debug` | two files, an IF, a loop of one statement, a call, nested instances; five requests at any moment | a step passes over nothing but repetitions of the statement it starts at, breakpoints stop where they were set but for repetitions of the statement stopped at last, a Pause stops the run, references name the right instance, every run ends or stops |
| `fieldbus` | ten plants: two slaves on a line, outputs of two kinds, a UPP pyrometer, a broadcast, both protocols on one line, TCP, simulated and wrongly configured devices, each with a bounded number of faults; fair | requests cover the profile, whose bit, byte order and word count are without effect; a connected device was read completely and from its own answers; outputs come from one scan and arrive; what was written is read back unless it was refused; the scan goes on unless it starves at the lock of the device list |
| `monitoring` | one WebSocket client, HTTP, OPC UA; four programs: three with catalogs of one size, of which one declares a variable with another type, and one with every kind of compound within every other; blocks that are called and blocks that never are; fair | every update tells exactly what is monitored of what was subscribed to; writes come back but for a list; nodes follow the program; updates keep coming |

Bounds. A queue of one slot already makes senders wait and commands arrive late; a
second slot only lengthens the delays (the proofs cover every capacity). Two sessions
are what a takeover needs, two modules what an online change and its refusal need. Four
requests let a query, its answer, a late event and a drop overlap. Two deployments, with
any number of crashes, power failures and write-backs between and within them, let one
be cut short after one that was acknowledged. `Checkpoint = 2` makes the counter wrap
and leaves cycles without a save; `MaxForces = 1`: each force is a key of its own in
every table, and the one that is there can be on the global that moves, on the local or
on the global a reference names (the proof has no bound). `language`: three cycles show
state that is kept, lost or initialised twice; `MaxCallDepth = 6` and `MaxInstructions =
260` are above what the terminating programs use and are reached by the others; integers
have their real widths up to 16 bits, and a day has 24 ticks so that times wrap; arrays
have one dimension. `local_debug`: five requests suffice to set a breakpoint, step,
continue, pause and inspect; two cycles to wrap around once. `fieldbus`: `maxFaults` of
a plant bounds lost, damaged and slow answers, refusals and broken connections together,
`MaxLate = 1` lets an answer arrive during the next request; values come from two
samples per type, and REALs are counted in ten-thousandths, so that rounding to
thousandths shows. `monitoring`: a broadcast of length one makes lag happen; one command
and one write under way are overtaken by the other sources; integers have 16 and 8
values, so that the unsigned range exceeds the signed one. Its settings are
alternatives: those with OPC UA writes, with a debugger and with forces are explored one
by one, not multiplied. Deadlock is not checked where the system may come to rest: after
a shutdown, when every client has left, when the bound on requests is used up, or when a
panic has ended the threads.

Fairness. The runtime thread is an OS thread whose waits all end by themselves
(an instruction limit per cycle, a 30-minute time-out in the debug wait), hence
weak fairness. The loop that drains a session's commands between cycles ends when
it finds the channel empty; strong fairness of that exit says that a client
across a network does not refill it for ever between two `try_recv`. `ProgramApi`
adds weak fairness for its tasks, which the executor polls, and strong
fairness for delivering a command into the bounded channel, whose waiters are
served in order. `DapAttach` assumes that its two threads and the engine's end run.
`LocalDebug` assumes that the main thread, which waits for
nothing but requests, runs. In `Fieldbus` scan, bus and TCP threads run, and a
device that is due again and again is polled. A `std::sync::Mutex` is not fair, and after
a round in which a device was polled the bus thread takes the list again at
once (`bus.rs:133-156`): a scan that waits to register is assumed to get the lock only if
the bus thread sleeps again and again, or has not started. That it never does, because
some device is due in every round, is the exception `Starved` of `ScanReturns` and
`OutputsArrive`. In `Monitoring` the runtime
thread and the push tasks run, and the synchronisation task, driven by a timer,
runs again and again. Nothing is assumed of clients: they may stop anywhere.

## 4. Proofs

Each theorem holds for every value of the constants that satisfies the named
assumptions of the module (`...Assumption`; TLC evaluates them in every run). The
pattern is the same everywhere: the property is not inductive, an invariant that
is says what each position of each thread and each message under way guarantees,
and it is preserved kind of step by kind of step. TLC checked every such
invariant on the run's instance before it was proved.

`AgentProofs` on `RuntimeManager`, for any sets of callers, sessions and modules, any
compatibility relation and any channel capacities:

- `TypeCorrect`: `Spec => []TypeOK`.
- `PausedIsHeldHolds`, `NoOrphanDebugStateHolds`: neither invariant is inductive,
  because each action sees only where the thread is. `ControlInv` adds what every
  position of the thread guarantees (`PositionInv`: between cycles the stack
  is empty; at a debug wait the VM is halted in Paused mode with a session that
  was told; without an engine there is no session) and what is published there
  (`PublishInv`). It is preserved action by action.
- `SwapBetweenCyclesHolds`: the action property, from the same invariant; only
  the poll between cycles changes the module of a live engine.
- `PublishedMatchesEngineHolds`: needs in addition `MetaInv`, that every command
  in the channel and every one about to be sent is a well-formed request, so that
  a Start or an online change carries the metadata of its module.
- `ImplementsLifecycle`: with status, program and catalog as the refinement
  mapping every step is a step of `RuntimeLifecycle` or leaves its view alone.
  Its fairness part is left to TLC (`FollowsLifecycle`).

`AgentProofs` on `RemoteDebug`, for any number of API tasks and connections:

- `RemoteKeepsRuntime`: a step of the composition is one of `RuntimeManager`, one
  that leaves it alone, or a hang-up, which touches only the session's channels; so
  the three invariants above survive whatever debug clients do.
- `OneDebuggerHolds`: `FlagInv` says that any two connections that hold the flag are
  the same, and that the flag is set exactly when one does.
- `ClientIsServedHolds`: `OpenInv`, that an open session is served or its attach
  command is still in the channel. The order of the channel matters: a later attach
  closes the session it replaces.

`DapAttachProofs`, for any number of requests of the client:

- `InSyncHolds`: `is_paused` lags behind the engine by what is in two channels.
  `SyncInv` knows four situations: the engine runs and nothing under way says
  otherwise; it is halted and the last signal under way is Stopped; it is halted, the
  handler knows and no signal or command to go on is under way; it is halted and the
  one command to go on is in its channel. `CountInv` bounds the requests.
- `FreshAnswersHold`: as long as no wait has timed out at most one query is under way
  and it bears the number of the request that waits (`OneQuery`, `Waiting`);
  `ClosingInv` says what a closed connection leaves behind in the handler's channel.

`AgentProofs` on `ProgramApi`, for any modules, compatibility relation and channel capacities:

- `DeployersKeepRuntime`, `DeployersSwapBetweenCycles`, for any number of deployers: what
  they do to the runtime is call it with a module and some metadata.
- `DeployerRefinesRuntime`: with one deployer (`OneClerk`) the metadata is the module's
  own, although start loads the two under separate locks and update keeps one of them
  across awaits (`FreshInv`). Then every behaviour is one of `RuntimeManager`, and
  `DeployerPublishesEngine` and `DeployerFollowsLifecycle` follow from its theorems. With
  two deployers it is false (findings).
- `StopsOnlyIncompatibleHolds`: also with one deployer. Between the refusal of a change
  and the Stop of its fallback the engine runs on and takes commands. `ChangeInv` shows
  that none of them can start or change a module: behind an online change no such
  command is in the channel, because the one client that sends them waits for
  the reply, and an update that fell back has nothing else under way.

`ProgramStoreProofs`, for any number of deployments:

- `StoreTypeCorrect`: `Spec => []TypeOK`, split into `Flags` (progress and
  Booleans) and `Data` (what files, store and engine hold), because the
  provers for the two differ.
- `CodeNotBehindMetaHolds`, `AckedSurvivesCrashHolds`: the first is not inductive,
  because it speaks of what was loaded and not of what a reboot would load.
  `OrderInv` says the same of the files, with how far the current bundle has got
  (the bytecode is new once the metadata is being written), and that an
  acknowledged deployment stays on disk until the next one begins; `FilesInv`
  bounds what a file, and the medium beneath it, can hold. Nothing is synced
  (`program_store.rs:178-194`), so both properties hold up to power failures that
  come before the system has written bytecode and metadata back: `lost` says that
  such a failure has mixed them, `acked.intact` ends with it. Both also assume that
  the disk takes what is written: `store_bundle` ignores failures to write bytecode
  and metadata.

`HotSwapProofs`, for any set of modules whose layouts declare distinct names:

- `VectorsFitModule`: `Spec => []TypeOK`; globals and locals have the length and
  the declared values of the VM's module after any sequence of cycles and changes
  (`MigrateStays`: what is migrated is a value of the new layout).
- `NoMixUpHolds`: inductive with the lemma that `migrate_locals` fills a slot
  from the slot of the same name and type or with the default.
- `ChangeKeepsLocalsHolds`: needs that the locals vector fits the module's
  layout, which is `VectorsFitModule`; then every slot that `analyze_change`
  insists on keeping is found by the migration. Of instances it says no more than is
  true: the table of instances is not migrated, so the state is kept exactly if the
  program's index and the slot stay, and otherwise is what the new key held.

`ScanEngineProofs`, for any programs the compiler can produce (`ProgramsAssumption`:
distinct names, initializers of their type), any values, any checkpoint interval:

- `ForcesHoldAlways`: `ForceInv` relates the table of forces to the forced slots of the
  module that runs, and each forced slot to its value. An online change migrates
  values by name and leaves forced slots by number, so a force that a change has moved
  is lost: the property exempts it (`moved`, until it is forced anew), a global
  written through a reference, and the locals after a cycle that the debugger resumed.
  Nothing is supposed of the changes themselves.
- `RetainSurvivesAlways`: exact for each variable (`WarmValue`). `SaveInv` and `FileInv`
  follow a value from the snapshot through the temporary file and the rename, with a crash in
  any place; `RestoreInv` says what each variable holds until the first cycle begins;
  `LateInv`, that until then only a stop saves. A variable is restored if the file can be
  read and the value is of the variant of the declared type (`is_compatible`); the others
  have their initializers or, where a restored local makes the VM skip the preamble,
  the defaults of their types.

`LocalDebugProofs`, for any compiled program (`FunctionsAssumption`: calls and jumps stay
within the program), any text (`PositionsAssumption`: an instruction lies in the file of
its function), any limits and any number of requests. `AdapterInv` holds the types, that
every frame of the stack is at an instruction of its function, and what may be in the
channel and among the deferred requests:

- `StepSkipsNothingHolds`: the property collects the statements a step begins without
  stopping (`seen.passed`) and allows only those in `StepPasses`. `Following` says that the debug
  state carries out the client's step as asked or, after the cycle ended on the way, as a
  step into the first statement of the next; `StepInv` adds what holds between two cycles.
- `BreakpointsStopHolds`: `BreakInv` says that every offset with a breakpoint stems from
  a line the client has asked for, and ties the offset that the debugger passes over
  (`last_breakpoint_offset`) to the last breakpoint stop, `seen.hit`: the two are equal,
  or the first has been cleared because execution is at another statement;
  `LineBreakpoint` and `FrameLine` are inverse to each other over the concatenation of
  library and files (`BreakpointShown`), which needs sums over lines.
- `PauseStopsRunHolds`: `PauseInv`, where a Pause can be from the moment it is taken.
- `RefsNameInstancesHolds`: `InstInv`, that instances and references were made for the block
  their slot declares.

`FieldbusProofs`, for any plant (`WorldsAssumption`: any number of devices of any
protocol, with any profile that a YAML file can state, in any order of the program; any
number of faults) and any values the program assigns (`SamplesAssumption`):

- `TypeInvariant`: `Spec => []TypeInv`. Beyond types it says to whom things belong: what
  is on the line, in the shared state and among the requests left of a poll are
  frames, values and requests of the device that the thread is polling.
- `ProfileIsServed`: from `TypeInv` and from lemmas on the batches, which are the heart of
  it: a batch ends where the next one starts (`BatchStarts`, `BatchEnd`), so
  that the requests of a poll cover every register once, each under its own address and
  function code, and driver and compiler number the same slots. `OptionsIgnored` says
  what of the profile is not served: a register is read as one plain big-endian word
  whatever `bit`, `byte_order` and `word_count` say, and a field of several words lacks
  all but one of each element.
- `OneScanOutputs`: `ScanInv`. What the program has assigned and what is pending come each from one
  scan; during a poll a register holds the output found at its start, or a request
  that is left still sets it, or a write failed, or an answer was not the poll's own
  (`Settled`). The property supposes that no two outputs share a register.
- `ConnectedIsRead`: `ReadInv`. Every input is read already, from an answer about that
  register or command, or a request left asks for it, or the poll has failed; every frame on
  the serial line stems from a request of a device on it, and the stream of a TCP device is
  empty between requests as long as none has failed. On a serial line the property supposes
  that slaves and answers can be told apart by what the parsers compare (`SlavesApart`,
  `AnswersApart`) and that a field's type can hold what its decoder yields (`Decodable`);
  over TCP it needs none of this.
- `ReadsBack`, an action property: `BackInv`. The requests left of a UPP poll are
  ordered, writes before reads; for each field found written (`OnItsWay`) the write is still
  to be made, or the device holds what was encoded, or has refused it, and the read is still
  to be made or has brought back what the device holds. That no later request undoes it needs
  that the field is the only output with its command (`Settable`). A refusal is answered "no",
  which the driver takes for success: such a field shows the device's old value. What comes
  back otherwise is `RoundTrip`: what `decode` makes of an answer is inverse to what
  `build_write_command` made of the value, for each combination of command, decoder and type
  that suits (`Suited`), for a REAL after rounding to thousandths.

`MonitoringProofs`, for any programs that declare a name once and the blocks they use
(`DeclAssumption`), any writes of values within their types (`WritesAssumption`), any
integer widths (`WidthsAssumption`), any forces of other clients and any lengths of the
queues:

- `WritesComeBack`: `Spec => []WritesReadBack`. A write passes through five places, each
  of which may be stale when the next one reads it; the property sees only the last.
  `Inv` follows the value through them: a force under way, in a task or in the command
  queue, carries the text of what was written (`Commands`); a forced value of the engine,
  and of the copy made after a cycle, is that text parsed (`Traced`); the copy's blocks
  have been called if the program calls them; a node shows what was written or one of the
  exceptions (`Node`). The step that updates the nodes rests on two lemmas. `WriteComesBack`:
  text, parsed value, narrowed value, text again and variant again are
  inverse to each other for each of the types, but for the values in `Distorted`.
  `VariableIs`: whichever of the snapshot's ways produces a variable that force_variable
  would find, its text is that of the forced value with the width of its type (`ShownAs`);
  a compound that is told as INT holds an integer of that width (`IntFits`). For fields of
  blocks (`FieldIs`) this needs that a path of one segment leads to a field of the block
  itself (`PathIs`, `OwnField`), and that the field is within the block's state, which
  the byte offsets of a compiled block with an array leave.

Induction over data is out of the provers' reach in general. Where a fact about all
numbers was needed (sums of lengths, the line of an offset) it is proved from a least
counterexample, `LeastNumber`, a consequence of the well-foundedness of the natural
numbers.

Attempting the proofs changed the models in places: the history of `LocalDebug` forgot
the last stop when a run was resumed at an instruction without a position, so that
`BreakpointsStop` was false of programs larger than those of the run; offset 0 is never
a breakpoint (`debug.rs:151`); the sets of layouts in `ScanEngine` were those
of the instance and are now described by the assumption above. In `Fieldbus`,
`OutputsFromOneScan` and `ReadBack` were false of profiles that the run does not have (two
outputs on one register, two fields with one command, a decoder that does not
suit): they now name what they suppose. A frame of the other protocol on
a shared line was not modelled; it is now, with a plant for it. In `Monitoring`,
`WritesReadBack` was false in three places that the run had not visited: a variable
whose type an online change has altered, a field of a block that is never called, and a
string that reads as an integer beyond 64 bits. The property names them, and the run
has settings for them. Order and offsets
of registers are defined without folds, and alternatives of a CASE that
overlapped exclude each other.

Only model-checked:

- all liveness properties (`EveryCallAnswered`, `RequestsEnd`, `UpdatesKeepComing` and the
  others): they rest on fairness, which the proof system does not treat;
- the properties of `StLanguage`, and `UpdateShowsProgram` of `MonitorUpdates`: analyser,
  compiler, reference semantics and what an update has to tell are recursive operators
  over trees, for which neither the definitions nor an induction is available to the
  provers.

## 5. Findings

With a run (`findings` in `PROJECT.json` quotes the line it contradicts):

- `NoOrphanedPause`: a client that drops while the handler waits for the engine
  has its disconnect swallowed, and the machine stays paused.

Deviations met while modelling, which the models reproduce and the passing
properties exclude by name or do not reach; they have no run of their own.

Agent and engine:

- Requests that arrive while the debug handler waits for the engine are dropped
  (`dap_attach_handler.rs:801`).
- `DebugAttach` can be read while another session is paused
  (`runtime_manager.rs:812`): the flag is free before the runtime thread has read
  the old session's Disconnect.
- `restart` does not stop a program that is paused in the debugger
  (`api/program.rs:201`); an `update` that gives up leaves its Stop in the channel
  (`api/program.rs:351`). With two deployers a start can pair one program's
  code with the other's metadata (`api/program.rs:61`).
- A debug handler that cannot clone its stream returns after a successful attach without
  sending Disconnect (`dap_attach_handler.rs:234-240`), and between cycles a closed
  channel is ignored (`runtime_manager.rs:726`): the session stays attached
  until another one attaches or the run ends.
- Nothing is synced (`program_store.rs:178-194`): a power failure may lose a deployment that
  was acknowledged, or keep its metadata and lose its code.
- At boot every device profile becomes a simulated device, also those for which
  the API's start builds a real one (`main.rs:184`; `main.rs:129` says "mirrors").
- A removed program is back after a reboot (`program_store.rs:248`); a release
  deployment is given the sources an earlier one left behind
  (`program_store.rs:88`).
- `swap_module` leaves function-block instances under keys made of function index
  and slot: an accepted change that moves either loses an instance's state or
  hands it to a neighbour (`vm.rs:463`; `online_change.rs:1` says "without losing
  state"). It also leaves a force on the old slot of a moved global: the global changes
  freely, and the variable that is there now is blocked (`vm.rs:463`).
- A retained value whose variant is not that of the declared type, as a REAL that was
  assigned an integer, is not restored (`retain_store.rs:481-491`). A file that cannot be
  read restores nothing, which is only logged (`engine.rs:130, 178`); a REAL that is not
  finite makes such a file, since it is written as null. A power failure may leave
  an older or an unreadable one.
- A restore fills locals that are not retained with type defaults, and the VM then
  skips their initializers (`vm.rs:144`, `docs/src/language/variables.md:208`).
- A cycle resumed by the debugger does not apply forces to locals
  (`engine.rs:256`); a write through a reference ignores a force (`vm.rs:1958`).
- Stop while a cycle is halted saves the globals of half a cycle with the locals of
  the one before (`runtime_manager.rs:484`).
- Variables that are PERSISTENT without RETAIN are saved and never restored
  (`engine.rs:166`); a failed global initializer leaves a frame from which the
  first cycle goes on initialising, over restored values (`engine.rs:159`).
- The documentation says that adding a variable needs a restart; it is applied
  online (`online_change.rs:181`).

Monitoring:

- A push task ends for good at the first lag of the broadcast
  (`monitor_ws.rs:58`); the documentation promises updates after each cycle.
- Cycle number and values are written under separate locks and can differ by one.
- OPC UA writes answer Good even if the force fails, and two writes can be applied
  in reverse; nodes stay stale when the catalog changes between the building of the
  nodes and the start of their synchronisation (`value_sync.rs:31`).
- Array elements, and fields deeper than one level, accept a force without effect. So does
  a STRUCT or array that was never stored to, which shows defaults (`vm.rs:310, 437`).
- Arrays in native blocks are numbered from 0 whatever their bounds. In a compiled block
  an array's slot keeps the size of the integer that stands in for it until its type is known,
  eight bytes (`compile.rs:590-606`; line 762 replaces the type alone). The block then counts
  as one whose arrays are expanded (`st-ir/src/lib.rs:525`), and every field is read
  and forced at its byte offset (`vm.rs:417, 779`), although the state has one value per slot
  (`vm.rs:2186`): eight elements are told whatever the bounds, the first being the array's
  VOID and the others the variables that follow it; every field behind one that takes more
  than a byte is VOID or another variable's. force_variable also writes at the
  slot's number (`vm.rs:321-326`).
- Globals, fields of STRUCTs and array elements of a compound type stay the integer that
  stood in for them and are shown as INT; a STRUCT within a block is shown as VOID.
- Values that do not come back from a write: unsigned beyond the signed range; strings
  that read as a Boolean, as a real, as an integer beyond 64 bits, or as one with a sign or
  zeros in front (`007` and `+5` come back as `7` and `5`, `runtime_manager.rs:1067`);
  strings for a variable that is no STRING; reals beyond six decimals; and
  whatever is written to a field that is out of reach as above, or of a block that is never
  called, which is shown as VOID.
- The WebSocket's unforce does not look at the status, the HTTP API's does. In the
  local monitor server the set of forced variables is emptied when taken, so that
  unforce has no effect.

Devices:

- The state of a native block belongs to its type, not to the instance
  (`docs`: program-structure.md:129). `SerialLink.connected` latches.
- Registering waits for the bus thread's whole round (`bus.rs:135`), though execute is
  documented never to block, and may wait for ever: the lock is not fair, and the thread
  takes it again at once after a round that polled (`bus.rs:133-156`). Default outputs
  can be written before the program has assigned any.
- A late answer is taken for the next one when slave and function agree (RTU), and
  after two time-outs also over TCP, where transaction ids are not compared; one
  with more registers than asked for ends the thread and poisons its locks.
- Modbus in-out fields: an assignment of one scan is lost, a change on the device
  oscillates. UPP: a failed write is not tried again, an output equal to the default is
  never written, several commands that can be written cannot be read and fail to bind.
  Simulated and UPP drivers count fields, not elements. REALs are rounded to thousandths
  when written (`st-comm-upp/src/device_fb.rs:467-476`), and a write that the device
  answers with "no" is taken for done (`parser.rs:85`, `client.rs:157`,
  `device_fb.rs:360`).
- `bit`, `word_count` and `byte_order` of a profile are ignored
  (`docs/src/communication/device-profiles.md:112-117` describes them); conversion to a
  register truncates; batches are not split at the protocol's maximum; a retry over
  TCP sends a write twice.
- The shipped pyrometer profile reads `dw` and `aw` with `u16_dec`
  (`profiles/impac_igar_6_smart.yaml:143`: "runtime widens to u16"), but that decoder
  takes exactly four digits (`parser.rs:110`) and the answers have two, so that no poll
  of it ends without an error and the device is never reported as connected.

Local debugger:

- After the first cycle a run goes on with the first PROGRAM, not with the
  configured entry point; global initialisation is not run.
- Statements are told by their offsets: a loop of one statement is run through by a step
  from it and by its own breakpoint, and a breakpoint in a program whose cycle executes one
  statement hits once (`vscode-tutorial.md:321-322, 378` and `commands.md:274, 276` say "Execute
  one statement" and "until the breakpoint is hit again (next scan cycle)"). A step that
  stops on a line with a breakpoint stops there again on Continue; Step Over after a pause
  between cycles runs a whole cycle.
- Pause and Disconnect are not seen in step modes; a Disconnect during the sleep waits
  for the end of the run; a resume request that was deferred is answered and not run.
- Struct and array references are not cleared on resume; outer frames show the line
  after the call; an unknown reference shows the locals.

Language (`Deviates`, `Unresolvable`, `LeftOut` and `Unnarrowed` in `StLanguage` list
what the properties of `language` except):

- Statements: FOR with a negative BY never runs, with a global as its variable loses both
  stores (`compile.rs:1021, 1050`); RETURN in a function or method yields 0; arguments
  are bound by position, also named ones and where an output is declared before an input;
  VAR_IN_OUT is not written back; initial values of function-block variables do not
  apply; instances nested three deep share state (`vm.rs:2260`).
- Values: AND, OR, XOR and NOT are Boolean also on bit strings
  (`docs/src/language/expressions.md:99-129`); all strings compare equal; TO_REAL(TRUE) is
  0.0; a REAL assigned an integer keeps the integer, so that r / 2 divides integers;
  arguments, fields, array elements and stores through a reference are not narrowed.
- Accesses: what follows `a.b` or `arr[i]` is dropped without a word, as in `a.b.c`,
  `arr[i].f` or `a.b.%X0` (`compile.rs:1116-1160`). Not modelled: of several indices the first
  is used, and `p^[i]` is `p^`.
- Accepted although unsupported: global arrays and instances, a field of a block
  declared later (resolves to field 0), a signed argument for an unsigned
  parameter, an assignment to a CONSTANT, an undeclared type. Recursion of a
  function into itself is rejected, mutual recursion is not; cyclic EXTENDS loops.

## 6. Not modelled

- Watchdog: no code path of the agent spawns it.
- Singleton: two calls to `flock` and `unlink`, whose race is the operating
  system's to decide; a model would state the system call, not this code.
- Authentication, configuration, web pages, argument handling: no state.
- Deployment: archives and remote shell commands; what happens to a bundle on the
  target is `ProgramStore`.
- Grammar and lowering: the parser is generated, and lowering copies its tree node
  by node; the models start from the syntax tree.
- Language server: documents are replaced whole at every change, and answers are
  text searches in them.
- Cycle statistics, message texts, logging.
- In the language: structs, arrays of more dimensions, mathematical functions,
  warnings. In the retain store: fields of structs and blocks. In the local debugger:
  expressions other than the name of an instance, console commands for forcing and
  watching, and the monitor server it hosts.

What `RuntimeManager` leaves to assumption: a debug client that keeps the command
channel full would keep the thread in its draining loop (`runtime_manager.rs:726`);
the fairness above excludes it.

## 7. Plan

1. Structs and structured retain in `ScanEngine`.
2. Two deployers in `ProgramApi`, once the code says what they may expect.
