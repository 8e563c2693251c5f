# A TLA+ verification of envsensord

`envsensord` samples a BME280 sensor over I2C and serves temperature, pressure and
humidity to TCP clients. This directory holds TLA+ models of its code, the TLC instances
that check them, and TLAPS proofs of what matters most. Paths below are relative to the
repository. Each definition that stands for code is mapped to its lines in `PROJECT.json`.

    tlc -workers 2 -config MCServer.cfg MCServer
    tlapm ThreadPoolProofs.tla

## 1. Inventory

| Component | State | Operations | What makes it hard | What makes it correct |
|---|---|---|---|---|
| Daemon life cycle (`src/server.cpp`: `main`, `acquireInstanceLock`) | the lock on `/run/envsensord.lock`, the bus, the port | parse, lock, initialise, listen, serve; exit; be killed | several processes; a kill at any point; the kernel releases resources one by one | one instance works at a time; an instance decides soon |
| Accept loop and handler (`src/server.cpp`, class `Server` of `src/my_socket_lib.cpp`) | descriptors, the backlog, each worker's place in the handler | accept, enqueue; receive, parse, read the cache, respond, close | descriptor numbers are reused at once; clients vanish, reset or keep silent; descriptors run out; SIGPIPE | each descriptor has one owner and is closed once; the right answer to the right client; everyone is served |
| Thread pool (`inc/ThreadPool.hpp`) | queue, mutex, condition variable, `stop`, the workers | construct, `enqueue`, `shutdown`, destroy; the worker loop | notification after the unlock, spurious wake-ups, stop against sleep, drain on exit | each task once, first in first out; no lost wake-up; shutdown returns with the queue drained |
| Sensor manager (`src/BME280SensorManager.cpp`) | the cached sample, its validity, `m_initialized`, the worker thread and its stop token | `init`, `read`, the acquisition worker, destruction | readers against the writer; sensor failure and recovery; stop during the sleep; order of destruction | readers see whole samples, or a failure while the sensor fails; the destructor returns and nothing is used after it |
| BME280 driver (`src/BME280.cpp`) | `m_initialized`, `m_calib`, `m_tFine`, `m_mutex` | `init` (id, reset, calibration, configuration), four reads | the chip acts between two transfers and may lose its supply; `m_tFine` is shared; polling | a reading is of one measurement that was made; coefficients are those of the chip; calls return |
| I2C bus (`src/I2CBus.cpp`) | `m_fd`, `m_mutex` | `init`, `transfer`, `deinit` | any transfer may fail, before or after it reached the chip | as part of the driver |
| SSNP protocol (`src/SSNP.cpp`) | request flags on both sides | `parseRequest`, `buildResponse`; `buildRequest`, `parseResponse` | TCP cuts messages and `recv` is called once | exactly the grammar is accepted; a beginning is never taken for a request; responses are read back |
| Command-line client (`src/client.cpp`, class `Client`) | one socket | resolve, connect, send, receive, parse, disconnect | several addresses; cut responses; the socket is closed twice; no timeout | one socket at a time; its status tells an answer from a failure |
| Command-line parsers (`src/CommandLineParser.cpp`) | the configuration | `parse` of the daemon and of the client | `std::stoi` on arbitrary text; early exits; swallowed arguments | values in range; the first decisive option decides; the last setting wins |
| Python client (`envSensorClient.py`) | one socket | the same in Python | exceptions, `finally` | its status tells an answer from a failure |
| Stress script (`test_server.sh`) | pids, counts, logs | launch all, wait for each, report, verdict | clients run concurrently; exit statuses are 8 bits wide; logs against statuses | passes exactly when no client failed; shows the failed ones; ends |
| Loggers, build files | - | - | - | - |

The components interact as follows. `main` takes the instance lock, initialises the
sensor manager, and so the driver, the bus and the chip, binds the port, builds the pool and
loops in `accept`. Each accepted descriptor goes through the pool's queue to one worker.
Its handler receives a request, parses it, copies the manager's cache under
`m_cacheMutex`, answers and closes the descriptor. The manager's own thread fills that cache
through the driver once per interval. Handlers never touch the driver; the only data shared
between threads are the queue, the cache, the descriptor table and, inside
the driver, `m_tFine` and `m_calib`.

The steps that are hard to test are listed as hazards in `PROJECT.json`, each at its line,
with the properties that would catch it going wrong.

## 2. Plan

In order of importance to the system. All of it is done.

1. `ThreadPool`, implementing `TaskPool`; `ThreadPoolProofs`.
2. `SensorManager`, implementing `SampleCache`; `SensorManagerProofs`.
3. `Server`, composed of `TaskPool` and `SampleCache` rather than their implementations,
   so that its state space holds descriptors and clients; `ServerProofs`.
4. `Bme280`, driver and chip; `Bme280Proofs`.
5. `Ssnp`, the texts; `SsnpProofs`.
6. `Daemon`, several processes; `DaemonProofs`.
7. `CommandLine`, both parsers and what `main` makes of their result; `CommandLineProofs`.
8. `Client`, the two client programs as processes, and `StressTest`, the script that runs them;
   `StressTestProofs` about both.

What could come next: descriptor numbers in `Client` and `Daemon`, so that a second close of a
number can be seen to hit something else.

## 3. The models

**`TaskPool`** is what a user of the pool may rely on: a queue, the task each worker runs,
and stop. **`ThreadPool`** is the code: one action per critical section, call on the
condition variable or thread operation. `WorkerDoze` and `WorkerSleep` are the two halves of
`condition.wait`: the predicate is false, then the mutex is released and the worker sleeps, in
one step. `EnqueuePush` and `NotifyOne` are apart because the code unlocks in between.
`done`, `fresh` and `late` are history. `Pool` in `ThreadPool` is the refinement mapping: a
task is queued while it is in `tasks`, running while a worker's `pc` is `"run"`.

**`SampleCache`** is an atomic register of samples. **`SensorManager`** has the thread that owns
the manager, the acquisition worker and any number of readers. A `BME280Data` is copied in two
steps, so that a torn copy can be seen; a sample is the number of the sensor's conversion.
`link` is the sensor: every read of it succeeds, fails, or may do either ("flaky", which is also what a
sensor is whose measurements now and then look skipped, see `Bme280`). `WorkerTest` and `WorkerSleep` are
apart: a stop can be requested between the loop's test and the sleep, and `wait_for`, which has the stop
token, then does not sleep. In the refinement a sample is in
the register as soon as its writer holds `m_cacheMutex`, and a `read()` takes effect when its
thread gets the mutex. `readAt` is never read by the code and is left out.

**`Server`** has the accept loop, the workers in `handleClientCallback`, the kernel's
descriptor table and backlog, and the clients. `accept` takes the lowest free descriptor, as
POSIX has it. Without a free descriptor it fails with the connection still queued; the
loop's turn then changes nothing, so it is a stuttering step. `Malformed` is any
text `parseRequest` refuses (`Ssnp` says which). `recv` is called once and may give the whole text or only its
first piece (`Pieces`): a piece of a request is no request, as `NoPartialRequest` says of `Ssnp`, but a
piece of another text may be one. `unread` is what is left for good. `asOf` and `outage` are history. A client may close,
then be reset: `send` on such a connection raises SIGPIPE, and the process ends (`Killed`).
The process is otherwise never stopped: `main` does not leave its loop.

**`Bme280`** has one action per I2C transfer or per computation between two transfers. The
chip may finish copying its coefficients, measure or lose its supply between any two of
them, and a failed write may have reached it. A value computed from a measurement is
represented by the number of that measurement, so `out.tFine # out.m` is a pressure
compensated with the wrong temperature. `MaxMeasure` numbers wrap around. `lost` is history: whether
the supply has failed since `init` was entered, and whether while the coefficients were being read,
which is the only time a failure can leave garbage in `m_calib` that nobody notices. A measurement is
`marked` when one of its own values is the one that marks a skipped channel; the driver then refuses it (`Skipped`).

**`Ssnp`** is one exchange: a request by `client.cpp`, or any text up to `MaxText` symbols
typed by another client; what one `recv` gives of it; the server's parse and its response;
what one `recv` gives of that; the client's parse. Texts are sequences of symbols, where the
name of a field is one symbol and numbers and units are several, so that a cut can fall inside them. Numbers
and timestamps are any texts of digits (`Numbers`, `Timestamps`); a sample is chosen when the server answers, and
a sensor that has failed leaves a valid request without an answer.
`std::getline` is `Starts`, where a token begins, and `Token`, what it is from there: positions in the text
rather than a loop over it, which is what the proofs can reason about; `Behind` is what is left of a text when a
token is read. `Header` is what both sides write.

**`Daemon`** has several processes that start, fail at every stage of `main`, serve, are
killed and start again. The kernel closes the lock, the bus and the socket in the order of
their descriptors.

**`CommandLine`** is one turn of the `getopt_long` loop at a time, for either program, on any list of
words. A word is a record of what it is as an option, as the argument of the option before it and as a
number: `--port` may be the argument of `--device`. `Number`, `Text`, `Show` and `Ask` are the four
kinds of cases in the switch; `Main` is what follows in `main` until the work starts. `getopt_long`
itself is external (`Here`, `AtEnd`, `Getopt`). The properties say what a
command line means without the loop, from the places of its words (`Argument`, `IsOption`, `Outcome`).

**`Client`** has the client processes, each of `client.cpp` on the class `Client` or of
`envSensorClient.py`: its socket (`fd` is `"stale"` when the number of a closed socket is kept), what
the server's end has done, and what the process leaves behind, its status and the two marks of its log
that the script looks for. What a cut response leads to is taken from `Ssnp`: success, refusal or an
exception. A client's `send` can not raise SIGPIPE: its one request is the first thing it sends, and an
earlier reset is reported as an error. **`StressTest`** EXTENDS it with `test_server.sh`: one action per
launch, per `wait` and per report, for one or both kinds of client, each possibly absent.

The `MC*` modules are what TLC runs (`MCServer` adds the symmetry set); the `.cfg` files give the constants.
Definitions marked "Mutant" in the modules are plausible bugs of the code; none is
part of a specification, and each property is violated when one of them replaces the definition it varies.

## 4. The runs

| Run | Shows | Bounds, and why they are enough |
|---|---|---|
| `pool` | `ExactlyOnce`, `NoLostWakeup`, `NoSleepPastStop`, `DrainedAtReturn`; `EventuallyRun`, `ShutdownReturns`; `ThreadPool` implements `TaskPool` with its fairness | 3 workers, 2 users, 3 tasks, 1 spurious wake-up: one worker can sleep, one be about to, one steal the other's task |
| `manager` | `Untorn`, `NoUseAfterDestroy`; `StopReturns` though the interval may never end; `DeadSensorNoticed`, `RecoverySeen`; `SensorManager` implements `SampleCache` with its fairness | 2 readers, 2 conversions: an old sample, a new one and none |
| `server` | `FdOwned`, `RightReply`, `NoGroundlessRefusal`, with requests that arrive whole or in pieces | 2 clients, 2 workers, 2 descriptors, 2 requests, 2 refreshes: an answer can be another client's, or from an older or newer sample, and a number that is closed can be handed out again |
| `server_exhausted` | `Served` | 2 clients, 2 workers, 1 descriptor: `accept` fails while the other connection is served |
| `driver` | `ConsistentReading`, `NoPhantomReading`, `CalibrationSound`; `FirstReadValid`, `CallsReturn` | 3 users, 3 measurements, 2 supply failures, the code's 5 polls |
| `ssnp` | `AcceptsGrammar`, `NoPartialRequest`, `RoundTrip` | texts of up to 5 symbols, which hold three fields and two commas, or two fields, a comma and the end; the client's own requests are longer, and each is cut everywhere; numbers of three and of four digits in every combination, one timestamp |
| `ssnp_cut` | **violated**: `SuffixRemoved`, see below | no texts but those of `client.cpp` |
| `daemon` | `SingleInstance`; `StartDecides` | 3 processes, 2 ports: a holder, a contender and one that is closing |
| `command_line` | `InRange`, `FirstDecides`, `SettingsAsWritten` | 4 words: an option and its argument twice, so that one setting overrides another and an argument is swallowed on either side; numbers at and beyond each limit, text that is no number |
| `command_line_device` | **violated**: `UsageDevice`, see below | as above |
| `stress` | `OneSocket`, `ExitTells`, `Verdict`; `Finishes` | 2 clients per test, 2 addresses: one client fails while the other is served, in the first test or the second |
| `stress_shown` | **violated**: `ShowsEveryFailure`, see below | as above |

Each passing run but `ssnp` has between 25 thousand and 2.5 million states; the texts of `Ssnp` have
no type worth stating, and the properties of `CommandLine` say more of each of its variables. `TypeOK` is checked for every other module; for `Server` by
`server_exhausted`.

Symmetry is used in `server` only, over clients, workers and requests, which the module never
orders and no liveness property is about. Descriptors are ordered and are not a symmetry set.

`Server` may stop, so its runs do not check for deadlock: no client has to connect, and
SIGPIPE ends the process. Everywhere else deadlock is checked; `ThreadPool` and `SensorManager` end in
a `Gone` step, `Ssnp` and `CommandLine` in `Done`, `StressTest` in `Over`.

**Fairness.** Threads that can run do run (weak fairness). In `SensorManager` taking
`m_cacheMutex` is strongly fair: a thread is not passed over for ever at a mutex that is free
again and again, and strong fairness says no more than that. `Spec` says nothing about the end
of the update interval: it may never end. `DeadSensorNoticed` and `RecoverySeen` have
`IntervalsEnd` as their premise. In `TaskPool` and `ThreadPool`, `workerFunction`
returns; in `Server` that is discharged as far as the code allows: `recv` has no timeout, so
`Served` assumes that a client that has connected sends something or hangs up. Clients, users,
sensor samples, spurious wake-ups and kills are never obliged to happen. The chip measures
once it is in normal mode, but may take for ever to copy its coefficients. In `StressTest` clients
and script run, and the server ends every connection that waits for it: a client has no timeout, so
without that `Finishes` fails. `CommandLine` is sequential and has no liveness property: each turn consumes a word.

**Findings.** 1. `src/SSNP.cpp:241` says that the client removes the suffix `C` and converts the
rest, and lines 249 and 257 say so for `hPa` and `%`. The code removes the last one or three
characters of the token whatever they are. `Client::receive_data` calls `recv` once, so when
a response arrives cut inside its last value, digits are removed in place of the unit, and a
shortened value is returned with result 0. `ssnp_cut` gives the exchange.

2. The daemon's usage text (`src/CommandLineParser.cpp:94`) and `README.md:50` give `/dev/i2c-1` as the
default of `--device`; the code opens `/dev/i2c-2` (`inc/BME280.hpp:21`). `command_line_device` shows it
with an empty command line.

3. `README.md:148` says that the stress script displays the outputs of failed clients. It shows the logs
that hold neither of two marks (`test_server.sh:133`), and the Python client prints one of them from its
`finally` clause (`envSensorClient.py:82`), on failure too: the log of a Python client that
could not connect is never shown.

Two more remarks, without a run of their own, because the models only name them. `readRawData` returns
`-EAGAIN` with the comment "no measurement available yet" (`src/BME280.cpp:365`) also for a measurement one of
whose raw values happens to be `0x80000` or `0x8000`, which is the middle of the humidity's range: the manager
drops its sample until the next interval, and a daemon whose first measurement is such a one does not start.
`FirstReadValid` has this as its one exception besides the supply. And a well-formed request that TCP
delivers in two pieces is refused with the sensor fine (`src/my_socket_lib.cpp:117`, `src/server.cpp:59`):
that is the case `unread[c] = "rest"` of `NoGroundlessRefusal`.

`Verdict` has a limit that the model makes explicit: `run_test` returns the number of failures as an
exit status (`test_server.sh:142`), so it is stated for fewer than 256 clients.

## 5. The proofs

All hold for any number of threads, tasks, readers and samples, from the `ASSUME` of each module:
sets of threads are disjoint, `None` is none of them, counts are natural numbers.

**`ThreadPoolProofs`.** `TypeOK`, `MutualExclusion`, `ExactlyOnce`, `NoSleepPastStop`, `DrainedAtReturn`,
`NoLostWakeup`, and that the pool implements `TaskPool`, fairness aside. The properties
are not inductive by themselves: that a worker falls asleep only when nothing is to do needs
`DozeKnows` (a worker that found the queue empty still holds the mutex), draining needs `ExitKnows`
(a worker has left only on an empty queue, and what is queued since is late) and `JoinedDone`, and the order
of the shutdown needs `StopStages`. `NoLostWakeup` adds a count of sleepers, wakers and
queued tasks on top, with the lemmas on cardinality it rests on. `ExactlyOnce` is inductive given the types: the
tasks are split into those not submitted, held by a thread, queued and done, and the four steps that
move a task each take one from a part to the next.

**`SensorManagerProofs`.** `TypeOK`, `Untorn`, `NoUseAfterDestroy`, and that the manager implements
`SampleCache`, fairness aside. `Untorn` alone does not
survive a step: a reader between its two halves must know that its first half is still the
cache's (`Copied`), which holds because the mutex is held by exactly those in a
critical section (`Holder`), and the halves of the cache differ only between a
writer's two steps (`Halves`). `NoUseAfterDestroy` needs that no reader is left when the
destructor starts (`Leaving`) and that the join is over when members go (`Left`). The refinement needs
two facts more: a writer never brings an older sample than the cache has (`Ordered`, as main publishes
before the worker exists), and a reader that copies has seen a valid cache (`CopyValid`). Three
steps, all of them taking the mutex, and the call of `read()` are steps of the register; `CellMeaning`
says what the register holds before and after them.

**`Bme280Proofs`.** All safety properties of `Bme280`, the action property `FirstReadValid`
included, for any number of users, measurements and supply failures. The driver's sequence of steps is what
makes them true, so the invariant says what each step has behind it: that only the holder of
`m_mutex` is inside a call, that what it has read was checked, that the chip had finished
copying, and was configured, unless `lost` says otherwise. For `FirstReadValid` that leaves only the
measurement that looks skipped as a reason of `EAGAIN` (`BroughtUp`).

**`DaemonProofs`.** `TypeOK` and `SingleInstance`, for any number of processes and ports; their
conjunction is inductive: who is past the lock holds it, and the bus and the ports are touched only then.

**`CommandLineProofs`.** `InRange`, `FirstDecides` and `SettingsAsWritten`, for command lines of any
length over any words. `InRange` needs only that what is out of range is in `config` once `parse` has
decided on an error. The other two say what a list of words means without the loop, so they need what the
loop has done so far in the same terms. `ArgumentNext` is the step on which that rests: the word behind an
option that takes an argument is that argument exactly when the option is no argument itself, and which
words are arguments depends on what is before them only. Then `LoopInv` says: before `optind`, a setting is
what the last option for it said (`Passed`, `WrittenBefore`, `Settings`), the flags of the request and of help and
version are those asked for (`Asked`, `Shown`), no option has decided (`Follows`), and where one has, it is the first
(`Decision`).

**`StressTestProofs`.** `TypeOK`, `OneSocket`, `ExitTells` and `Verdict`, for any number of clients and
addresses. A client's invariant follows where it is: which socket it has (`SocketOf`), what its server can
have done (`PeerOf`), what its status will tell (`StatusOf`). `Verdict` is about counts over several
tests, so it needs what is counted halfway: `failed`, the history variable, is `total` and the failures of the
running test together (`Counted`). Fewer than 256 clients are what makes the exit status of `run_test` the
count itself.

**`SsnpProofs`.** All safety properties of `Ssnp` that hold: `AcceptsGrammar` for requests of any
length, where the run has five symbols, `NoPartialRequest`, and `RoundTrip` for numbers and timestamps of any
digits and length, where the run has two numbers. Of the symbols they assume that no digit is a sign, a
unit or a field, and that no number is empty (`ProtocolAssumption`). What `parseRequest` demands of tokens is shown equivalent to `Shape`, which
speaks of single symbols: fields at odd places, commas at even ones, no field twice, at most six symbols. In one
direction a fourth token would be a fourth field, and there are three; this is why the count of tokens in
the code (`SSNP.cpp:61`) never decides anything that the test for duplicates would not. `Shape` is in turn what the grammar
writes (`GrammarShape`). A beginning of the client's own request
ends in a semicolon only if it is the whole (`OwnRequest`). The invariant (`Exchange`) says that `got` is a
beginning of `sent`, and `sent` the client's request. For `RoundTrip` the response is taken apart again: it is
the header, the first semicolon and the data (`ResponseSplit`), the data are the time and the values, joined
by commas that nothing else in them is, so that `getline` gives one token for each (`ResponseTokens`), and a
value of which as many symbols are removed as its unit has is the number the server wrote (`UnitRemoved`). A
second invariant (`Answered`) says that the response is of the fields that were parsed, and `NoPartialRequest` that these
are the fields the client wants.

**`ServerProofs`.** `TypeOK`, `FdOwned`, `RightReply` and `NoGroundlessRefusal`, by one
invariant. `FdOwned` is proved in the form of `Owned`, which says it descriptor by descriptor.
On top of it, a connection is behind at most one descriptor and is in the backlog until then
(`Conns`), so the connection a worker finds behind its number is nobody else's. Hence what a worker
serves is what its own client sent, or a piece of that (`Asked`, `Meant`), and the sample it was given was current
after that client asked (`Fresh`, with the history variables `asOf` and `outage`): the two halves
of `RightReply`. `Closing` carries the reason of every close from the step that decides on it to
the close itself. The pool and the cache enter through `TaskPool` and `SampleCache`; that
`ThreadPool` and `SensorManager` implement these is proved too.

**Induction.** The library's induction theorems take an operator as a parameter, which the provers cannot
instantiate. Where the argument is over places in a text, the proofs take the least number of a set instead
(`LeastNumber`, from `WFMin` and the well-foundedness of `<`), and the models define what they compute over
texts by places, without recursion.

**Only model-checked.** Every liveness property and the fairness part of both refinements:
they need fairness and ENABLED, which the prover does not handle. Every safety property that a passing
run checks is proved.

## 6. Not modelled

The compensation formulas of `src/BME280.cpp:376-432`: straight-line arithmetic of 32 and 64 bits
without a decision worth checking but the clamps. TLC's integers have 32 bits, so a model would have to
carry wide numbers in pieces and repeat the formulas line by line. What the models do say is which
measurement and which coefficients each value is computed from.

Timestamps, the formatting of numbers, logging (one mutex around one write), the argument checks of
`I2CBus::transfer` (the driver's messages always pass them), `I2CBus::deinit` (a hazard), the numbers
of descriptors outside `Server`, rates and durations in the stress script, the build files.
`close_client` and `stop_listening` of class `Server` are never
called. Memory exhaustion and a failure to create a thread end the process in the code and
are left out.
