# A TLA+ model of grpc-perf

grpc-perf measures gRPC: a service `niPerfTestService` with servers in C++, Go,
Rust and C#, and clients that time unary calls, streams and sideband transports
against them. Most of the code is loops around a clock. What can go wrong lies
where handlers share memory without a lock, where an object outlives or does not
outlive the event that names it, and where the two sides of a stream must agree
on whose turn it is. The modules in this directory are about these parts.

Paths below are relative to the repository root: `src/perftest_server.cc`,
`rust/src/main.rs` and so on.

## 1. Inventory

| component | code | state | operations | what makes it hard | what makes it correct |
|---|---|---|---|---|---|
| slot relay | `src/perftest_server.cc:47-95` | static `_writers[32]`, shared by all handler threads and both listening threads | register a writer and poll; read a message, look up, write; clear at the end | no lock; two looks at the table; uninitialised `slot`; a writer dies with its handler | never a write on null or on a dead writer; no handler polls for ever |
| two-call latency test | `src/performance_tests.cc:1116-1188`, suite in `src/perftest_client.cc:160-168` | `StreamInfo` for each stream | open calls, sleep, rounds of writes and reads, delete | only sleeps order it after the server; consecutive tests overlap on the same slots; the client may be killed | each reply read in its own round; the test ends; nothing is reported after a failure |
| ReadComplexArena loop | `src/perftest_server.cc:406-503`, client `src/client_utilities.cc:175-193` | `ReadComplexAsyncCall` objects known to gRPC by address, the completion queue | take an event, post a request, finish an RPC, delete the object | `delete this`; two events for each object; `ok` is ignored; addresses are reused | no event for a deleted object; always a request posted; each RPC answered once |
| echo tests | `src/performance_tests.cc:978-1112`; handlers `src/perftest_server.cc:99-109,176-186`, `go/cmd/server/main.go:36-55,129-148`, `rust/src/main.rs:118-130` | one bidirectional call | write, read, ignore or check the result | the replies carry no number; warm-up reads are not checked; each side waits for the other | a round reads its own reply; both sides end |
| unary tests and methods | `src/perftest_server.cc:113-172`, `src/client_utilities.cc:19-211`, `src/performance_tests.cc:805-825,960-974,1038-1072,1192-1326` | the list of times | one call after another, timed or counted | wrappers go on after a failed call; messages above 1 MB are refused; a copy trusts the length it asked for | a fault only after a failed call; a rate with no error printed is one of served calls |
| ReadContinuously, parallel streams | `src/perftest_server.cc:190-205`, `src/client_utilities.cc:285-296`, `src/performance_tests.cc:1330-1393`, `dotnet/PerfTestServer/PerftestServiceImpl.cs:25-62` | threads of the test; in C# one static list for all calls | N readers against N writers | slow readers, a broken stream, a list that is published before it is filled | the printed rate is of messages that were read; handlers of broken calls return |
| asynchronous Init client | `src/performance_tests.cc:759-801` | result objects, a completion queue | issue N calls, take N events | early return while calls are pending; results in any order | no result is freed while gRPC may write it |
| sideband streams | `src/perftest_server.cc:210-340`, `src/performance_tests.cc:830-955` | tokens, identifiers, a detached thread | announce, connect, request, write data, cancel | unchecked failures; data before or after the response; a dropped socket looks like a message | each side stops when the other has gone |
| configuration | `src/test_config.cc`, `src/perftest_client.cc:317-466,524-654` | `TestConfig` | load, save defaults, choose tests | missing sections, parse errors half-way, flags nobody initialises | what runs is what the file says; an error anywhere gives all defaults |
| suites | `src/perftest_client.cc:68-250` | none but what a test leaves behind | run the tests of a suite in order | handlers of one test meet the next one | each suite ends |
| latency report | `src/client_utilities.cc:233-281` | list of times, a copy | write, sort, print percentiles | index at small counts; a copy is sorted, the file is not | one line for each time, in order; a percentile covers its share |
| Go server | `go/cmd/server/main.go:57-120,346-477` | slot map under a mutex; listeners, context, wait group | relay, shutdown | a stream used after the unlock; a newer stream's slot deleted; graceful stop with open streams; a signal while a listener is set up | no dead stream is looked up; removals have a cause; a clean exit |
| applications | `src/perftest_server_app.cc:83-174`, `src/localhost_perf_check.cc:60-130` | threads of the server's `main` | start, listen, accept, join | each listener may fail alone; nothing orders client and server | no test does work before the listener it uses has run |
| packing benchmarks, other clients, generated code | `src/performance_tests.cc:85-755`, `python/`, `go/cmd/client`, `dotnet/PerfTestClient` | none that outlives a call | - | - | - |

How they interact: the clients call the servers through gRPC only. Inside the C++
server the two stream handlers meet in `_writers`; `RunServer` runs twice in a
process (TCP and UDS, `src/perftest_server_app.cc:94,99`), each with a queue of its
own but with one `_writers`. In the client a test owns its calls, and deleting them
cancels them. gRPC is not part of the repository; its behaviour is modelled by what
the code sees of it, and each such action is marked external in `PROJECT.json`.

## 2. Modules

| module | models | extends / instances |
|---|---|---|
| `SlotRelay` | the writer table and its two handlers | |
| `SlotRelayProofs` | theorems about it | `SlotRelay`, `TLAPS` |
| `StreamTest2` | the two-call test, repeated and killed, over the table | `SlotRelay` |
| `StreamTest2Proofs` | theorems about it | `StreamTest2`, `SlotRelayProofs` |
| `UnaryService` | what a unary method promises | |
| `ArenaLoop` | the completion-queue loop, and that it implements the promise | instance of `UnaryService` |
| `ArenaLoopProofs` | theorems about it | `ArenaLoop`, `FiniteSetTheorems`, `TLAPS` |
| `EchoStream` | the ping-pong tests and the handlers they meet | |
| `EchoStreamProofs` | theorems about it, alone and in the suites | `ClientSuites`, `SequenceTheorems`, `TLAPS` |
| `LatencyReport` | what becomes of a list of times | |
| `UnaryTests` | tests of unary calls, the wrappers, the server's methods and limits | `LatencyReport` |
| `ParallelStreams` | N readers of `ReadContinuously`, C++ and C# handlers | |
| `ClientSuites` | the client's suites, test after test | `EchoStream`, `UnaryTests`, `ParallelStreams` |
| `ClientSuitesProofs` | theorems about the streams, the unary tests and the report, in the suites | `EchoStreamProofs`, `FiniteSetTheorems` |
| `GoRelay` | the Go server's locked slot map and its two handlers | |
| `GoServer` | the Go process: listeners, signal, graceful stop, exit | `GoRelay` |
| `GoServerProofs` | theorems about both | `GoServer`, `TLAPS` |
| `SidebandRead` | the sideband read test and its handler | |
| `SidebandMoniker` | the sideband round-trip test and its detached thread | |
| `SidebandTests` | both, in the order in which the client runs them | both |
| `SidebandProofs` | theorems about both | `SidebandTests`, `SequenceTheorems`, `TLAPS` |
| `ClientMain` | the C++ client: configuration, choice of tests, the asynchronous test | |
| `Applications` | that client beside a server process with its threads | `ClientMain` |
| `ClientMainProofs` | theorems about both | `Applications`, `FiniteSetTheorems`, `TLAPS` |
| `MC*` | the instances that TLC checks | |

### SlotRelay

`writers` is `_writers`. `serving[s]` is the slot that the running
`StreamLatencyTestServer` handler with its writer at address `s` registered in;
its handler's `request` and its place in the poll loop need no other state. An
address is free again when the handler has returned, so one element of `Servers`
stands for many calls, one after another: that is how a stale pointer could come to
mean another call. `cpc[c]`, `cslot[c]` and `cptr[c]` are the place, the local
`slot` and the loaded writer of a `StreamLatencyTestClient` handler.

Each load and store of the table is a step of its own. The two looks of lines 75
and 77 may be one load or two in the compiled program (an unsynchronised variable),
so `CheckWriter` leads to `LoadWriter` or straight to the write. The uninitialised
`slot` is any member of `Garbage`. A write on null or on the writer of a
returned handler is undefined: it may seem to work (`WriteReturns`, not on null) or
kill the process (`Fault`), after which a new process starts from an empty table.
CPU affinity (lines 68-73) is left out.

### StreamTest2

Adds the client's side of each call (`rlink`, `wlink`), the messages on the way
(`wire`, `replies`) and the test itself (`pc`, `idx`, `round`, `ok`, `outcome`,
`got`). A stream has the calls `Gens \X {stream}`, so that the calls of one test
may overlap those of the next. A call that is cancelled before its handler has
started may still start (`late`) or not (`DropServerCall`, `DropClientCall`).
`Settled = TRUE` expresses that the sleeps are long enough: one second after
opening a reader (line 1143) its handler has registered, and when a test starts
the handlers of the previous one are done with the table, apart from handlers
that poll a slot nobody will clear. Nothing in the code waits for either, the
second not even a sleep; with `Settled = FALSE` neither is assumed.

The suite `RunParallelatencyStreamTestSuite` runs this test five times in a row on
the same slots. No caller of the suite is left in `RunConfiguredTests`; the
function is exported and the server still offers its methods.

### UnaryService and ArenaLoop

An element of `Objects` is an address. `live` are the allocated objects, `posted`
those gRPC holds for an incoming RPC, `finishing` those whose `Finish` is under
way, `cq` the tags in the queue, `call` the loop's local variable. `Take`,
`PostNew`, `HandleArrival` and `HandleFinished` are the loop's iteration in the
order of the code: the new object is posted before the event is handled, and it is
posted for both kinds of event. `FinishEnds` stands for the end of `Finish` whether
or not the client was still there; the loop ignores the difference (`ok`).
`UnaryService` says what a client relies on; `rpcBar` maps an accepted RPC to
"waiting", and dropped and cancelled ones to "abandoned".

### EchoStream

A message is known by its round, which the code's messages do not carry, so that a
misplaced reply is visible to the model. `Handler` selects a handler that answers
each message (C++, Go, C#) or one that collects (Rust). `Break` is a call that
ends from outside: the server stops, or refuses a message above 1 MB.

### LatencyReport and UnaryTests

`times` is a test's list, `report` what `WriteLatencyData` has written and printed.
`Sort` is any sorted permutation, named by its result; `PercentileIndex` is the index
of the code with the fraction in thousandths, for the code's product of doubles is cut
to the same integer for every count up to two million.

`UnaryTests` has two kinds of test, as the code has. A `"timed"` test calls the stub,
ignores the results of its warm-up and ends at the first failed timed call; a
`"rate"` test calls the wrappers of `NIPerfTestClient`, which print a failed
status and return as if nothing had happened. `utest.methods` is an iteration's list of
calls, `made`, `served` and `errors` count calls. `Wrappers` has the bytes that a request
and a reply take for each sample and `Accepted` the two limits, the server's 1 MB for
what it receives and the client's 1000 MB; because both sides ask for a minimal stack,
which may leave the check out, a message above a limit may be refused and need not
be. `CopySamples` is `client_utilities.cc:147`: `Read` copies the samples it asked for
out of whatever reply it has, and reading beyond it may fault or not.

### ParallelStreams

`reader` and `got` are the test's threads, `link` and `wire` the calls, `writer`, `sent`
and `result` the handlers. `Window` is what flow control lets be under way. The C++
handler builds its response from its request; the C# handler takes a static list that
every call may replace (`BuildResult`), fill (`AddSample`; of two overlapping
`List.Add` one may be lost) and copy (`CopyList`), and sends 10000 messages whatever was asked
for. Neither looks at the result of a write. `PerformStreamingTest`,
`PerformTwoStreamTest` and `PerformFourStreamTest` are the cases of one, two and four.

### ClientSuites

`Suites` has the suites of `perftest_client.cc:68-250` with their tests, methods and
sizes as the code has them, and one turn of `localhost_perf_check`'s loop. `NextTest`
starts the next test as soon as the last one is over; the handlers of the last one may
still run. The sizes of streams are constants, because the C# server fills its list sample
by sample. Left out: names of files, counts of iterations.

### GoRelay and GoServer

`writers` is the map, `waiting[s]` the slot a `StreamLatencyTestServer` handler has
registered in, `done` the calls whose context is done; `ccall`, `peer`, `cslot`
and `cwriter` are a client stream's handler, its peer's side, its last slot and the
stream it looked up. What the mutex covers is one step (`Register`, the lookup in
`Relay`, the two deletions); the `Send` after the unlock is another (`SendReturns`),
so that everything may happen between them. Objects are garbage collected: a stream
that is referred to is not reused (`Held`). Deletions are by slot number and do not
ask whose stream is there, as in the code.

`GoServer` adds `proc` and `listener`: the two goroutines that listen and serve, the
signal, `GracefulStop`, and `wg.Wait`. A listener may fail to listen (`ListenFails`)
or to serve (`ServeFails`); that it starts after `GracefulStop` has begun is
allowed, because nothing in `main` waits for it. Left out: the socket file of the
UDS listener, TLS files, the moniker service.

### SidebandRead, SidebandMoniker, SidebandTests

The transport is a library outside the repository; it is modelled by what the code
relies on. `SOCKETS` is a byte stream that may or may not hold a block until it is
read: a write may return at once (`EndWrite`), but surely returns only when the
block is read or the other end closed (`EndWriteSurely`). Shared memory is one buffer
or two in turn; a copy or a write is two steps, so that an overlap shows as
`Torn`. `Steps` is the `switch` of `perftest_server.cc:248-270`: which write goes
before and which after the response.

`SidebandMoniker` has, for each session, the client's rounds, the socket and the
detached thread `RunSidebandReadWriteLoop`. A dropped socket parses as an empty
message on either side. That the client does not look at the status of
`BeginSidebandStream`'s counterpart in the read test is not modelled.

### ClientMain

`file` is what the named file contains: unreadable, or sections, the tests they set
to true and the sections with a value of a wrong type. `enabled` has a third value,
`"indeterminate"`, for members of `main`'s `TestConfig` that nothing has
initialised; a branch on one may go either way (`Branch`). Suites without a rule of
their own are one name, as are the two payload tests. `Works` says when an enabled
test does anything: tests over a configured list need one, the UDS tests need their
client. The asynchronous test is modelled with its queue: `SendCall`, the events
in any order, the early return on a failed event, the deletion, the next round.
The model is of a build with the UDS and sideband tests compiled in.

### Applications

`ClientMain`'s process runs beside a server process that may start, die and start again
at any time. `thread` are the threads of the server's `main`: the two `RunServer` threads,
each of which fails to listen alone (`RunServer` returns) or never returns, and those that
accept sideband connections, which start after a sleep. `hosts` remembers the listeners
that have run in some life of the server; `VerifyServer` binds the client's first
call over each channel to the thread behind it.

## 3. Runs

| run | instance | question |
|---|---|---|
| `slot_relay` | 3 slots, 3 server addresses, 2 client streams | what the unlocked table guarantees |
| `stream_test2` | 2 streams, 1+2 rounds, settled | is the test sound when its sleeps suffice |
| `stream_test2_unsettled` | 1 stream, two generations of each call, no order assumed | what holds when they do not |
| `stream_test2_early_kill` | 2 streams, kill at any time | violation: finding 1 |
| `arena_loop` | 3 RPCs, 5 addresses | the loop's memory and its promise |
| `client_suites` | every suite against the C++ server, the streaming suite against the C# one | do suites end and say what was measured, whatever the last test left behind |
| `echo_collecting` | 3+4 rounds, collecting | violation: finding 2 |
| `dotnet_samples` | 2 threads, 2 samples, C# | violation: finding 3 |
| `go_server` | 2 slots, 2 server calls, 2 client streams, 2 listeners | the locked map and the shutdown |
| `sideband_tests` | 3 iterations, 2 sessions of 1+1 rounds | is the data whole and right, do both sides end |
| `applications` | 57 files, 3 calls in 2 rounds, a server that comes and goes | does the client run what its file says, over a server that is there |
| `client_minimal` | the minimal file | violation: finding 4 |

Properties of `slot_relay`. `RegisteredIsLive`: a pointer in the table belongs to a
handler that polls that slot, although registrations replace each other and clears
come from other threads. `OwnerNeverWritesNull`: a client stream that no other
client shares its slot with is safe from null although it looks twice.
`ExclusiveSlotIsSafe`: with one server call as well, the writer is alive, of this
slot, and used by one thread. `LostIsFinal`: a handler that was replaced never sees
itself again, so that a look every 500 ms is enough. `ClientEndReleasesServer`: the
end of a client stream releases the handler it finds.

Properties of the test. `HarnessNeverFaults`: calls of consecutive tests
overlap and no write ever goes wrong. `EveryMessageIsAnswered`: for each stream the
messages written are the replies read plus those in one place on the way.
`ReportIsComplete`: what is reported was read in full. `TestEnds` and
`ServerHandlerIsReleased` are liveness.

Properties of the loop. `TagsPartitionLive`, `AlwaysListening`, `AcceptedIsHeld`
are about objects; `PostedGrows` states the loop's growth exactly: one more posted
request for every RPC served. `ImplementsService` is the whole abstract
specification, fairness included.

Properties of the suites. `ReplyIsOfThisRound` and `ReportIsComplete` are the echo test's,
with every test that may come before it. `ReportDescribesTimes`: the file has one line
for each timed call in the order of the calls although a copy is sorted in between, and
each printed percentile is at least its share of the times, at counts so small that
its index reaches the end of the list. `OnlyFailedReadsCrash`: the copy of `Read` goes beyond
a reply only after a call has failed. `CleanRateIsServed`: the rate tests count failed calls,
but none that was not printed. `OnlyLargeWritesAreRefused`: while the server stays, of all
sizes of all suites only the writes of 200000 and 393216 doubles can be refused.
`RateIsOfWhatWasRead`: the volume that `PerformNStreamTest` claims, which it computes from
its arguments, is what its threads have read if no call broke. `HandlerReturns`,
`WritersReturn` and `SuiteEnds` are liveness: a handler whose call is broken goes through its
loop and returns although it looks at no write, and the suite ends. `SuitesTypeOK` is the
type invariant of the composition.

Properties of the Go server. `MapIsLive`: a lookup never finds the stream of a call
that has returned, although three kinds of handler delete by number.
`ReplyStaysOnSlot`: a stream used after the unlock is of the slot it was looked
up in, or its call is over. `RemovalHasACause` (an action property): a stream leaves
the map only by a registration, the half-close of a client stream of its slot, or
the end of a context of that slot. `ExitIsClean`: unless every listener failed, the
process ends with no call running and an empty map, wherever the signal falls.
`ShutdownEnds` is liveness: once the peers are gone the stop completes.

Properties of the sideband tests. `DataIsOfThisRound`: the block read in an iteration
is that iteration's and whole; with two buffers only the one extra write of the
first request makes it so. `MonikerReportIsComplete`: what is reported was read
in full, although the warm-up's reads are not looked at. `ReadTestEnds`,
`HandlerReturns`, `MonikerTestEnds` are liveness with drops, breaks and kills at any
time. `ReadTestEnds` speaks of tests whose handler has served a request: before that
the handler has no token and closes nothing, so that a client whose stream breaks,
or whose first request is refused, reads its socket for ever.

Properties of the client. `FallbackIsDefault`: an error in any section leaves nothing
of the sections before it. `RunsWhatTheFileEnables`: a complete file is obeyed
exactly. `ResultsOutliveCalls`: no array of results is deleted while gRPC may write
into it, over rounds and in any order of events. `TestsMeetAServer`: nothing runs before the
TCP listener has, and no test uses the Unix socket before its listener has, although each
listener may fail alone and the flag for the Unix socket may be indeterminate.

### Bounds

- Slots: the handlers touch one slot at a time, and a property of a slot involves
  the calls that may name it. Three slots give one of each kind: exclusive,
  several servers with one client, open to all. Two clients and two servers on a
  slot are what it takes for one to replace or clear under the other; a third
  server shows that the exclusive slot is not disturbed.
- Streams and rounds: a round is independent of the ones before it except through
  messages under way, of which there is at most one for each stream; one ignored
  and two checked rounds show the change between them and a repeat. The unsettled
  run has one stream and one checked round, because both generations of its two
  calls run at any relative speed.
- RPCs and addresses: three RPCs allow one in each stage (arriving, finishing,
  finished) with the others; with five addresses a deleted object's address is
  reused. When every address is taken `PostNew` waits; the loop goes on because
  the bound covers the posted requests of three RPCs (`PostedGrows`).
  `CHECK_DEADLOCK` is off: the RPCs are finite, the server idles after the last one.
- Suites: two ignored and three timed rounds; one ignored and three timed calls, with three
  possible times, so that all orders and ties of a list occur and every percentile's
  index but the median's is the last one; three iterations of a rate test; two clients, two
  messages under way of three asked for, so that a handler waits for its reader; stream
  sizes 1 and 2, and one count of clients. 10000, the C# handler's number, is 2, less than what is asked
  for as in the code (20000). `CHECK_DEADLOCK` is off: a suite ends.
- Echo rounds against the collecting handler: three ignored and four checked.
- C# samples: two threads, two samples to fill, one message; two calls suffice for one
  to copy the list while the other fills it.
- Go: two server calls can take a slot from each other while two client streams
  hold a looked-up stream and end a slot, one of them slot 0, the slot of a stream
  that has sent nothing. `CHECK_DEADLOCK` is off: the process exits.
- Sideband: three iterations reuse the first of two buffers; one ignored and one
  timed round show the change; of two sessions the first one's thread may lag behind
  the second. `CHECK_DEADLOCK` is off: sessions are used up.
- Client: complete files that enable nothing, one test, two tests or all, files
  with one bad section in each place, unreadable files and the minimal one; sections
  do not influence each other but through the error. Three calls complete in
  any order, and a second round shows that the first is over. The server process has any
  number of lives. Deadlock is checked: a server can always be started or killed.
  In `client_minimal` it is off: the program exits.

### Fairness

- The poll loop wakes every 500 ms, and a handler whose stream ended runs to its
  end: weak fairness of `PollReturns` and `ClearSlot`. Nothing is assumed of a
  write in `SlotRelay`, which flow control may hold up; in `StreamTest2` the reader
  takes every reply of a round, so each handler's thread is fair as a whole.
- The loop's thread and gRPC's own threads run: weak fairness of `Loop`, of the
  acceptance of each RPC and of the end of each operation. Nothing is assumed of
  clients: they need neither send nor give up.
- Suites: the echo test's two threads, the reading threads and the handlers run, a unary
  call returns, served or failed, and the next test starts. A write waits for flow control
  or fails once its call is over, so that the reading thread's fairness carries the handler.
  Nothing need break or fail.
- Goroutines run. A `Send` surely returns only on a stream whose call is over: a
  peer that does not read may hold it up. No signal need arrive and no peer need end.
- Sideband: client, handler and threads run, and the library delivers what was
  written; a write to a socket surely ends only as said above. Nothing need break.
- None in `ClientMain` and `Applications`, which have no liveness property: a server need
  not answer, and none need be there. None in `dotnet_samples`, an invariant.

### Findings

1. `src/perftest_server.cc:75-80`. A `StreamLatencyTestClient` handler whose stream
   ends before its first message clears the slot of an uninitialised variable. If
   that falls between another handler's null test and its second load of the table,
   that handler calls `Write` through null. It takes a client that dies while one
   stream has written and another has not been read. Once every stream has had a
   round it cannot happen (`HarnessNeverFaults` in `stream_test2`).
2. `README.md:16` says that all servers are compatible with the C++ client. The Rust
   `test_write_continuously` answers after the client's half-close, and the C++
   client's payload stream test waits for each answer before it goes on: neither
   moves.
3. `dotnet/PerfTestServer/PerftestServiceImpl.cs:33`, of the same sentence of the README. The
   C# server's `InitData` publishes an empty static list before it fills it and takes
   no lock; a second stream of the parallel test copies whatever is there. Its messages
   have fewer samples than were asked for, which the C++ client's `Read` reports as an error
   and its streams do not notice.
4. `src/perftest_client.cc:566`. `CONFIG_README.md:117` says that the minimal
   configuration runs two tests. `TestConfig` is not initialised and absent sections
   are skipped, so that `enabled` of the parallel stream and the packing tests is
   indeterminate; they take nothing from the file, and may run. (The other absent
   tests do nothing: their lists are empty.)

Seen while modelling, and stated as the limits of the passing runs: with
`Settled = FALSE`, `TestEnds` fails (a message that overtakes the registration is
dropped, and its reply is waited for), and so does `HarnessNeverFaults` (a handler
that starts late clears a slot of the next test). With a kill between the opening of
a stream's two calls the polling handler stays until another call takes its slot:
`ServerHandlerIsReleased` therefore speaks of streams whose handler has read a
message.

Other differences between what is written and what is done, which no run states:

- `go/cmd/server/main.go:112` says that a stream is kept alive until it is removed by
  `StreamLatencyTestClient`; the handler waits for its context only (113). A removed
  stream lives for as long as its own client keeps it, and holds up `GracefulStop`.
- `CONFIG_README.md:62-65` describes lists of clients and samples for the parallel
  stream tests; the suites run fixed ones, and the counts of the packing tests are ignored,
  too. Payload sizes, described as bytes (71), are counts of doubles.
- The rate tests divide the calls made, failed ones included, by the time. The C# server
  sends 10000 messages to a client that asks for 20000 and computes its rate from
  20000: the printed rate is twice the true one.
- The UDS suite and the single stream suite write to the same files
  (`src/perftest_client.cc:71-80,349-356`), as do the five tests of
  `RunParallelatencyStreamTestSuite` (163-167).

## 4. Proofs

For any number of slots, calls, streams, RPCs and addresses.

`SlotRelayProofs`: `TypeCorrect`, `TableIsLive`, `OwnerIsSafe`, `ExclusiveIsSafe` and
`LossIsFinal`. `RegisteredIsLive` is inductive with the types alone. The two
properties of the pointer are not, for they speak only of the moment of the write.
`IInv` adds what holds on the way there: calls name only slots they may name
(`CallsNameTheirSlots`), between the two looks an owner's slot is not emptied
(`LoadFindsWriter`), a pointer was loaded from a slot its call may register in
(`PointerCameFromSlot`), and on an exclusive slot it stays in the table until the
write returns (`ExclusiveStaysRegistered`). The steps that need an argument are
`RegisterWriter` and `ClearSlot`: on an exclusive slot the only registrar is already
running and the only clearer is the writing thread itself. `LostIsFinal` is an
action property: a registration stores a writer that is not running, hence not a
lost one.

`StreamTest2Proofs` is the largest. Each step of the test is a step of the table or leaves it
alone (`TestStepIsRelayStep`), so that the table's invariant holds here as well.
`TestReportIsComplete` holds whatever the sleeps are and whenever the client dies: no reply
can be taken for another's, because while no timed read has failed each read
took a reply (`ReadsTookReplies`), and a warm-up read that took none is of a stream whose
handler has returned, so that a timed read of it fails and the report is discarded.

`HarnessIsSafe` and `MessagesAreAnswered` are proved under `Setting`: the sleeps are long
enough (`Settled`) and no client is killed between its first write and the end of its first
round (`~EarlyKill`). These are the two constants of the run `stream_test2`; both are needed, as
`stream_test2_early_kill` and the unsettled instance show. The hazard is a handler of an earlier
test that lives on while the next test uses its slot. `HarnessInv` says, for each stream: one
call of a test writes at a time (`OneWriter`), and where that call is in its life while its test
opens, runs or ends (`WriterLife`, `Opening`, `Standing`); a message under way finds a writer in
the table, and the handler that answers it holds that writer until the answer is written
(`MessageFindsWriter`); a reading call waits for its handler only while no writing call of its
stream exists (`ReaderComesFirst`), which the pause between two tests (`Quiet`) and the sleep
before the second call establish; after a test every call is over or about to be, and either
nothing is under way on any stream or each running handler already read the number of its own
stream (`Leaving`, with `Silence` and `Owned`: a handler that was killed before its first read
has no such number); and the messages of a stream are conserved (`Answered`, from which the
property follows). None of these is inductive alone: a handler that leaves empties its slot, and
that this takes no writer from a message under way, or from the reader of the next test, needs
all of `OneWriter`, `ReaderComesFirst` and `Leaving`. `ServerSurvives` is the action property
that follows: the step in which the process dies is never taken.

`ArenaLoopProofs`: `TypeCorrect`, `NoUseAfterDelete`, `NeverDeaf`, `NoRpcForgotten`,
`ImplementsServiceSafety` and `OneRequestMoreForEachRpc`. What an event means is read from
`_complete`, so the invariant ties the flag to the place of its object
(`FlagMatchesPlace`), makes the pairing of RPCs and objects one to one although addresses
are reused (`RequestsAreSingle`, `RequestsArePaired`) and gives each accepted RPC a holder
(`AcceptedHasHolder`). The refinement theorem states the initial condition and the
step simulation; `FinishIsReply` is its one step with content. The last theorem counts
posted requests against finished RPCs with the library's facts on cardinalities.

`EchoStreamProofs`: `NoStaleReply` and `NothingReportedUnanswered`, with the types, for any
number of rounds and either handler, with the test repeated and in every suite. The replies
carry no number, so the argument is that at most one message is anywhere on its way round
(`OneUnderWay`: up, in the handler's hands or down), and that rounds go on with none only
over a call that is broken for good (`Progress`), which no timed round survives.
`SuiteStepIsEchoStep` lifts it: a step of a suite is one of the test or leaves it alone.

`ClientSuitesProofs` is about all of them together.

- `RateIsTrue`, for any number of clients, messages and sizes. The invariant says of each
  thread of an unbroken test where its messages are: those read and those under way are
  those sent, and a call ends when that is what was asked for (`Conserved`), all have
  the samples asked for (`SizesAgree`), a thread that has exited has read its number
  (`Counted`), and the rate is claimed after every join (`ClaimedAfterJoin`). For the
  suites it takes that what they start is a test of the list (`SuitesAreSized`).
- Of any sorted list, for every count and every percentile: the index stays inside the list
  (`PercentilesAreInTheList`), a greater percentile is not less (`PercentilesAreOrdered`),
  and what is printed covers its share (`PercentileCoversItsShare`). They are arithmetic on
  `PercentileIndex`.
- `ReportsAreOfTheTimes`: what a suite reports are the times of its own calls, one for each,
  described by the numbers that are printed. `Sort` is a `CHOOSE` among the sorted
  forms of a list, and says nothing of a list without one; that there is one would be an
  induction on its length, which is out of the prover's reach. But the test builds its list
  by appending, so that `Sortable` is an invariant: the new time goes behind those that are
  no greater (`AppendIsSortable`), at a position that a cardinality names. That the
  permutation then reaches every position, and takes the times below a percentile to as
  many in the list, are the library's facts on injections. `TimesInv` counts the
  list against the rounds or calls since the warm-up, and keeps it after the report.
- `NothingElseIsRefused`: each unary test in the suites' lists, as they are in the code, sends
  and asks for messages within both limits, or is one of the large writes
  (`SuitesAreProper`), and a call that fails while the server stays was refused
  (`RefusedInv`).
- `ServedReadsDoNotCrash` and `SilentRateIsServed`: each call of a rate test is served
  or printed (`UnaryInv`), and a served reply has the samples that are copied from it
  (`ServedReplyIsWhole`).
- `SuitesTypesCorrect`, from these invariants.

`SidebandProofs`: `EachRoundReadsItsBlock`, for any number of iterations and each way of
passing data, and `NoRoundTripMissing`. Nothing in the shared-memory protocol names a block,
so the invariant follows the handler's list of work left (`Todos`) beside the client's
place: with sockets one block at most is on its way (`OnItsWay`); with one buffer the
handler is at rest whenever the client may look (`SharedInv`); with two it is one
block ahead, and its write goes to the other buffer (`Ahead`, `BufferFacts`), from the
second request on because of the extra write of the first (`Ready`). It holds while
the stream is whole and the request valid (`Sound`), which is what the property speaks of.
Of the round trips, a round without a reply is one of a session whose socket has been dropped or
whose thread has ended with nothing left to read, in which no later round can read
anything (`RoundsEchoed`, `OverIsFinal`).

`GoServerProofs`: `TypeCorrect`, `NoDeadStreamInMap`, `RepliesStayOnSlot`,
`ShutdownIsClean` and `NoCauselessRemoval`. The invariant is `TypeOK /\ RelayInv /\
Drained`. `RelayInv` is the map's two properties with the types: neither is
inductive without the other facts about who waits where. `Drained` says
what the end of the process rests on: once `GracefulStop` has returned, or a
listener has served to its end, no call runs, and none can start; so a process
exits in the middle of a call only if every listener has failed. `ExitIsClean`
follows, because by `MapIsLive` a stream in the map has a running call.

`ClientMainProofs`: `TypeCorrect`, `FallBackIsWhole`, `NoResultDeletedEarly` and
`FileIsObeyed`, for any set of files, calls and rounds; `ClientBesideServer` and
`NoTestWithoutAServer` of `Applications`. `IInv` says where `main`'s
counter stands in each place (`StepsInOrder`: the asynchronous test is begun
once, so that no round meets deleted results) and that a round whose results are
deleted has no event left (`RoundIsOver`); that the count of events equals the
number of calls only when each has its own event is `LastOne`, about finite sets.
`ObeyInv` follows a complete file from section to section (`Loaded`) and from test to
test (`RanSoFar`); a test that obeys has no indeterminate flag, so that a branch on
it can go one way only (`BranchObeys`). `ClientBesideServer` says that every behaviour of the
two processes is one of the client alone, so that the client's theorems hold of the
composition that the run checks; `MetInv` ties what the client has verified to the
listeners that have run.

Assumptions are the named `ASSUME`s of the modules: null is not a writer, no
slot is not a slot, calls name slots of the table, there is some garbage value, a
tag is not the absent tag, numbers of samples are natural, a test has a timed round. No
bound of a run is among them.

Only model-checked: all liveness (`ClientEndReleasesServer`, `TestEnds`,
`ServerHandlerIsReleased`, `HandlerReturns`, `WritersReturn`, `SuiteEnds`, `ReadTestEnds`,
`MonikerTestEnds`, `ShutdownEnds`, the fairness part of `ImplementsService`), which the
prover's backends cannot do under fairness. Every invariant that a passing run checks is
proved; `HarnessNeverFaults` and `EveryMessageIsAnswered` under the hypotheses above, which are
those of the run.

## 5. Plan

Done: the slot relay and its test, the completion-queue loop and its abstract service, the
echo tests, the unary and rate tests with the report, the parallel streams, the suites that
run them, the Go server, the sideband tests, the client's configuration beside the
server's process, and proofs of the safety of all of these. Left, in the order of what each adds:

1. The Go server's sideband moniker service and the sideband accept threads with the
   listeners, as far as they have an order that matters.
2. The other languages' clients, which are short sequential scripts.

## 6. Not modelled

Generated code, build files, LabVIEW, command-line parsing, scheduling classes and
CPU affinity, tracing, formatting of the reports, TLS credentials; the packing
benchmarks (single-threaded loops around a library); `src/Semaphore.h` (nothing
includes it); `SaveDefaultToFile`, which is one write that nothing else reads, and
which reports success when the file cannot be opened.

- Slot numbers of 32 and above index outside the table; every caller in the repository
  stays below 5, and the model has only slots of the table. A strategy outside the
  list, which gets no response, has no caller either.
- `_inProcServer` (`src/perftest_server.cc:52,483`), a `shared_ptr` that both `RunServer`
  threads assign without a lock: only commented-out code reads it.
- The bytes of a message beside its samples: no size of a suite is that close to a limit.
- The values of the asynchronous test's replies, which only choose what is printed.
- In `ParallelStreams` each thread's next call waits for the handler of its last one, so
  that handlers of broken calls do not pile up; in the program they may, and share
  nothing but the C# list.
- The two seconds before the sideband threads accept are
  a step of `Applications`, which no test waits for.
