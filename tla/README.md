# Gate Zero: TLA+ models, checks and proofs

Gate Zero evaluates signed commands for a controller: is the sender known, is the
signature its own, is the command within its window, is it the next one, and is the
plant in a state in which it may execute. Around the evaluators stand a Unix-socket
server, logs, controllers that watch the plant, decoys for attackers, and a few
structures that threads share. This directory models the parts that keep state, checks them
with TLC, and proves every safety property and every refinement that TLC checks, for all values of the
constants, with TLAPS.

Source paths below are relative to the repository.

## 1. The system

### Components, their state and what makes them correct

| component | files | state | operations | must be right |
|---|---|---|---|---|
| gate0-exec | src/executive.c, src/gate0_client.c | one `SenderRecord`, the read buffer, the accepted socket: all locals of `main` | accept, read, evaluate, write, close; the process may end at any of them | in-order execution, no stitched packets, every execution acknowledged, no client starved |
| evaluator | src/core.c, src/gate0.h | the caller's `SenderRecord` and flags | `evaluate_command` | commands 1, 2, 3, ... once each; nothing while tripped; rejections change nothing but the enrolment |
| interlocks | src/interlocks.c | four flags | `check_interlocks` | a trip is seen |
| multi-client evaluator | src/core_multiclient.c | a table of `SenderRecord` | `evaluate_command_multiclient` | one record per key, senders do not disturb each other |
| pure core | src/gate0_core.c, src/pure_core.c | a record with nodes and authority | `evaluate_command` | all that executes is within the first packet's authority and for one of its nodes |
| WAL | src/wal.c | ring, head, latest hash (static) | init, append, verify | holds the latest entries, chain unbroken, an intact log verifies |
| persistence, audit log | src/persistence.c, src/audit_log.c | append-only files; last hash (static) | persist, recover, log | recovery returns what was persisted last; a chain per run that shows every loss |
| Merkle frontier | src/tree.c | 8 frontier hashes, a leaf count | append, root | root of exactly the leaves appended |
| telemetry ring | src/telemetry.c | two arrays, head, tail, full | push | the newest samples, in order |
| state engine | state_engine.c | mode, misses, hard flag | six events, tick | lockout final, commands need heartbeats |
| dark controller | dark_controller.c | suppression mode | tick | hard suppression only while locked out, and never lifted |
| heartbeat | src/heartbeat.c | last time, sequence | verify | who may come back after a miss |
| pending state | pending_state.c | one pending command | set, confirm, expire, check | at most one waits, none is confirmed after "safe" |
| shadow table | shadow.c | array of entries with reference counts | lookup, register, feed, evict | finds who was asked for, evicts exactly the expired |
| proxy daemon | gate0_daemon.c | shadow table, time of last eviction | TCP client, eviction every 2 s | attackers get decoys, nobody waits for ever |
| rolling cages | rolling_cage.c | an array of sessions | open, lookup, roll, recapture, close | an id leads to one session, an old one to none |
| phantoms | phantom.c | an array of decoys with descriptors | bind, get, trip, reset | a socket leads to its own phantom |
| TCP trap | src/main.c | the connection being read | accept, read, seal | everyone is closed |
| moving target keys | mtk.c | counter, key, hazard slots | verify, rotate | no reader that was waited for sees a key half written |
| attribution | attrib.c | actor table with atomic count | record, score | one record per actor, no lost update, a tier that fits the score |
| message ring | src/mesh_sync.c | array, head, tail | push, pop | order, no loss |
| tarpit | tarpit_sim.c | session table | engage, tick, response | (not modelled) |

`PROJECT.json` lists these and everything else under `components`, with what is not
modelled and why.

### How they interact

`gate0-exec` (the one program the Makefile builds) links `core.c` and calls it once per
connection. `core.c` is also a library: `tests/test_gate0.c` and the one-shot
`src/gate0_daemon.c` call it directly. `core_multiclient.c` and `gate0_core.c` are other
evaluators with the same purpose and different rules; no program links two of them.
`state_engine.c` drives `dark_controller.c`, which reads its mode once per tick. The root
`gate0_daemon.c` uses `shadow.c`; `src/main.c` is a program by itself. WAL, persistence, audit
log, tree, telemetry, heartbeat, pending state, message ring, keys, attribution, cages and
phantoms are linked or compiled but not called by a server yet; they are modelled from
their own code, with any order of calls.

### What is hard

One thread serves all clients with blocking calls, over a buffer that is never cleared;
everything it knows dies with the process, and a client that leaves early kills it
(SIGPIPE). Packets may be cut. The clock can be set. Enrolment happens before any check, so
rejected packets leave traces. A ring reuses slots whose old contents enter the next hash.
Two controllers learn of each other only at ticks. The proxy has one thread as well, takes a
reference with every lookup and never returns one. Keys, actors and messages are shared between
threads with few atomics or none, on a machine (AArch64, README.md:34 and 38) that reorders
plain accesses. Each such place is a row of `hazards` in
`PROJECT.json`, with the properties that would catch it.

## 2. Modules

    CommandGate          what every evaluator promises (abstract)
    GateCommands         packets, envelopes, signatures, the read buffer
    EvaluateCommand      core.c's evaluate_command as a function         EXTENDS GateCommands
    Executive            server, clients, crashes                        EXTENDS EvaluateCommand
    ExecutiveProofs      theorems about Executive                        EXTENDS Executive, TLAPS
    GateCore             core.c + interlocks.c as a library              EXTENDS EvaluateCommand
    GateCoreProofs       theorems about GateCore                         EXTENDS GateCore, TLAPS
    MultiClient          core_multiclient.c
    MultiClientProofs    theorems about MultiClient                      EXTENDS MultiClient, TLAPS
    PureCore             gate0_core.c, pure_core.c
    PureCoreProofs       theorems about PureCore                         EXTENDS PureCore, TLAPS
    Hashes, Clock        hashes as tuples; a uint64_t clock and its differences

    LogsProofs           theorems about Logs                             EXTENDS Logs, TLAPS
    Logs                 EXTENDS the four below
      Wal                wal.c
      Storage            persistence.c, audit_log.c
      MerkleFrontier     tree.c
      Telemetry          telemetry.c
    SupervisionProofs    theorems about Supervision                      EXTENDS Supervision, TLAPS
    Supervision          EXTENDS the three below
      DarkController     dark_controller.c                               EXTENDS StateEngine
        StateEngine      state_engine.c
      Heartbeat          heartbeat.c                                     EXTENDS Clock
      PendingState       pending_state.c                                 EXTENDS Clock
    DecoyProofs          theorems about Deception                        EXTENDS Deception, TLAPS
    Deception            EXTENDS the four below
      ShadowDaemon       root gate0_daemon.c and its clients             EXTENDS ShadowTable
        ShadowTable      shadow.c                                        EXTENDS Clock
      RollingCage        rolling_cage.c
      Phantom            phantom.c
      TcpTrap            src/main.c
    SharingProofs        theorems about Sharing                          EXTENDS Sharing, TLAPS
    Sharing              EXTENDS the three below
      KeyRotation        mtk.c, its header's reader side
      Attribution        attrib.c
      RingPool           mesh_sync.c
    MC*                  instances for TLC

`StateEngine` with `DarkController`, and `ShadowTable` with `ShadowDaemon`, interact and are
composed. The other components of a group share no state and no program connects
them, so `Logs`, `Supervision`, `Deception` and `Sharing` put them side by side: `part`
is chosen once, and a behaviour moves that part while the others keep their initial state.
Each part sees exactly the behaviours it has alone.

`Executive`, `GateCore`, `MultiClient` and `PureCore` each instantiate `CommandGate` with a
refinement mapping and check `ImplementsGate`. The abstract gate has a set of enrolled keys
(at most `Capacity`) and the sequence of commands executed. `Execute(k, n)` requires `n` to
be above every number `k` has executed, and for a gapless gate that all smaller ones were;
`Forget` is possible for a gate that keeps its records in memory. The mapping takes the
executed packets of the concrete module, so a replay would show as a step the gate cannot
make. `core.c`: capacity 1, gapless. `core_multiclient.c`: the table's length, with gaps.
`gate0_core.c`: capacity 1, gapless. Only the executive is volatile: the others live as
long as their caller.

Definitions whose comment starts with "Defect:" stand beside the definition they vary. They
are not part of any specification: each is the way a plausible mistake would read, and
checking a run with it in place of the right one must break the property it is listed for.

### Data

A signature is the pair of the key that made it and the envelope it was made over, or
`NoSignature`; `Verifies` is equality. A packet keeps the fields an evaluator reads, in wire
order, so that a read cut short can be modelled as an overlay: a prefix of the new packet
over the buffer as it was (`Overlay`). A hash is the tuple of what went into it; two hashes
are equal only if their inputs are.

### Executive

| model | code |
|---|---|
| `Accept` | accept, executive.c:68-79 |
| `Read`, `ReadNothing` | read of at most 512 bytes, 81-86 and 98-101 |
| `EvaluatePacket` | clock_gettime and evaluate_command, 88-94 |
| `Write`, `WriteBroken` | write, 95; to a client that left it raises SIGPIPE, which nothing handles |
| `Close` | close, 103 |
| `Crash`, `Restart` | the process ends (also accept failing, 72-76) and `main` starts again |
| `Connect`, `Send`, `Leave`, `Finish` | a client, gate0_client.c:26-59; run_full_matrix.py sends packets cut short |
| `SetClock` | CLOCK_REALTIME can be set |

The buffer is an array of the loop's body that is never initialised. Reading it is undefined;
in every build it is the same stack slot each time round, so the model keeps its contents
over iterations, and starts with `Junk`, which no key has signed. `executed`, `told` and `whole` are history
variables that start empty with each run of the process.

### The other modules

`GateCore`: `Call` is one `evaluate_command` with any packet at any time of `Times`; `Trip`
raises a flag, `check_interlocks` clears all. `MultiClient` and `PureCore`: one action per
way the call can go; `Evaluate` is the whole path from the record on, with the first check that
fails as its answer. `Wal`: `wal_append` and `wal_init`, with verification as an
operator. The record is 96 bytes long with `entry_hash` at 48, so the 64 bytes hashed end in
the middle of `entry_hash`; `Hash` says exactly that.

`Storage`: a file is a sequence of parts of records, `persist_sender_state(n)` appends the first n parts of the next one,
`audit_log_event` keeps its record whole, in part or not at all; `Crash` and `Restart` clear
what `audit_log.c` keeps in static variables and leave the files. A process that dies inside
a write is that write, kept in part, followed by `Crash`. `MerkleFrontier`: `merkle_append` is the whole
carry loop, `Weight[i]` is `1 << i`; `Tree` is the definition of a Merkle tree the root is compared with. `Telemetry`: one
push; a new process finds the ring empty.

`StateEngine`: one action per event, none enabled when the
hard flag is set (line 28). `HeartbeatMiss` with six misses makes two transitions, so
`previous` is DEGRADED. `DarkController`: three branches of `dark_tick`; the engine takes any
number of steps between ticks. `Heartbeat`: `HeartbeatResult` is the chain of checks, in order; the
clock may be set back and the gap then wraps. `PendingState`: `StatusNow` is
`ps_expire_check`, with which the other calls but `ps_confirm` begin.

`ShadowTable`: the table as a sequence; `EvictPass` is one pass of the
loop that moves the last entry into the gap, `Evicted` the loop; subtraction of times wraps, as `uint64_t` does;
`shadow_lookup` takes its reference under the if and returns outside it; `shadow_entry_put` of shadow.h,
which no file calls, is left out. `ShadowDaemon`: `Wake`
is one round of the loop (evict if it is time, accept), `HandleMalformed` the whole
handling of a peer that sent too little or nothing (lookup, register, feed, answer, close), `HandleWhole`
the end of the process when `evaluate_command` is given NULL. `RollingCage`: an id is the triple it
is the hash of, so it repeats only if address, time and round do; that 8 bytes of a hash never agree
for two triples is assumed. Each call that makes an id reads the clock anew, with any result.
`OneSessionPerId` holds `ahead`: as long as each reading is later than the one before. Without
it TLC finds two sessions of one attacker, opened at one reading, behind one id. `Phantom`: binding goes port by port, each
may be taken; `sockets` is the kernel's side. `TcpTrap`: accept, then read and seal; the read
never waits.

`KeyRotation`: one thread scans the slots and writes the key in halves; a reader's
announcement may be seen after its first loads, as a store followed by plain loads may on AArch64. `Attribution`: a
call is split at each access another thread can get between: the load of the count, the scan, the new
record, its publication, the load and the store of the score, the comparisons, the store of the tier. A
comparison sees any score between the one the thread stored and the one the record has by then.
Behaviours end at the first race for a record or a score, because what follows it may leave the array;
a thread that stores the tier of a score another has raised meanwhile is no such race: `overtaken`
remembers the record. `RingPool`: `ordered` chooses between accesses in program
order and those of one call in any order the two dependencies of the code allow.

`appended`, `leaves`, `pushed`, `popped`, `writes`, `newest`, `hashed`, `runStart`, `missed`, `unanswered`,
`safe`, `read`, `ahead`, `retired`, `binds`, `late`, `booked`, `overtaken` and `raced` are history variables: no guard of the code
reads them (`raced` ends a behaviour, the `Max` constants bound them).

## 3. Runs

| run | shows | states |
|---|---|---|
| `executive` | type, order, provenance, acknowledgement, pinned sender, refinement, and that who has sent is answered, cut off or leaves | 247 164 |
| `executive_truncated` | **violated**: a packet cut short is completed from the stale buffer and answered OK; tests/run_full_matrix.py:66 expects "Closed/Error" | |
| `gate_core` | order, nothing while tripped, rejection only enrols, refinement | 1 384 |
| `gate_core_latch` | **violated**: check_interlocks clears the trip that tests/test_gate0.c:57-61 expects to latch | |
| `multi_client` | one record per key, isolation, rising numbers, refinement | 15 274 |
| `pure_core` | overlap with the grant, counter, safe state only while unsafe, node 0 closes the gate, refinement | 3 102 |
| `logs` | the log in memory holds the latest entries in an unbroken chain; recovery returns the newest state if torn writes leave it aligned, and a mixture of records otherwise; links show every lost audit record; the Merkle root is that of the leaves, up to and past its overflow; telemetry holds the latest | 538 611 |
| `wal_verify` | **violated**: an intact log does not verify (README.md:27) | |
| `supervision` | lockout is final and so is the hard suppression that comes with it, commands need heartbeats; a heartbeat missed once is missed until the clock goes back or the interval is longer; nothing waits or is confirmed after "safe" | 201 946 |
| `deception` | exact eviction, everyone booked on one entry, proxy and trap serve all who come; while the clock moves on each session has its own id and old ids lead nowhere; sockets lead to their phantom while bound once | 273 078 |
| `sharing` | only a reader that was not waited for reads a torn key; a rotation ends when readers stop coming; the actor table is exact while nobody races, tiers fall behind only where one thread overtakes another; what the ring delivers, ordered and not | 2 086 342 |
| `shadow_lookup` | **violated**: lookup returns the first entry for any address (shadow_test.c:33-38) | |

### Bounds and why they are enough

* `executive`: two keys, two clients, four packets (two commands of the controller with overlapping windows,
  one that would enrol another key, one unsigned), cuts after the third field (before window and
  signature) and after the last, two clock values. Two clients give a queue, an owner
  and a victim of every cut; sequence numbers end at 2, so no bound on the histories is needed.
* `gate_core`: every packet over two keys and numbers 0 to 3 with every signature over an
  envelope that names the same key and token: tampered windows and numbers included; times
  before, in and after the window; two flags (the code only asks whether any is set).
* `multi_client`: three keys for two records, so that the table fills; numbers 0 to 3.
* `pure_core`: masks of two bits (empty, one, both), two levels, the types 239, 240, 247 and
  255 around the blocked range and the safe state; times before the skewed window, in it and after.
* `logs`: a log of capacity 3 and up to 5 appends: two past the wrap, at every offset. Sender
  records of three parts and four writes: two torn writes that add up to a whole record,
  or do not, with whole ones before and after; three audit events, so that one can be lost between
  two. One kind of event is enough: links are made of hashes, which differ through the previous one. A
  frontier of 3 levels with up to 10 leaves: it overflows at the eighth and goes on. A telemetry
  ring of 3 with 8 samples: the tail goes round twice.
* `supervision`: `MaxMisses` is 12, above the largest threshold (10). The code's counter is
  unbounded up to 2^32; nothing compares it with more than 10. Seven times with a miss limit
  of 2 intervals of 1 or 2: gaps below, at and above both, and wrapped ones.
* `deception`: three entries (evicting first, middle, last and several), two times with a
  delay of 1, so that entries are fresh, expired, or from the future after the clock went
  back (the difference then wraps at `Wrap`); `MaxRefs` bounds the references of an entry, which nothing
  compares with anything but zero; two addresses with two ports each, so that the proxy meets one
  attacker twice. Two cages with rounds modulo 2 and five readings of the
  clock, so that rounds repeat while the readings still rise, and triples once they do not. Three phantoms bound
  twice. Three connections to the trap, for a queue behind the one being read.
* `sharing`: two readers and two rotations (a reader over a whole rotation); two threads, three
  actors for two records, events of 10 and 25 points (SCORE_REPLAY, SCORE_SIG_FLOOD) up to a score of 45,
  past the tiers 15 and 35; the third, 60, is one more comparison of the same kind;
  a ring of 4 with 9 pushes: two laps and more.

`CHECK_DEADLOCK FALSE` is said for `deception` and `sharing`: phantoms may be bound for the last
time and a trap has no one left to come; threads have made all pushes and rotations, or have
raced. All other runs check that nothing stops.

### Fairness

`executive`: `WF_vars(Serve)`: the server is a loop of system calls that runs
when it can. `WF_vars(Decide(c))`: a connected client writes or goes away, as gate0_client.c
does straight after connecting. Nothing in the server bounds the read, so without this second
assumption one silent client holds up all others: the property is conditional on it.
Neither crashes, restarts nor clock changes are fair. A server that stays down leaves no
client waiting, because its end closes their connections.

`deception`: the proxy is a loop like the server and its recv has no time limit either, so
`PeersAreServed` assumes that a peer sends something or leaves. The trap polls and reads
what is there: `EveryoneSealed` assumes only that the trap runs, and nothing of those who
come. The clock is never assumed to move.

`sharing`: the rotating thread runs, and a reader that began reads on and releases its slot.
That does not make a rotation end while readers keep coming, so `RotationFinishes` speaks of the time
after which none comes; nothing in mtk.c promises more.

### Where the code disagrees with a test and no run says so

Four runs end in a violation, each at a line of a test or of the README. One more disagreement stands
beside them. shadow_test.c:34 looks an address up, lines 41-44 evict at the latest time there is and expect the
entry gone (`EVICT FAIL`). The lookup has taken a reference that only `shadow_entry_put` would give back, and
nothing calls it, so shadow_evict_expired keeps the entry, whatever the time. `EvictIsExact` states what the code does:
an entry with references stays. Built from these sources the test ends with EVICT FAIL.

In gate0_core.c the nodes of a command are compared with the grant by `&`: one common node is
enough (line 38). `ExecutedOverlapsGrant` says this and no more; a command for two nodes is executed under a
grant for one of them.

## 4. Proofs

### The server

`ExecutiveProofs` proves, for all finite or infinite sets of keys, packets, clients, cuts and
times:

| theorem | property |
|---|---|
| `TypeCorrect` | `TypeOK` |
| `InOrder` | `ExecutedInOrder` |
| `AsSent` | `ExecutedAsSent` |
| `AllAcknowledged` | `EveryExecutionAcknowledged` |
| `Pinned` | `SenderPinned` |
| `Implements` | `ImplementsGate` |

Assumptions, each named in the module that declares the constants: `PacketsAssumption` and
`ExecutiveAssumption` (types), and `SignedAsSent`: a client that signs at all signs the packet
it sends (gate0_client.c:47), and the stack's first contents are not a signed packet.
It is what a client of the repository does; `GateCore`, where no packet is cut, is checked
with packets tampered with after signing.

None of the properties is inductive alone. `IInv` adds to them:

* *order*: an unused record has counter 0 and nothing executed; the length of `executed` is the
  counter, and each entry verifies under the record's key;
* *provenance*: a signature in the buffer is that of the last packet that arrived whole.
  A cut read leaves the tail of the buffer, and with it the old signature, in place; if the buffer
  verifies, its envelope is the one signed, hence that of the whole packet. That is
  why a stitched packet can only execute when it equals one sent whole;
* *acknowledgement*: `told` is as long as `executed`, less the one answer being written.

For the refinement, `OneKeyFits` places the single key, and `GateStep` maps each step:
`EvaluatePacket` answered OK to `Execute`, one that enrols and then rejects to `Enrol`, `Stop`
(crash or SIGPIPE) to `Forget` or, with nothing enrolled, to a stutter; all others to a stutter.

### What watches over the controller

`SupervisionProofs` proves all five properties of the run `supervision`, for every limit, window,
wrap-around, set of times, packets and numbers:

| theorem | property |
|---|---|
| `Heartbeats` | `CommandsNeedHeartbeats` |
| `HardSuppression` | `HardIsForGood` |
| `LockedOut` | `LockoutIsFinal` |
| `OneAtATime` | `NothingWhilePending` |
| `MissedForEver` | `OnceMissedAlwaysMissed` |

From `ClockAssumption` and `HeartbeatAssumption` (times lie below the wrap-around; numbers are
natural). `EngineInv` adds that every lockout is the hard one, which is what excludes each
event. `PendingInv` adds that the only command whose time is not up is the one the state
holds, so an overwritten one has expired. `HeartbeatInv` adds that while an interval counts as missed the
clock is not behind the last accepted heartbeat and the gap exceeds the limit for that interval;
`SinceThePast` turns the unsigned difference into the difference there, and `LongerOrMissed`
concludes that only a longer interval can be accepted.

### The evaluators

`GateCoreProofs`, `MultiClientProofs` and `PureCoreProofs` hold for every set of keys, packets (with
any tampering) and times, every set of interlock flags, every length of the table, every mask of nodes:

| theorem | property |
|---|---|
| `GateCoreProofs!TypeCorrect`, `InOrder` | `TypeOK`; `ExecutedInOrder` |
| `GateCoreProofs!Stopped` | `StoppedWhileTripped` |
| `GateCoreProofs!OnlyEnrols` | `RejectionOnlyEnrols` |
| `MultiClientProofs!TypeCorrect`, `Rising` | `TypeOK`; `ExecutedRising` |
| `MultiClientProofs!OneRecord`, `Isolated` | `OneRecordPerKey`; `SendersIsolated` |
| `PureCoreProofs!TypeCorrect`, `OverlapsGrant` | `TypeOK`; `ExecutedOverlapsGrant` |
| `PureCoreProofs!NoNodeNothing`, `OnlySafeState` | `NoNodeClosesTheGate`; `OnlySafeStateWhileUnsafe` |
| `Implements` in each of the three | `ImplementsGate` |

They rest on the assumptions about types in each module. The properties that say in which order
commands execute are inductive together with the types and the fact that a record not in use counts
nothing. `Stopped` is stated for builds without GATE0_SIMULATION, since core.c:18 clears the flags in
the other. Each refinement goes over lemmas that say what a call can do in the abstract gate's
terms (nothing, enrol, or execute the next command); the enrolled keys and the executed commands are then
followed through the mapping. In the multi-client table the records in use are always a prefix, so
that the two scans, for the key and for a free record, cannot make a second record for a key; `FirstOf`
says that the least slot a scan looks for exists.

### The logs

`LogsProofs` proves all seven properties of the run `logs`, for every capacity, number of parts, depth and size:

| theorem | property |
|---|---|
| `LatestEntries`, `UnbrokenChain` | `HoldsTheLatest`, `ChainUnbroken` |
| `NewestRecovered`, `TornSpoils` | `RecoversTheNewest`, `TornWriteSpoilsRecovery` |
| `LossesTold` | `LinksTellLosses` |
| `RootOfLatest` | `RootOfTheLatest` |
| `LatestSamples` | `TelemetryHoldsTheLatest` |

`LogsInv` has one part for each component.

* `WalInv`: the ring's two properties are inductive together. `Apart` is the arithmetic behind
  them: numbers less than the capacity apart have different remainders, so an append
  overwrites exactly the oldest entry.
* `SenderFileInv`: the newest whole record starts at `newest.start`, and no last part of a
  record lies behind its end: what follows it are records that were torn. `LastBlock` and `SameMultiple` then say where the last
  aligned stretch of a record's length begins, which is what recovery reads.
* `AuditFileInv`: there is a list of all hashes of this run, each made of an event and the one before
  it, no two equal; the records of the run in the file are links of this list. Records whose events
  were hashed one after the other are then exactly those whose links fit.
* `TelemetryInv`: the ring is full or not, and the samples stand in it from its tail on.
* `MerkleInv`: for every level whose bit is set in the number of leaves, the frontier holds the tree of the leaves
  that this bit stands for: those after `Above(n, i + 1)`, the number with the bits up to i cleared, up
  to `Above(n, i)`. An append turns the ones below the first free level into zeros and leaves the levels above it
  alone (`LowLevel`, `HighLevel`); what is carried to a level is the tree of as many newest leaves as
  the level is heavy (`CarryIs`), and the root's loop puts the stretches together from the right
  (`BelowStep`). `TreeOfTwo` is the fact both need: the tree of a stretch as long as a power of two
  followed by one not longer is the pair of their trees.

### What attackers meet

`DecoyProofs` proves the four safety properties of the run `deception`, for tables, cages and phantoms of
every number, every clock and every peer:

| theorem | property |
|---|---|
| `EvictsExactly` | `EvictIsExact` |
| `OneEntry` | `AllOnOneEntry` |
| `IdsTellSessionsApart` | `OneSessionPerId` |
| `SocketsLeadHome` | `KnownWhileBoundOnce` |

`EvictsExactly` is about the loop that compacts the table it scans. `PassInv` says what holds after
n passes: entries before the index have not expired, every entry that has not expired is still there
as often as before, and index and length account for the n passes; `PassKeeps` carries it over one pass, and after as many
passes as entries nothing is left to scan. `CageInv` says that, while the readings rise, no id in use
or rolled away was made of a later reading than the last one; so a new id differs from all of them (`Fresh`). `PhantomInv` joins both directions of the link between
phantoms and descriptors: a descriptor found in a phantom is always its socket, while each
socket is found in its phantom only up to the end of the first call of `phantom_bind_all`.

The proof needs `PHANTOM_COUNT > 0`, which `PhantomAssumption` states: with no phantoms at all the first
step of the model's bind loop would bind one that does not exist. In phantom.h the number is fixed at 100.

### What threads share

`SharingProofs` proves the three safety properties of the run `sharing`, for any number of readers,
threads, actors, rotations, events and messages, and a ring and a table of every size:

| theorem | property |
|---|---|
| `TornOnlyLate` | `TornOnlyIfLate` |
| `UnracedExact` | `UnracedIsExact` |
| `PoppedInOrder` | `PopsInOrder` |

`RotationInv`: as long as the scan has not passed the slot of a reader that announced itself in time,
the key is whole, and what this reader has copied of it is the key as it is now.
`AttributionInv`: until two threads have raced, at most one of them is at a new record, that is the one
`count` points at, and each published record belongs to one actor and adds up that actor's points; a tier stored or about to be
stored is that of a score not above the record's, and that of the record's own score where nobody overtook.
`RingInv` sees the ring from its tail: the slot d places after it belongs to the message d after the
next one, and holds the latest message pushed for that slot, or the one before it while its store is
under way. The slot that ring_push leaves free keeps the two sides at most `RING_CAPACITY - 1` apart, also in the middle
of calls whose accesses take effect out of order.

### Where induction would be

The run of a loop and the tree of a sequence are recursive functions. That such a function
exists, and what it is, takes an induction that cannot be cited from the library, because its induction rule is
a theorem about any predicate. `FirstOf` stands in for it: a set of natural numbers that is
not empty has a least member, since the intervals 1 .. n up to its members are finite sets and strict
inclusion of those is well-founded (`FS_StrictSubsetOrderingWellFounded`, `WFMin`). Each induction is then the
least counterexample: `Bad` is the set of numbers for which the claim fails, and its least member
contradicts the step.

### The rest

Only model-checked are the liveness properties `SentIsAnswered`, `PeersAreServed`, `EveryoneSealed` and
`RotationFinishes`: fairness speaks of what is enabled, which the prover cannot reason about. All
other properties of the passing runs have a theorem. The four runs that end in a violation show places where the code
does not do what a test or a document says, and there is nothing to prove about them.

## 5. Plan

1. Done: the abstract gate, the executive with its proofs, the other evaluators; the logs, the
   controllers with heartbeat and pending command, the deception modules with the proxy and the
   trap, what threads share.
2. Done: the proofs of all safety properties and refinements that the runs check.
3. Left: the evaluator inside the test program gate0_adversarial.c (`NonceGate`), which adds a window
   of nonces to the rules of `PureCore`.

## 6. Not modelled

* Socket set-up, paths, formatting and printing; the cryptography itself (a signature cannot be
  made without its key, a hash has one pre-image); file permissions; memory locking.
* Mesh votes (mesh.c): two signature helpers; no code collects votes or compares them with the
  threshold.
* Tarpit: one thread, floating-point arithmetic and no caller; no two parts of its state
  could disagree.
* Consequence state and signer: no code adds a variable with limits and nothing calls
  cs_suspend_authority, so the signer authorises all it is asked.
* `NonceGate`, see the plan.
* The Node.js programs, the Python bridges and the demonstration programs keep no state worth a model.
* What follows a race in `Attribution`: a scan may then read past the array, whose contents the code
  does not determine.
* In `RingPool`, accesses of several calls of one thread reordered with each other; in
  `KeyRotation`, two threads that verify at once (the code has no lock for them and no program
  does it).

Attackers are not modelled beyond what the rules of the evaluators have to reject.
