# A model of the STM32F756ZG hardware tester

The repository holds two programs.  `hw_tester` (`src/FILES_FOR_PC`) runs on a
Linux PC: it asks a board over UDP to test its own peripherals and logs each
result in an SQLite table.  The firmware of the board, the unit under test or
UUT (`src/STM32CUBE_project/UUT`), serves those requests from a superloop with
LwIP underneath.  This directory models both, the network and the database
between them, checks the models with TLC and proves the main safety
properties with TLAPS.

## 1. The system

| Part | Where | State | Operations |
|---|---|---|---|
| Orchestration | `FILES_FOR_PC/main.c` | parsed command, `out_msg`, `in_msg`, socket, exit code | parse, `udp_init_network`, per test `proccess_test` (id, send, receive, log) and `print_log_by_id` |
| Records database | `FILES_FOR_PC/tests_db.c` | table `test_logs`, SQLite's file locks | `init_db`, `get_next_id`, `log_test`, `print_log_by_id`, `print_all_logs` |
| Test protocol | `main.c`, `UUT/Src/hw_verif_udp.c` | datagrams on their way | request (id, peripheral, iterations, length, payload), response (id, result) |
| UDP server | `hw_verif.c`, `hw_verif_udp.c`, `LWIP/App/lwip.c` | receive descriptors, `in_msg` | poll, receive callback (`perform_test`, `send_result`) |
| Test loops | `UUT/Src/tests.c` | iteration counter | `Test_N_Perform`, `Test_N_Perform_Msg` |
| Peripheral tests | `uart_test.c`, `spi_test.c`, `i2c_test.c`, `adc_test.c`, `timer_test.c` | completion flags, HAL handles, buffers | one iteration each, and the HAL callbacks that run in interrupts |
| Ethernet driver | `LWIP/Target/ethernetif.c` over `hal_eth.c` | 4 RX descriptors, a pool of 12 RX buffers and its status, link | input, output, allocation, link check every 100 ms |
| Command line | `main.c` to line 385 | `argv`, the flags seen, `n`, the messages | from `argv` to the tests wanted, a command, the help text or `ARGS_ERROR` |
| Readers | `main.c` `get`, `export` | none of their own | `print_log_by_id`, `print_all_logs` |
| Dummy server | `debug_tools/dummy_server.c` | none | answers every request with success |

The parts meet in four places: invocations of `hw_tester` share the database
file and nothing else; an invocation and the UUT exchange one request and one
response per test; on the UUT the Ethernet DMA fills descriptors while the
superloop performs a test; and in a peripheral's test the main thread waits
for flags that interrupts set.

What is hard about it:

* `recvfrom` blocks without timeout and nothing is ever sent again; the answer
  is not compared with the request.
* The identifier of a test is `MAX(test_id) + 1`, read before the test and
  inserted after it, in two separate SQLite connections without a transaction
  or a busy handler.
* `SQLITE_BUSY` is handled differently by each function: `get_next_id` takes
  it for an empty table, `log_test` prints a message and reports success,
  `init_db` and a failing prepare end the invocation.
* The UUT performs a whole test inside its receive callback, and only the
  receive descriptors hold what arrives meanwhile.
* A waiting loop on the UUT has no timeout, so a lost interrupt stops the
  server for good.
* The flags, handles, buffers and DMA streams of a peripheral outlive its
  test, so a test depends on what the earlier ones have left behind.
* Receive buffers pass between driver, DMA and LwIP without being copied, and
  a link failure stops and restarts the DMA with frames unread.

`PROJECT.json` lists every such hazard at its line with the properties that
watch it.

What makes each part correct:

| Part | Correct means |
|---|---|
| Orchestration | a row reports the very test it names; exit code 0 means everything asked for is logged; what is printed is one's own row |
| Database | identifiers do not repeat, a row is written once or not at all, nobody waits for the network with a lock |
| UDP server | accepted requests are served once, in order, and answered to their sender; the server always comes back |
| Test loops | success exactly when all iterations passed |
| Peripheral tests | a pass rests on data of this very iteration; a failure ends and leaves the peripheral usable |
| Ethernet driver | a queue of frames; every buffer has one owner; reading resumes after the pool ran dry |
| Command line | takes, refuses and understands what the usage text says |
| Readers | `get` shows the first record of an identifier, `export` the whole table as it is at one moment |

## 2. The modules

    UdpNet ── TestsDb ── HwTester ──┐
       └───── UutServer ────────────┴── VerifSystem ── VerifInvariants ── MCVerifSystem
                  └── UutBench ── MCUutBench     │
                         TestLedger ─────────────┘

    PeripheralTest ── UartTest, SpiTest, I2cTest, TimerTest, AdcTest
                         └── PeripheralBench ── PeripheralInvariants ── MCPeripheralBench

    RxQueue ── EthDriver ── MCEthDriver

    HwTester, CommandLine ── Retrieval ── MCRetrieval

and the proofs:

    UutServer ── UutFacts ──┬── UutProofs  (of UutBench)
    HwTester ── TesterFacts ┼── VerifProofs  (with VerifInvariants, of VerifSystem)
                            └── RetrievalProofs  (of Retrieval)
    PeripheralInvariants ── BusProofs ── PeripheralProofs      EthDriver ── EthProofs

| Module | Models | Notes |
|---|---|---|
| `UdpNet` | the datagrams and the network | the network is external: it delivers in any order, may lose (`Lossy`) and deliver twice (`MaxDups`) |
| `TestsDb` | the table and SQLite's locks | the SQL of `tests_db.c` is translated, the locks are SQLite's in rollback-journal mode |
| `HwTester` | `main.c` from the parsed command on, with the calls into `tests_db.c` | one action per call that may block, fail or be observed by another process |
| `UutServer` | `hw_verif.c`, `hw_verif_udp.c`, `tests.c`, the RX descriptors | one action per iteration of a test, with the outcomes that `Hw` allows |
| `VerifSystem` | all of the above together | the system's properties, its refinement mapping and its fairness |
| `TestLedger` | the abstract promise | a test is judged at most once and entered at most once, later, with that verdict |
| `UutBench` | the UUT alone with clients that send what they like | properties of the server that do not depend on `hw_tester` |
| `PeripheralTest` | what the tests have in common: call, message, verdict, faults | two properties that every test must have |
| `UartTest`, `SpiTest`, `I2cTest`, `TimerTest`, `AdcTest` | one `<x>_Test_Perform` each, with the HAL functions it calls and their interrupt handlers | one action per HAL call, wait, handler, DMA transfer and event on a wire |
| `PeripheralBench` | any one of the five, test after test | `Test_N_Perform` calls them like this; the five share nothing |
| `EthDriver` | the receiving half of `ethernetif.c` with `hal_eth.c` | the superloop, the DMA and the PHY |
| `RxQueue` | the abstract queue of frames | what `UutServer` relies on |
| `CommandLine` | the first part of `main` | one action per kind of argument; the rules of the usage text as operators on the whole list |
| `Retrieval` | `get` and `export` | composed with `CommandLine`, and with `HwTester` for those that log meanwhile |
| `VerifInvariants`, `PeripheralInvariants` | | inductive invariants, in modules that TLC's runs extend |
| `UutFacts`, `TesterFacts` | | lemmas about one UUT and one invocation, used wherever these are a part |
| `VerifProofs`, `UutProofs`, `BusProofs`, `PeripheralProofs`, `RetrievalProofs`, `EthProofs` | | theorems; `BusProofs` has those of the SPI and the I2C, `PeripheralProofs` the other three and what holds for all five |
| `MCVerifSystem`, `MCUutBench`, `MCPeripheralBench`, `MCEthDriver`, `MCRetrieval` | | small instances |

### How the model corresponds to the code

* **One SQLite function, several actions.**  A SELECT is split at its
  `sqlite3_step`, which takes SHARED, and its `sqlite3_finalize`, which gives
  it back; an INSERT is split where it takes RESERVED, where it takes PENDING
  and where it writes and commits, all within the one `sqlite3_step` of
  `log_test`.  So another process can be found at each of these points.  An
  INSERT that finds readers leaves PENDING in place until its `finalize`.
  Preparing a statement reads the schema and therefore needs SHARED as well.
* **A call that fails.**  SQLite refuses where a lock is in the way; `Faults`
  names the calls that may also fail for any other reason.
* **`run` in a row** stands for the timestamp and duration columns, which tell
  which test of which invocation a row describes.
* **The socket** of an invocation is identified with the invocation, since
  each opens its own and is bound to a fresh ephemeral port; the model does
  not reuse a port.
* **`CREATE TABLE IF NOT EXISTS`** only reads the schema: the table is there
  since the first run.  The `HOME` variable missing is folded into `init_db`
  failing.
* **Integers.**  Identifiers are the 32-bit pattern the two ends exchange,
  read as signed, with `IntMax` for the largest one; adding one wraps around.
  `p_len` is `strlen` modulo 256.  A message has at most 256 characters, the
  size of `payload`: with a longer one the `strncpy` at `main.c:478` writes past
  `out_msg`, which is undefined and not modelled.
* **An iteration** of a peripheral's test comes to `pass`, `fail` or `spin`;
  `spin` is one of the `while` loops of the tests whose interrupt never comes.
  A message test with length zero fails, because the HAL refuses to start
  such a transfer.
* **Descriptors.**  `HAL_ETH_ReadData` rebuilds the descriptor of a frame
  before it hands the frame out, so all `RxDescs` of them are free while a
  test runs.  A frame that finds none is flushed by the MAC.
* **Death by a signal** (`Kill`) is possible between any two actions; the
  operating system then releases the locks.  A request that is out stays out.

### The peripheral tests

`UutServer` takes an iteration of a test for a choice between three outcomes;
the five modules look into one.  `pc` names the call that `<x>_Test_Perform`
is about to make, the flags are those of the file, and each HAL handle keeps
the state that the HAL's functions check.  The interrupt handlers all have one
priority, so each runs to its end before the next one and before the test goes
on.  `PeripheralBench` chooses a `device` at the start; the variables of the
others stay as they are.

* **UART.**  `HAL_UART_Receive_DMA` is split before its last statement: it
  enables the error interrupt over whatever error flags are still set, and
  whether `DMAR` is set by the time that interrupt runs decides if the
  reception is aborted or goes on.  `wire` stands for TDR and shift register.
  A byte may arrive changed, with a frame or noise error, or not at all; a
  glitch may put a byte where none was sent.
* **SPI.**  `SPI_DMATransmitCplt` polls in the interrupt until the FIFO has
  been clocked out; `polling` says whose handler does.  Meanwhile neither the
  test nor another handler runs, but the DMA and the clock do.  The master
  receives by sending its own buffer, whose contents nobody has written.
  `FifoDepth` counts what the transmitter takes before it needs a clock, the
  shift register included.
* **I2C.**  The slave acknowledges its address in hardware and stretches the
  clock until its handler has cleared ADDR; in the second phase that is before
  it has been armed.  `HAL_I2C_Slave_*_DMA` is split before the statement that
  enables the DMA request, since the handler of ADDR may come in between.  An
  acknowledge may be missed, a byte changed, and a false START may keep the
  bus busy for a while.
* **Timer.**  Nothing is reset between the tests: TIM6 goes on from where it
  was stopped.  Both timers count, the update interrupt and the DMA request
  follow the update of TIM6, and the program takes at most `MaxDelay` counts
  to start and to stop it.  A drift makes TIM2 count one too many or too few.
* **ADC.**  `adc_ready` is not volatile.  The Debug build (`-O0`) loads it in
  every turn of the loop, the Release build (`-Os`, `.cproject:137`) need not,
  and may spin.
* **Timing.**  The hardware finishes what a byte causes before the next byte
  comes: 87 microseconds on the UART at 115200 baud.  On the SPI only the DMA
  is assumed to be that fast.
* **CRC.**  `Match_CRC` tells different messages apart; the part of a buffer
  that nobody wrote compares as it likes.
* Not modelled: bus errors of the DMA, loss of arbitration (there is one
  master), collisions of the CRC.

### The Ethernet driver

`pc` says where the superloop (`MX_LWIP_Process`) is: `input` in
`low_level_input`, `stack` in LwIP with the frame `p`, then `timeouts` and
`link`.  `ReadData` is the whole of `HAL_ETH_ReadData` and of
`ETH_UpdateDescriptor` after it, with `HAL_ETH_RxAllocateCallback` and
`HAL_ETH_RxLinkCallback`; every frame fits into one buffer and so into one
descriptor.  LwIP frees a buffer, keeps it as a fragment, frees several at the
end of a reassembly or after its timeout, or frees some and keeps the new one
in their place (`StackEvicts`); which fragments make up a datagram, and so which
is the oldest, is not told apart.  `LinkLost` and `LinkFound` are
`ethernet_link_check_state` with `HAL_ETH_Stop_IT` and `HAL_ETH_Start_IT`.  The
latter gives every descriptor to the DMA but resets neither `RxDescIdx` nor
the position of the DMA; `sound` turns false when such a restart leaves the
three indices of the ring apart, and what is promised ends there, apart from
`NeverDeaf` and `ReadingResumes`, which hold in any case.  `queue` maps the
descriptors to the abstract `RxQueue`.

### The command line and the readers

An argument is what `strcmp`, its first characters and `strtol` make of it: a
kind, the letters of a stack of flags, a value.  `main` walks through `argv`
with one action per kind; `Regular`, `Wanted` and `MessagesOf` state the rules
of `FILES_FOR_PC/README.md` and of the usage text about the whole list at
once, without walking.  In `Retrieval` a list that asks for tests ends where
`HwTester` goes on, one that begins with `get` or `export` goes on to the
database, where other invocations stand with their answers and are about to
log.  They do not move while `argv` is parsed, which reads nothing of theirs.

## 3. The runs

| Run | Instance | Checks |
|---|---|---|
| `core` | two invocations at once, each UART then timer; loss, kills; one descriptor | `TypeOK`, `ResultIsOwn`, `PerformedOnce`, `NoLockAcrossNetwork`, `LedgerKept` |
| `sequential` | one invocation after the other, all faults but a failing step; one datagram delivered twice; `IntMax` 1; n of 0, 1 and 2; a message of 256 bytes | `IdsNeverRepeat`, `ExitZeroMeansLogged`, `PrintsOwnRow`, `SuccessMeansAllPassed`, `ResultFromOwnInvocation` |
| `answered` | two at once, no loss, no kill, two descriptors | `Terminates` |
| `server` | the UUT, three clients, two descriptors, a UART that may hang, odd requests, failing `pbuf_alloc` | `ServedInOrder`, `VerdictSound`, `AcceptedIsServed` |
| `peripherals` | bytes of one bit, messages of 0 to 4 bytes, a FIFO of two, two faults of nine kinds, three samples of an interval of 5 counts, both builds, test after test | `TypeOK`, `SoundPass`, `NoFalseAlarm`, `ReturnsUnlessBroken`, and per device `…Clean`, `…NeverBusy`, `…NothingUnwrittenRead` |
| `ethernet` | three descriptors, five buffers of which LwIP keeps up to four, six frames, a link that fails twice | `TypeOK`, `OneOwner`, `IsAQueue`, `ReadingResumes`, `FramesAreRead`, `NeverDeaf` |
| `commands` | every list of up to four usual and two odd arguments; `get` with up to two identifiers and `export`, over an empty table and one of three rows, two others about to log, `sqlite3_step` may fail | `RetrievalTypeOK`, `ParsesByTheRules`, `GetAnswers`, `ExportIsWhole`, `Ends` |

Five runs expect a violation, each of a sentence in the documentation:

| Run | The sentence | What the code does |
|---|---|---|
| `primary_key` | `FILES_FOR_PC/README.md:194`: `test_id` is an auto-incremented primary key | it is a plain column filled with `MAX + 1`; two invocations at once log the same one |
| `log_return` | `tests_db.h:33`: `log_test` returns 1 if successful, 0 otherwise | returns 1 when the INSERT was refused |
| `queue` | `hw_verif_udp.h:80-81`: additional requests are held in a queue until complete | the fifth one is dropped by the MAC |
| `spi_hangs` | `spi_test.h:24`: returns `TEST_SUCCESS` or `TEST_FAILED` | waits for ever, on perfect wires, for a message that fits into the slave's FIFO: its handler polls for a clock that the interrupted thread has yet to start |
| `rx_lag` | `ethernetif.c:308-309`: `low_level_input` returns the received packet, or NULL on memory error | returns NULL with frames received and memory left, after a restart that found a frame unread |

The modules show some more that no run is spent on: `get` prints "No record
found" for a SELECT that SQLite refused, prints the records of the identifiers
before a wrong one and only then ends with `ARGS_ERROR`, and takes 2^32 for
identifier 0; `-n ""` counts as `-n 0`; `-u --all` is accepted although
`--all -u` is refused; `get_next_id` writes 0 and returns 1 when its SELECT was
refused; a UART test waits for ever when a frame or noise error has aborted
its reception (`Broken` in `ReturnsUnlessBroken`); once a restart has left the
indices of the ring apart, a second one with a dry pool can make the driver
hand out a buffer twice, which is why `OneOwner` is about a `sound` ring.

**Bounds.**  Two invocations suffice for every property that relates a row, an
answer or a lock of one with those of another, since each property mentions
at most two; each performs two tests, so that an answer can be taken for that
of a later test and an identifier can be read between two rows.  One
descriptor in `core` makes the ring overflow; in `sequential` there are four.
`IntMax = 1` lets the four tests of two invocations run past the largest
identifier.  Three clients and two descriptors are the smallest instance in
which a request is served while another waits and a third is refused.
For the peripheral tests, three bytes are one more than fit into a UART's TDR
and shift register and into the SPI FIFO of the instances, so a transfer is
seen running in the middle, and shorter messages fit.  A second fault can hit
the way back or the next test.  A message is sent twice, so a fault that
survives a test would show in the next one; the tests of a run are unbounded
in number.  The interval of five counts with a delay of at most two lets TIM6
stop at several places of its period, and `Wrap = 8` lets TIM2 overflow within
a test.
Three descriptors are the fewest in which a ring has a middle; five buffers,
of which LwIP keeps four, let the pool run dry while the DMA still has a
descriptor; six frames go round the ring twice; the second link failure meets
what the first has left.  With nine frames (12 million states) `OneOwner` and
`IsAQueue` hold as well.
Four arguments are enough for two flags with a message each, a repetition
behind a message, and `-n` with its value anywhere.  With `IntMax = 1` the
identifier 4 wraps to 0.
`CHECK_DEADLOCK FALSE` stands only where every invocation comes to an end and
nothing is left to do, or where an invocation waits for an answer that was
lost, as the real one does; in the peripheral runs it is there because a
test whose interrupt never comes spins without changing any state, in the
Ethernet runs as the frames and link failures are bounded, and in `commands`
because the reader and the others end.

**Fairness.**  Each invocation that can take a step eventually does (a
preemptive scheduler), the superloop goes round (nothing else runs on the
UUT), and a datagram that is not lost arrives.  Nothing is assumed of losing,
killing, starting or of which outcome an iteration has.  `Terminates` needs a
network without loss and as many descriptors as invocations: with fewer a
request may be dropped and its sender waits for ever, which is the hazard at
`main.c:569`.  In the peripheral tests the test runs on, a pending interrupt is
taken, and the DMA and the lines or the clock work on; nothing makes a fault
happen or another test begin.  In `ethernet` the superloop goes round, and a
reassembly that is never completed times out (`IP_REASS_MAXAGE`, 15 turns of a
timer of one second, which the superloop runs for ever: strong fairness of
`ReassTimeout`); nothing makes frames come or the link work.  In `commands`
the reader runs on, whatever the others do.

**What the properties leave out.**  Some state their exception, because the
code does not do better, and so do not report it; the hazard's note says so.
That a failed `INSERT` loses a record, and that two invocations at once log one
identifier, is shown by `log_return` and `primary_key` alone, the runs that
find a comment and a table of the documentation violated.  `IdsNeverRepeat` exempts the
identifier that the overflow produces, `PrintsOwnRow` is about invocations one
after the other, `GetAnswers` about identifiers within the range of `int`.  The
timer test's DMA and interrupt are served in either order, but before the next
count.

**Symmetry** is used in `core`, `sequential` and runs that look for a state:
invocations are interchangeable in every definition.  A `sqlite3_step` that
fails for no reason is left to the proofs (`OwnAnswers` and `LedgerIsKept`
hold for every set `Faults`).

## 4. What is proved

The theorems hold for every value of the constants: any invocations and
commands, any network, any number of descriptors and buffers, messages of any
length, any outcome of the hardware.  Where one assumes more, the table says so.

| Theorem | States | Assumes |
|---|---|---|
| `VerifProofs!TypeCorrect` | `Spec => []TypeOK` | |
| `VerifProofs!NoLocks` | `Spec => []NoLockAcrossNetwork` | |
| `VerifProofs!DistinctIds` | `Spec => []IdsNeverRepeat` | `Sequential`: no two invocations at once, `sqlite3_step` fails only for locks |
| `VerifProofs!OwnAnswers` | `Spec => []ResultIsOwn` | `MaxDups = 0` |
| `VerifProofs!OnePerformance` | `Spec => []PerformedOnce` | `MaxDups = 0` |
| `VerifProofs!SuccessIsEarned` | `Spec => []SuccessMeansAllPassed` | |
| `VerifProofs!OwnInvocation` | `Spec => []ResultFromOwnInvocation` | |
| `VerifProofs!ExitZeroIsLogged` | `Spec => []ExitZeroMeansLogged` | `Sequential` |
| `VerifProofs!OwnRowPrinted` | `Spec => []PrintsOwnRow` | `Sequential` |
| `VerifProofs!LedgerIsKept` | `Spec => LedgerKept` | `MaxDups = 0` |
| `UutProofs!InOrder` | `BenchSpec => []ServedInOrder` | |
| `UutProofs!VerdictsAreSound` | `BenchSpec => []VerdictSound` | |
| `PeripheralProofs!AdcLeftClean` | `Spec => []AdcClean` | |
| `PeripheralProofs!TimerReadsItsSamples` | `Spec => []TimerNothingUnwrittenRead` | |
| `PeripheralProofs!UartLeftClean` | `Spec => []UartClean` | |
| `PeripheralProofs!UartIsNeverBusy` | `Spec => []UartNeverBusy` | |
| `PeripheralProofs!UartReadsWhatItGot` | `Spec => []UartNothingUnwrittenRead` | |
| `BusProofs!SpiLeftClean` | `Spec => []SpiClean` | |
| `BusProofs!SpiIsNeverBusy` | `Spec => []SpiNeverBusy` | |
| `BusProofs!SpiReadsWhatItGot` | `Spec => []SpiNothingUnwrittenRead` | |
| `BusProofs!I2cLeftClean` | `Spec => []I2cClean` | |
| `BusProofs!I2cReadsWhatItGot` | `Spec => []I2cNothingUnwrittenRead` | |
| `PeripheralProofs!TypesAreKept` | `Spec => []TypeOK` | |
| `PeripheralProofs!PassIsSound` | `Spec => []SoundPass` | |
| `PeripheralProofs!FailureHasReason` | `Spec => []NoFalseAlarm` | |
| `RetrievalProofs!RetrievalTypes` | `RetrievalSpec => []RetrievalTypeOK` | |
| `RetrievalProofs!AnswersAreTrue` | `RetrievalSpec => []GetAnswers` | |
| `RetrievalProofs!ParserKeepsTheRules` | `RetrievalSpec => []ParsesByTheRules` | |
| `RetrievalProofs!ExportsOneMoment` | `RetrievalSpec => []ExportIsWhole` | |
| `EthProofs!EthTypes` | `Spec => []TypeOK` | |
| `EthProofs!EveryBufferHasOwner` | `Spec => []OneOwner` | |
| `EthProofs!FramesAreQueued` | `Spec => IsAQueue` | |

`Sequential` and `MaxDups = 0` are needed: over the network of `sequential`
`ResultIsOwn` fails, which is why only `ResultFromOwnInvocation` is checked
there, and `primary_key` is about invocations that overlap.  The modules'
`ASSUME`s say what kind of value a constant is, and two things more of an
argument (`ArgsAssumption`): it has at most one value, as `strtol` returns one
number, and none at all unless it is a word or a dash with letters or digits
behind it, since `strtol` does not take `-n`, `--all` or `get` for numbers.

Every invariant and both refinements that the passing runs check are theorems.

### The tester, the network and the UUT

*Types.*  `TypeOK` is not inductive: a request must name an invocation when it
is answered.  `IType` adds that `uut_msg` has a sender whenever the server is
not polling and that an invocation past `main` performs a real peripheral.

*Locks.*  `LockInv` ties each lock to the position of its holder: SHARED to
the two places between `step` and `finalize` of a SELECT, RESERVED to the
three inside an INSERT, PENDING to the last two of them.

*Identifiers.*  `IdInv`: at most one invocation lives, and the identifier it
has fetched and not yet logged is absent from the table or has wrapped.  With
`LockInv` its SELECT cannot be refused, since a pending writer would be a
second live invocation.

*Exit code and printed row.*  `LoggedInv`, on top of `IdInv`: the tests of a
command that are done have their rows, and from the commit of the INSERT to
the end of the SELECT after it the row of this test is in the table, the only
one with its identifier.

*Whose answer.*  `OwnInv` says that of each invocation at most one request is
anywhere (in flight, in a descriptor or being served), that while there is
one its sender still stands at `recv` or is dead and there is neither an
answer nor a record of that test, that an answer in flight or in `in_msg`
repeats a record of the test its receiver is at, and that records and rows
only exist for tests that are done or at the right stage.  Each is needed for
another: without the last a request might repeat a test already performed,
without the first two answers might wait in one socket.  Without
`MaxDups = 0` less survives: by `SourceInv` every request and every answer,
wherever it is, belongs to a test that its invocation has ordered, which is
`OwnInvocation`.

*What a verdict says.*  `VerdictInv` says of every test performed that the
verdict is 1 exactly when its peripheral is known and the passes counted are
the iterations asked for, and of a message test without a message that no
iteration of it passes.  `OrderInv` says that a request, wherever it is, still has the
number of iterations and the length that its command asked for.  Together with
`OwnInv`, which holds as long as `dups = 0`, they give `SuccessIsEarned`.

*The UUT alone.*  `UutProofs` rests on the same lemmas of `UutFacts`, with
clients that send what they like.  `ServedInOrder` is inductive as it stands,
once the types are known: tests performed, test in hand and ring, one after the
other, are what was accepted.

*Refinement.*  Under `OwnInv` the step `SendResult` is `TestLedger`'s `Judge`,
the successful `LogWrite` its `Record`, and every other step leaves the
abstract state alone.

### The peripherals

One invariant per device, which holds as long as that is the device in hand.

*ADC* (`AdcInv`): a conversion that was started is under way, stored or
announced, exactly one of the three, and only while the test waits for it; the
value that is judged is the one that this conversion stored.

*Timer* (`TimInv`): samples stored, transfers left and interrupts counted add
up.  The interrupt of an update runs before or after the DMA transfer of the
same update, so count and samples differ by no more than the update that is
being handled, and agree by the time the test goes on.  Between two
samples TIM2 gains on the last one what TIM6 counts; after a single drift
either a gap is wrong already or this count is off by one, so the next gap will
be wrong.  All of it is modulo `Wrap`.

*UART* (`UartInv`): `UartBalance` adds up, for each port, the bytes on their way
to it and those still to be sent, and compares them with those that it waits
for: there is a byte too many for ever after a glitch, and a byte missing only
when the test will wait for ever.  `UartSenders` says which transmission may
outlive its phase.  `UartByte(p, k)` is the k-th byte that the port gets,
wherever it is by now (in the buffer, in RDR, on the line or still with the
sender): as long as nothing is missing or too many these bytes are the message
exactly when none was damaged.

*SPI* (`SpiInv`): between its transfers a handle is at rest: ready, its streams
off, its FIFOs empty (`SpiPhases`).  While it is at work, what a receiver waits
for is what its own FIFO holds and what the transmitter has still to clock out,
in its FIFO or not yet in it (`SpiLeft`).  The two agree until the slave misses
a byte (`SpiMissed`); from then on one side waits for ever, so no later test
meets what is left over, which is why `SpiMissed` confines `pc` to the two
waits.  A sender's own receiving FIFO fills with what nobody reads; the handler
that polls flushes it before it sets the flag, and the slave that gives up
polling sets none.  So a flag says that the FIFOs of its handle are empty:
without that part `SpiClean` would not be inductive, as those bytes would meet
the next reception.  `SpiTexts` follows the k-th byte from its source through the
transmitter's FIFO, the receiver's FIFO and the buffer (`OnTheWay`), in each
direction.

*I2C* (`I2cInv`): the bus says how far a transfer is, and each side must match
it: before the STOP condition master and slave are both up (`I2cMasterUp`,
`I2cSlaveUp`), after it each ends on its own, its flag and its state together
(`I2cMasterEnds`, `I2cSlaveEnds`), so either may be first.  In the second phase
the slave is addressed before it is armed, and until `HAL_I2C_Slave_Transmit_DMA`
the transfer gets no further than that, because the clock is stretched.  Two
things lead away from this and are kept apart.  When the master is not
acknowledged (`I2cRefused`) it gives up without a flag; when the slave takes a
byte for refused it lets go of the bus, and the master reads idle bytes, while
the slave may never have sent all (`I2cGivenUp`).  In both the test waits for
ever or ends with a fault of its own, and all that is claimed is which flags do
not come.  And a bus that is held makes the master's call fail with the slave
armed: `I2cLeftArmed` is then what every later test starts from, and fails on.

`AllInv` puts the five together: the device is chosen at the start and stays.
`TypesAreKept`, `PassIsSound` and `FailureHasReason` read types and verdicts off
it.

### The command line and the readers

`LockInv` serves once more, with one reader among the invocations.  For `get`
the invariant says which identifiers have been answered, in order, and with
the first row of each at the time, which stays the first because rows are only
appended.  For `export` it says that what is printed and what is still sorted
make up the table, and that the table does not grow while the reader has
SHARED: a writer may have reached PENDING and waits.

For the parser the rules look at the whole list and the loop at one argument.
`Fits` states the rules for one option, given what stands before it; a list is
regular exactly when all its options fit (`RegularIsAllFit`), and whether what
stands before an option is regular does not depend on what follows
(`RegularPrefix`), which is what `-h` needs.  `ParseInv` says that the loop always
stands at an option or at the end (`NextOption`: never at a value or a message,
however much they look like options), that all options before it fit, and that
`seen`, `n` and each message are what those options say.  What the loop refuses
does not fit, and no later argument can mend that.

### The Ethernet driver

`UpdatesIt` states what `ETH_UpdateDescriptor` does, in a form without
cardinalities and `CHOOSE`: it builds the first `m` of the `cnt` descriptors
that wait; the first `t` buffers of the pool go, one each and in order, to
those of them without a buffer; it stops before `cnt` only when the pool is
empty.  Everything else about the driver rests on it.

*Types* need that a descriptor keeps the address of a buffer from the first
start of the link on (`DescInv`), since what `low_level_input` returns is
`DESC2`.

*Ring* (`Holds`): seen from `RxDescIdx` there are `k` descriptors with frames
up to where the DMA is, then the DMA's own, then, from `RxBuildDescIdx` on, the
`RxBuildDescCnt` that wait for a buffer.  The descriptors that wait are the
ones without a buffer, and the others hold the buffer the DMA writes to.

*Owners*: the buffers in the pool, at the descriptors, with LwIP and in hand
are disjoint, without repetition, and all there are.

Both hold while `sound`; a step never makes `sound` true again.

*Refinement.*  With a ring of `k` frames, `queue` is the sequence of their
`k` contents.  `ReadData` is `Deliver`, `DmaReceives` is `Accept` (the buffer it
writes to holds no waiting frame, by *Owners*), a `LinkFound` that leaves the
indices equal is `Forget`, and every other step, a `ReadNothing` that rebuilds
descriptors included, leaves the queue alone.

### What is only model-checked

* Liveness: `Terminates`, `AcceptedIsServed`, `ReturnsUnlessBroken`,
  `ReadingResumes`, `FramesAreRead`, `NeverDeaf` and `Ends` rest on fairness,
  which is out of the prover's reach.
* `ENABLED`, which the fairness of the specifications contains: no theorem is
  about it.
* That the small instances reach what they are about: each run fires every
  action, which is a fact of TLC's and not a theorem.

## 5. What is not modelled

* The dummy server (`debug_tools/dummy_server.c`), which answers every request
  with success: it keeps no state.
* The transmitting half of the Ethernet driver: it polls until the frame has
  left, and no state of it survives a call.  A frame that it drops is a lost
  response in `UdpNet`.
* Payload bytes and collisions of their CRC; timestamps as values.
* The inside of LwIP, beyond one callback per datagram, a `pbuf_alloc` that may
  fail and a reassembly that keeps buffers; the inside of SQLite beyond its
  locks and results.
* Bus errors of the DMA; loss of arbitration on the I2C bus.
* The start-up code that CubeMX generated (clocks, pins, MPU), which runs once
  before anything here begins, and the greater part of the vendored tree: most
  of `Drivers/STM32F7xx_HAL_Driver`, all of `Drivers/CMSIS` and most of
  `Middlewares/Third_Party/LwIP` are register definitions or functions that
  this program never calls.  The HAL functions that it does call are
  translated together with the tests and the driver that call them.  Measured
  in lines, the map therefore covers little of the whole tree, although it
  covers the program's own code.

## 6. Plan

Done: the system of tester, database, network and UUT; the UUT alone; the
tests of all five peripherals on one bench; the receiving half of the Ethernet
driver; the command line, `get` and `export`; and the proofs of section 4, which
cover every safety property that the runs check.  What could come next:

1. The transmitting half of the Ethernet driver, if it ever stops polling.
2. The collisions of the CRC, as a bound on what `SoundPass` may miss when two
   values are damaged.
3. Proofs of liveness, should the prover come to handle `ENABLED`.
