# Verification of TaskLunev

The repository is a collection of small programs about processes that talk to
each other: over shared memory and System V semaphores (`FWRonSemShm`), signals
(`Signal`), a message queue (`GenChildPrnt1_n`), named FIFOs (`SuperFIFO`), pipes
and poll (`Proxy`), TCP and UDP (`HPC.Net`) and threads (`HPC_Integral`), with one
library of pure algorithms (`BinArray`). Each program is a component of its own;
they share no state, except that `HPC.Net` calls `HPC_Integral`. So the project
has one TLA+ module per program (two where a program has two phases), an abstract
specification where a program has a short promise, and one module of proofs for
each component that has theorems.

## Inventory

| component | state | operations | who interacts | what is hard | what makes it correct |
|---|---|---|---|---|---|
| `FWRonSemShm`, rendezvous | memory with the id of the current reader's block; set EMPTY, MUTEX, FULL, W_READED; the kernel's undo adjustments | initialise, `GetConnShm`, the handshake of `reader` and `writer`, SETALL | any number of readers, writers and initialisers | order of semaphore operations, SETALL over other processes' semaphores, `SEM_UNDO` after a kill | one reader meets one writer, and a death gives mutex and slot back |
| `FWRonSemShm`, transfer | personal block and its size, EMPTY, FULL | the two loops, `Ptime`, `Vtime` | one reader, one writer | reading the size after giving the block back, timeouts, I/O errors, kills | the output is a prefix of the file; success means all of it |
| `Signal` | pending signals, the handlers' variables, the reader's byte | `kill`, `sigsuspend`, `alarm`, `write` | parent (reader) and child (writer) | signals do not queue, the alarm races the answer, SIGCHLD | lock step, no bit lost |
| `GenChildPrnt1_n` | message queue, standard output | fork loop, `msgrcv`, `printf`, `msgsnd`, IPC_RMID | a parent and n children | order of forks and turns, a failing fork, kills, removal of the queue | the numbers come out in order |
| `SuperFIFO` | connFIFO with pids, one FIFO per reader | `open`, `read`, `write`, `poll` | any number of readers and writers | who holds which end, SIGPIPE, a reader that gives up while a late writer sends, stale pids, an `fwrite` that fails unnoticed | one output holds one file; what the success of each side means |
| `HPC.Net` | listen queue, sockets, tasks, result | broadcast, accept with a timeout, tasks, answers | a server and its clients | lost datagrams, late and dead clients, clients without a task, division with a remainder | a printed result holds every part of the interval once |
| `HPC_Integral`, `hpc.c` | threads, their arguments and results | `hpcIntegral`, `_integral_linear`, `_pthread_calc_integral` | a caller, its workers and its dummies | `pthread_create` and `pthread_join` that fail half-way, dummy threads in the same arrays | the sum is that of the workers' parts |
| `HPC_Integral`, `cpu_topology.c` | the table of CPUs, the copy that is sorted | `cputopInit`, `cputopSortUniqSetsCoreId`, `cputopGetLogicCpuId` | called by `hpcIntegral` | gaps in the online list, sparse or unknown core ids, the same core id in two packages, a comparison for `qsort` that never answers below 0 | threads share the CPUs, and workers the cores, evenly |
| `Proxy` | pipes, the buffers of the channels, the answer of `poll` | `StartProxy`, `SendFile`, `StartFirstClient`, `StartClient` | a parent and a chain of clients | a stale answer of `poll`, full pipes, end of file together with data, short and failing writes, a size that overtakes the data, names that overlay or join one another | all of the file reaches the output, in order |
| `Proxy/CircBuffer.cpp` | two positions in a buffer | read, write, change of size | nothing calls it | wrapping around | first in, first out |
| `BinArray` | words and a number of bits | create, resize, set, find, fill, invert, copy a part | sequential | boundaries of words, empty ranges | agrees with a sequence of bits |
| `SuperFIFO/semaphore.cpp` | a FIFO of bytes | `mysem_open/close/post/wait` | nothing calls it | descriptors that `mysem_close` closes | counts |

`Task2FD`, `Algo/ring_buffer` (empty files), `AddLib`, `DebugFunc`, `HPC.Net/learn`, the tests, `hpc_new.c`,
`main_old.cpp`, `SuperFIFO_fail` and `init.cpp` are utilities, exercises, output for
debugging or code that no build file names. `PROJECT.json` lists every component with its status, and the
hazards of each at their lines.

## The modules

Every model has a set `Faults` of the things that may go wrong (time running
out, I/O that fails, kills, ...). Where a run must speak of both, a variable
`faults`, chosen initially as any subset of `Faults`, stays as it is, and a property
that needs a faultless run says `faults = {} => ...`.

**`FileTransfer`** is the abstract promise of a transfer: blocks are delivered in
order; each side ends well or badly; an end well means that everything has been
delivered, unless the file was unreadable.

**`PersTransfer`** models `writer` (`wrrd.cpp` 43-60) and `reader` (103-117). Every
semaphore operation, every access to the block and every test of a loop is a
step: `WRead`/`WStore` separate `read` from the store into `currSizeData`, `RCheck` is
the second look at it. A block is its number. `Ptime` fails when the other side
has ended or, with `"timeout"`, at any time. Standard output takes a block whole or
fails (a short write is not modelled).

**`ConnRendezvous`** models lines 19-34, 79-92, `InitConnShm` (130-155) and `GetConnShm`
(220-252). `undo` is the kernel's adjustment for each process: `P` and `V` change it,
SETALL clears it for all (so `semctl(2)` says), `Exit` applies it and does not go below 0. The
transfer in between is one step that succeeds or fails. A behaviour begins after an initialisation without faults (`Init`)
or with a fresh machine, two initialisers, kills and early starts (`InitFresh`); `Spec` has both, `ReadySpec` the first.

**`SignalBits`** models both processes of `Signal`, one action per system call. A
pending set holds each signal once. A byte has `BITS` bits and a buffer `SIZE_BUF`
bytes. **`MCSignalBits`** gives the files.

**`GenChild`** models `main`: the fork loop interleaves with the children already born.

**`SuperFIFO`** models `writer` and `reader` of the current `wrrd.cpp`. Which process holds
which end of which FIFO follows from where it is, so `open`, hang-up, end of file and
SIGPIPE are conditions on `pc`. Where the code looks and then leaves, the two are steps of their own: `poll` returns 0 (line 72,
`R_TimesOut`, then `"late"`) before the reader closes its FIFO (lines 76-78, `R_GiveUp`), and `read` of `connFIFO` returns 0 (`W_NoReader`, then `"noReader"`) before the writer
closes that (`W_GiveUp`); others may open, read and write in between. An `fwrite` that fails (line 87) returns 0, which `CHECK_ERROR` lets pass: with `"output"` the reader
goes on, `out` is what it has given to `fwrite`, and `lost` the places in it that were not written.

**`HPCNet`** models server and clients. The interval is `num_threads` parts; a task is
a run of parts, a result says how often each part was integrated, and NAN absorbs what is added.
`hpcnetCalcIntegral` ignores its argument `func` and always sends the
type X; which function is integrated is not part of the model.

`hpcIntegral` returns what `HPCIntegral` says it may: a sum, NAN, or -1 where `calloc`
fails, which the server adds like any number.

**`CpuTopology`** holds the functions of `cpu_topology.c`: the kernel's list of online CPUs
as runs (`Runs`, external), their numbering (`FillLogicCPU`), the sort by core and the rounds. `_cmpCoreId` answers 0 or 1, never below 0, which is no
order that `qsort` may count on. A `qsort` that only asks whether the answer is above 0 (glibc's merge sort) sorts by it, with
equals in any order: `SortCoreId`. Another one may leave the table as it likes: `Orders`, any permutation, which `HPCIntegral` uses with the fault `"qsort"`.
In a round a CPU is taken when its core's number exceeds that of the last one taken (`Takes`). A core's number is its `core_id`; the program does not read
`physical_package_id`, and the kernel may give the same `core_id` to cores of two packages.

**`HPCIntegral`** models `hpcIntegral` as it is built, with `LINEAR_TIME_CALC`. The machine (online
CPUs, the package and the `core_id` of each), the number of threads and the fault are chosen initially. A position of the interval
counts `num_threads * num_dummy` equal pieces, so that the ends of the workers' and of
the dummies' parts are whole numbers; `res` says how often each piece was added.

**`Proxy`** models `StartProxy`, `SendFile`, `StartFirstClient` and `StartClient`. A file is
cut into units of 16 bytes, what the parent writes at once. `Poll` takes a snapshot that `in` and `out` work through
channel by channel, while the clients go on. The parent's ends of the pipes do not block: `SetBlock` in
line 76 is called before `m_fdRead` is stored, and unblocks the descriptor 0. The name of a file goes out without its zero, client 0 takes whatever
characters are in the pipe as one name, and `nameFile` is never cleared: `Overlaid` is what has been read, with the rest of a longer `nameFile` behind it, and
the file of that name is opened if `Disk` has it, whichever it is. With "ab" and then "a" it is "ab" again. So `first.opened` is the names that were opened, and `ended` how each
`SendFile` ended. Names are shorter than the 256 characters of `nameFile`. A write to the standard output may be short or fail (`"output"`; a failure ends the parent, `OutputFails`). Where a client's write end
would block, `splice` waits on older kernels and fails from Linux 5.1 on (the fault `"eagain"`).
`Upstream[i]` is what is under way in the first `i` channels, `Sent(os)[f]` the contents of the first `f` opened files `os`.
**`MCProxy`** gives the sizes of the buffers, the files there are and the names that are sent.

**`BinArray`** is a library of pure functions. Memory is the set of the addresses of
its ones, and loads, stores and shifts are operators on such sets; `Cover`, `FindInWords`
and `Stores` follow the masks, words and loops of the code; `Move` is one turn of a loop of `baGetSubArray`. A caller may call in any
order (`Create`, then `Call`; the specification is `AnyCalls`), because what a call leaves past `num_bits_` the next one may find.
`baCheckCalcArg` adds `begin` and `len` in `size_t`; a `begin` so large that the sum wraps is left out (`Ranges`).

## The runs

| run | instance | what it shows |
|---|---|---|
| `pers` | 6 blocks, every fault | `BufferExclusive`, `OutputIsPrefix`, `SpuriousFailureIsHarmless`; implements `FileTransfer`; `Delivered`, `BothEnd` |
| `conn` | 2 readers, 2 writers; without faults, or with 2 initialisers and kills | `PairsAreExclusive`, `ResetOnlyReopensTheSlot`, `EveryoneLeaves` without faults; `MutexIsNotLost`, `SlotIsNotLost` always |
| `conn_init_zero` | 1 reader, 1 writer, set id 0 | violation: zero bytes pass for an initialised memory |
| `signal` | 2 bits a byte, 2 bytes a buffer, every fault | `Lockstep`, `TakenIsPrefix`, `LossIsWholeBytes`, `WriterSuccess`, `Delivered`, `BothEnd` |
| `gen_child` | 5 children, failing forks, kills | `OutputInOrder`, `RemovedQueueIsUnused`, `AllPrinted` |
| `super_fifo` | 2 readers, 2 writers, files of 1 and 2 blocks, FIFOs of 2, every set of faults | `OutputOfOneFile`, `SuccessLosesNothing`, `ShortOnlyByFailure`, `PairsComplete` |
| `hpc_net` | 2 clients, up to 4 threads, 0 to 2 clients wanted | `ResultIsWhole`, `IdleClientFailsAll`, `ServerSucceeds`, `EveryoneEnds` |
| `hpc` | every machine of up to 3 CPUs (0, 1 and 3) in 2 packages with the core ids 0 and 4, 1 to 4 threads, one fault at a time | `SumIsWhole`, `EvenLoad`, `CallReturns` |
| `proxy` | 2 clients; `SendFile` of "ab", "a" and "bb" (1, 2 and 3 units), with files also for what these become joined and overlaid; buffers of 2 and 1, pipes of 2, every set of faults | `InOrder`, `CountedIsWhole`, `SendFileEnds`, `Delivered`, `ClientsEnd` |
| `proxy_files` | 2 clients, "aa" and then "b", no faults | violation: a second file with a shorter name is not sent, and `SendFile` returns 0 |
| `bin_array` | 5, 9 and 14 bits in words of 3 bytes of 2 bits, two calls | `FillIsExact`, `FindIsFirst`, `SubArrayIsSlice`, `InvertFlips` |
| `bin_find` | 9 bits | violation: `baFindOne` finds ones past the end |

**Bounds.** Two readers and two writers are the least with which somebody outside a
pair can disturb it; two initialisers the least that overlap. Files of six blocks and of
up to two buffers of bits go round every loop several times and end inside and at the end of a buffer. With a FIFO of two blocks
one writer can end before its reader has looked, the other has to wait for it (`MCSuperFIFO`). With up to four threads and three computing
units the division leaves 0, 1 and 2 over, and there are fewer threads than clients.
Three CPUs on two core ids give cores of one to three CPUs in every order of numbers, gaps in the online
list, and with one to four threads no dummies, fewer and more dummies than workers, and more threads than CPUs; core 4 is sparse and 0 is the least; two packages are the least that can share a core id. Two clients are the least
chain with a buffer between two pipes; a file of three units is longer than any pipe or buffer, so that each of them is full, partly
written and empty in some behaviour. The three names are the least with which one opens an earlier file again, two are read as one, and one asked for is at
least as long as all before it.
Arrays of 14 bits have two whole words and a part of a third, so every loop over words runs 0, 1
and more times, and every range is tried at every place; three bytes to a word keep word, pair
of bytes and byte apart, as in `baGetSubArray`.
The proofs cover every number of processes and threads, length of file, width of byte and size of buffer and pipe.

**Fairness** is weak fairness of each process that runs. It is what the scheduler of the operating
system gives to a process that can run. `Conn` also needs strong fairness
of the waits on a semaphore: System V semaphores serve waiters in turn. Timeouts, kills
and failures are never fair, except where time passes: an alarm that is set, a
`poll` or `accept` with a limit does end. In `Proxy` the parent, client 0 and every other client are
fair each for itself, in `HPCIntegral` the caller and every thread (each is bound to a CPU); neither needs strong fairness.

**Deadlock** is checked, except where a process may really wait for ever: a reader
of `SuperFIFO` without a writer, a killed child of `GenChild`, a client of `HPC.Net` that never
hears the broadcast, a killed partner in `ConnRendezvous`, a thread
of `HPCIntegral` whose step is too small, a parent of `Proxy` whose output was written short. Every run of `Proxy` and `HPCIntegral` also stops where all have ended, so deadlock is left to
`SendFileEnds`, `ClientsEnd` and `CallReturns`.

## What the checks found

- `conn_init_zero`: the check in `GetConnShm` compares with a memory full of zeros, and 0 is a
  legal id of a set.
- `bin_find`: `baFindOne` and `baFindZero` compare a position inside a word with the
  length left, so in a later word a bit past the end passes. The test of `baForeach` says that
  `baFindOne` finds something just when there is something.
- `proxy_files`: the name of a file goes out without its final zero, and client 0 reads it over the last one. A
  shorter name keeps the tail of a longer one, `open` fails, client 0 exits, and `SendFile` returns 0 at its
  POLLHUP with nothing output, where `main.cpp` says that any number of files can be sent. Where the name that comes of it is that of
  a file ("a" after "ab"), that file is sent once more, and the `SendFile` ends by its count as if it had sent its own: `CountedIsWhole` therefore says which
  file it is only where no name before is longer.
- Noted, without a run: `core_id` alone is taken for the core. On a machine whose packages number their cores alike the rounds treat two cores as one, and two workers may
  share a core while another package has none, where a comment in `hpc.c` (line 145) says that the sort distributes the load evenly. `EvenLoad` speaks of the cores only where no `core_id` is
  that of two packages.
- Noted, without a run: a timeout or a kill in `FWRonSemShm` leaves the personal semaphore set and the memory behind;
  `plan` says the survivor removes the set.
- Noted, without a run: a writer of `SuperFIFO` that sends between the reader's timeout and its close returns `EXIT_SUCCESS` though nobody reads
  its file, or is killed by SIGPIPE; a reader whose `fwrite` fails returns `EXIT_SUCCESS` with blocks missing (both are in the model, and `SuccessLosesNothing`
  and `ShortOnlyByFailure` say so).
- Noted, without a run: `_cmpCoreId` never answers below 0, so whether the table is sorted depends on the library's `qsort`. On any table the rounds take every CPU
  once, so the threads still share the CPUs evenly (`EvenLoad`), but not the workers the cores.
- Noted, without a run: `_integral_linear` returns -1 where `calloc` fails, although its comment
  promises NAN; `HPC.Net` then prints a wrong result. A negative `eps`, or one that is lost in `a += dx`, passes
  `_verifier_int_arg` and no thread ever ends; so does a core that the kernel does not know (-1) in `cputopSortUniqSetsCoreId`.
  `_integral`, which is not compiled, would leave detached threads with arguments on a stack that is gone.
- Noted, without a run: a write to the standard output that is short makes `SendFile` of `Proxy` wait for ever; where
  `splice` heeds `O_NONBLOCK` (Linux 5.1 and later) a chain of two clients or more may deliver nothing.
- Noted, without a run: `baInvert` clears the bits outside its range in its first and last
  word; a length of 0 fills up to the end of the word (it shifts by 64); `baCheckCalcArg` accepts a `begin` and a `len` whose sum wraps; `baFind` ignores
  `begin` and `len`; `baSetOne`, `baSetZero` and `baGetValue` accept `num_bits_` itself, one bit past the array.
- Noted, without a run: a server of `HPC.Net` with fewer threads than clients never
  prints a result (`IdleClientFailsAll`); `clients_limit`, "Max number of clients", is the
  exact number needed; a `kill` of one child of `GenChildPrnt1_n` stops the rest for ever.

## What is proved

For every value of the constants that the named assumptions allow. Each specification has one inductive
invariant `IInv` (`ArrayInv` for `BinArray`), with `Init => IInv` and one lemma for each group of actions that keep it; the properties follow from it.

- `PersTransferProofs`: `TypeCorrect`, `Exclusion`, `PrefixOutput`, `HarmlessFailure` and
  `Refinement` (`Spec => Implements`). The invariant `IInv` says that at most one token
  is about (EMPTY, FULL, or the side between its P and its V), that a size in hand is that
  of the next block, in the block, or the end of the file (`Loaded`), and, for the second look
  at `currSizeData`, that a reader that finds 0 there has printed everything. Without the last part the
  property that success means delivery is not inductive. `CleanInv` adds that in a run without faults the reader
  never fails and removes the set when it returns: a writer that finds the set gone finds everything printed.
- `ConnRendezvousProofs`, for any number of readers, writers and initialisers: `MutexKept`, `SlotKept`
  for every run of `Spec`; `PairsExclusive` and `ReadyResetReopensTheSlot` for a connection that was initialised before (`ReadySpec`), and
  `FaultFreePairsExclusive` and `ResetReopensTheSlot` for `Spec`. A semaphore that nobody holds is free because the value and the
  adjustments that the kernel still owes it, added up, never fall below one (`CreditInv`), although SETALL overwrites the first
  and clears the second. That only one writer meets a reader follows from who is between which two semaphore operations (`ReadyInv`).
  The theorems about `Spec` without faults assume `Faults # {}`: a machine whose memory is fresh can always go wrong
  (two initialisers may overlap), and it says so by `faults`, which is all of `Faults`. If `Faults` were empty it could not say so.
- `BitsProofs`, about the two parts that pack bits in bytes (no name of one module is a name of the other, so one proof module extends both):
  - `Signal`: `TypeCorrect`, `InStep`, `PrefixTaken`, `WriterHeard`, `LossOfBytes`. An answer on
    its way belongs to the last bit sent (`AnswerInv`), which is why a late answer cannot be taken for the next one. `LossInv` names,
    for each byte that was written, its place among the finished bytes, for every width of byte.
  - `BinArray`, for every width of byte, number of bytes in a word (two at least) and size of array: `FillsExactly`, `FlipsExactly`, `FindsFirst`, `CopiesSlice`.
    The invariant `ArrayInv` only says that an array has a bit at least and that its bits lie in the memory allocated for it, whatever a
    caller has called before; the rest is about the operators. The masks and the words between them are the range (`CoverIsBits`). The search
    word by word finds the first place (`FirstInWords`), and so does the one in the first word, which is shifted as a
    signed number (`FirstInRest`). In the copy no store begins past what the one before has got right (`StoresChain`), so that after
    every turn of the three loops what lies before the next store is copied (`TurnsCopy`, with a least counterexample), although a
    turn writes more than it moves on.
- `GenChildProofs`: `TypeCorrect`, `OrderedOutput`, `Exclusion` (one turn at the most, a step towards the others), `RemovalIsSafe`. Where the turn is
  says how long the output is (`TurnInv`), and there is one turn at the most.
- `SuperFIFOProofs`, for any number of processes, files and sizes of a FIFO: `TypesKept`, `OneFileOnly`, `SuccessKept`, `ShortOnlyThen`. A pid is
  in `connFIFO` or with one writer, never twice (`PidInv`); who has opened an end follows from where he is (`FdInv`);
  and what a reader has given to `fwrite`, what its FIFO holds and what its writer has left are the greeting and one file (`PipeInv`), also
  where the reader's time is over and the FIFO not closed yet.
- `HPCNetProofs`, for any number of clients, threads and clients wanted: `WholeResult`, `IdleClient`. The tasks of the clients in the
  order of their acceptance meet end to end (`OrderInv`, `ServerInv`), a socket holds the answer to its own task
  (`ClientsInv`), and the result is the sum of the tasks whose answers were read (`ResultInv`).
- `HPCIntegralProofs`: `WholeSum`, `SharedEvenly`. The parts of the workers meet end to end (`PartsInv`), a thread that is `"done"` has
  its result in `int_args` (`DoneInv`), and what has been added is what lies before the part of the next worker to be joined (`SumInv`); for
  every set of CPUs and cores, number of threads and set of faults. The parsed list is that of the online CPUs, each once (`ListParsed`: the kernel's
  runs are their pieces). On a sorted copy (`Ordered`) a round takes one CPU of each `core_id` that has one left, so after `r` rounds each has given `r` CPUs or all it
  has (`Rounds`), and no prefix of the table favours one (`Fair`), in whatever order equals are; that is about cores where no `core_id` is that of two packages' cores. On a copy in any
  order a round takes one CPU at least and no CPU twice. The rounds end with the whole table, whose place
  `t % Len(cpus)` thread `t` gets: worker `t` the place `t`, and of `m` threads no place gets two more than another (`DealtEvenly`), sorted or not.
- `ProxyProofs`, for every chain of clients, disk, sequence of names and size of buffers and pipes: `OrderKept`, `CountedWhole`. What is
  output, then what is in the pipes and buffers from the last to the first (`Upstream`), is a prefix of the files that client 0 has opened, in that order (`StreamInv`),
  whatever their names have become. The rest of the invariant says what the snapshot of `poll` still means while the clients go on (`PollInv`), that a buffer's
  position and size stay inside it (`ChanInv`), and that `sizeFile` counts what has come out of this file (`CountInv`). That the file is the one asked for, where no name before it
  was longer, needs that what is in `nameFile` is never longer than the longest name so far, and that a `SendFile` that is counted found nothing of another one's name in the
  pipe (`NamesInv`).
  `Sent` and `Upstream` are recursive functions; what they compute for every index is proved with a least counterexample
  (`WFMin` of the library), not with its induction rules.

The assumptions are those of the modules (lengths are natural numbers, sizes positive, finitely many processes, `Faults` among
the kinds named), and `Faults # {}` where it is said; nothing else is assumed. `BinArray` has no bound on its calls in the theorems but `MaxCalls`, any natural number.

The SMT encoding of tlapm 1.4.5 says of every value `s`, not only of sequences, that `Len(s) = n` exactly where `DOMAIN s = 1..n`, and that `Len(s)` is
a natural number. Applied to a function with another domain that is contradictory, so a step that has both could be
proved by accident. Every proof was therefore also checked, from nothing, with these axioms restricted to sequences; the few steps
that had relied on more were rewritten.

Every invariant that a run checks is proved, and the action properties and the refinement too. Only model-checked: liveness
(`Delivered`, `BothEnd`, `EveryoneLeaves`, `EveryoneEnds` and the like), which is out of the prover's reach, as is `ENABLED`.

## Not modelled

- More than half of the repository's lines of C and C++ are not its own program: 12 generated `CompilerId` files of
  CMake (7,800 of 14,500 lines), the tests of `BinArray`, exercises (`HPC.Net/learn`), timing experiments
  (`BinArray/sandbox`), earlier versions and drafts that no build file names (`main_old.cpp`, `SuperFIFO_fail`,
  `init.cpp`, `hpc_new.c`), empty files (`Algo/ring_buffer`) and a wrapper that does not compile (`baInvert (arr_)` lacks arguments).
- `CircBuffer.cpp`: `LocalProxy.cpp` includes its header and calls nothing of it. `CircBufferChangeSize`
  never moves the reader, so it is a draft, and without a caller its protocol of use (who moves the reader, and when) is unknown.
- `SuperFIFO/semaphore.cpp`: nothing calls it. `mysem_close` closes the results of a comparison (a misplaced parenthesis)
  rather than its descriptors.
- `AddLib`, `DebugFunc`, the dumps: output and error macros. `Task2FD` is one comparison of two results of `fstat`.
- Of modelled parts: `hpcSimpleIntegral` (a loop), `hpcSetPolicy`, `cputopGetNumCoreCPU` (used by the dump), what is
  integrated, floating-point rounding, more than `LOGIC_CPU_MAX` CPUs, short writes of `FWRonSemShm` to the standard output.

## Plan

1. Done: every program that is built and its interaction, with the proofs above.
2. Done: the theorems about every invariant, action property and refinement that a run checks.
3. Left to TLC: liveness and `ENABLED`. Worth adding if the code grows: short writes of `FWRonSemShm`; `hpc_new.c` once a build
   file names it.
