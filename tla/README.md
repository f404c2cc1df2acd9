# A TLA+ model of school-projects

The repository is a collection of programs that share nothing but the place
they are kept in: a journaled file system, a thread library, a game on
cooperative threads, a shell, hardware models in SystemC, C++ class libraries
and exercises. Each part that keeps state gets modules of its own; what
connects modules here is what connects files there (a volume and its journal,
a game and its scheduler).

Contents: [1 the system](#1-the-system-and-its-parts),
[2 the modules](#2-modules-and-code), [3 the runs](#3-what-the-runs-check),
[4 bounds](#4-bounds), [5 fairness](#5-fairness),
[6 the proofs](#6-what-is-proved), [7 where code and documentation
differ](#7-where-the-code-does-not-do-what-it-says),
[8 what is not modelled](#8-what-is-not-modelled), [9 the plan](#9-the-plan).

## 1. The system and its parts

| Part | State | Operations | What makes it correct |
|---|---|---|---|
| LLFS journal (`operating-systems/llfs/io/journal.c`) | the circular log and its super block on the disk, a copy of the super block in memory | `journal_new_transaction`, `journal_recover`, `journal_init` | a transaction is on the disk as a whole or not at all after any crash, also one of the recovery |
| LLFS disk (`llfs/disk/disk.c`) | a file of 512-byte blocks | read, write, mount, unmount | a block is written as a whole |
| LLFS directories (`llfs/io/system.c`) | blocks of entries, `file_size` of the directory | `llfs_search_dir`, `llfs_dir_append`, `llfs_dir_remove` | a name is found from its creation to its removal |
| LLFS files (`llfs/io/system.c`, `File.c`) | the inode, one single and one double indirect block, the copies in an open handle | open, seek, write, close, delete | no block is used twice; memory and disk agree; deletion gives back what was taken |
| LLFS volume (`llfs/io/system.c`) | free-block map and inode map, in memory and on the disk | `llfs_init`, `llfs_load`, create, write, delete | maps, inodes and directory agree after any crash |
| concurrency (`advanced-cpp/concurrency`) | a bounded queue; a pool of threads | push, pop, close, clear; schedule, shutdown, destructor | no wake-up is lost, every task that was not refused runs once, shutdown returns when all have run |
| dining philosophers (`operating-systems/dining-philosophers`) | one mutex per mug, who has drunk | the loop of `phil`, `main` creating the threads | a mug has one holder, no deadlock, somebody drinks again and again |
| worm (`operating-systems/worm`) | cooperative tasks over `ucontext`; the board | task create, wait, sleep, readchar, exit; the game's five tasks | the worm stays in one piece; the game, once over, is shown to be over |
| shell (`operating-systems/shell`) | the history, an array that grows; children; a library of doubly linked lists | read a line, `!prefix`, fork and exec, control-C, exit; create, insert, delete, concat, unique, ... | recall runs the right command and leaves the history as it was; one program in the foreground; pointers both ways agree |
| map-reduce (`operating-systems/map-reduce-l1-fitting`) | an array of results that threads write, a context they share | `map`, `l1_reg` | every item is computed for the current row before anybody reads it |
| Diffie-Hellman (`systemc/diffie-helman-key-exchange/dh_sw.cpp`) | the parameters, private and public values of two parties; the state of a random source; numbers of many digits | `process_sw`, `R_GenerateBytes`, the `NN_` functions | both parties get the same key; digits, carries and borrows are right at every boundary |
| SystemC models (`systemc/fifo-interface`, `adaptors`, `memory`) | a channel with an arbitrator; a FIFO between ready/valid lines; a memory controller and its test bench | processes that run in evaluation phases and at clock edges | every call gets its own answer; no word is lost or doubled; commands complete and return what was written |
| sorted set (`advanced-cpp/containers/.../sv_set.hpp`) | a buffer, how much of it is in use and how much there is | construct, copy, move, assign, insert, erase, reserve, shrink | the keys stay sorted, a buffer has one owner, also when memory runs out or a key cannot be copied |
| quadtree (`advanced-cpp/quadtree`) | a vector of rectangles, a tree of pointers to them, a selection | insert, iterate, collide; mouse and arrow keys | what collides is painted; iteration sees every item once |
| other class libraries and exercises (`advanced-cpp/*`, `arm-optimization-project`, `computer-architecture`) | none, or sequential data | exact arithmetic, matrices, mu-law, a blinker | results equal a formula |

How they interact, and what is hard about it:

* LLFS is single threaded. A call (`llfs_create_file`, `llfs_fwrite`,
  `llfs_rm`) changes the maps in memory, collects the changed blocks in a
  transaction and calls `journal_new_transaction`, which writes the log, then
  copies the blocks home, then moves `log_start`. `llfs_load` reads the maps
  and calls `journal_recover`. The hard part is a **crash between any two
  block writes**, including those of a recovery, and **errors whose return
  value somebody ignores**. Directories and file trees are **long sequences of
  legal calls** whose state is spread over `file_size` and block contents.
* `thread_pool` owns a `queue` but uses it only under its own mutex. The hard
  part is **who is notified** (`notify_one` with several sleepers), **a flag
  read without the mutex** and **who may still be inside a call at shutdown**.
* A philosopher holds one mutex while it waits for another: **deadlock** and
  **starvation**; `main` starts threads while it still initialises mutexes.
* The worm's tasks switch only at calls of the scheduler, but share the board,
  the flag `running` and the keyboard; `main` waits for them one by one:
  **something that must eventually happen** across five tasks.
* `l1_reg` calls `map` once for each row, and `map` starts threads that all read
  the one context and write into one array: **nothing but the division of the
  indices and the joins** keeps a reader from what nobody has written.
* The shell waits in two places, for a line and for a child, and **control-C**
  meets it in either; a recalled line is **tokenized in the history itself**.
* `sv_set` may **run out of memory**, or fail to copy a key, in the middle of an
  operation; the quadtree
  of a frame holds **pointers into a vector that changes** between frames.
* `process_sw` plays both parties in one go. It hands the low half of each
  quotient digit to an accelerator, but never waits for it: **the answer cannot
  arrive**, and the rest of the division has to make up for that. Its arithmetic
  reads carries off wrapped sums, which is right or wrong **at the ends of the
  range of a digit**.
* In the SystemC models processes meet in evaluation phases and on clock edges:
  **handshakes sampled at different times**, one event that answers everybody, a
  bus that two may drive.

## 2. Modules and code

A comment before each definition names what it stands for; `PROJECT.json`
gives the lines. A module `MC<X>` instantiates `<X>` for TLC; the modules
`<X>Proofs` hold the theorems and their proofs (section 6 says which is about
what). Definitions called `<D>_<what>` under a
comment "Mutant" are plausible bugs of `<D>`; no specification uses them. They
record that each property notices some change of the code.

**Several programs in one run.** The programs have nothing to do with each
other, so a run may hold several: `MCFiles`, `MCThreads`, `MCSystemC` and
`MCPrograms` add one variable (`part` or `program`) that never changes and says
which of them moves; the others keep their first values, whose free choices are
fixed where nobody looks at them. Its values also tell
well-behaved callers from others ("tidy directory", "open queue", "polite
pool", "settled dinner"), because several components keep what they promise only
to callers that respect some rule. The unconditional properties are checked over
all behaviours, the others where the rule is respected. In `MCVolume` and
`MCJournal` a variable of its own (`careful`, `clean`) does this.

### The journal: `Blocks`, `AtomicStore`, `Journal`, `MCJournal`

`Blocks` says what can be told about a 512-byte block: its type (the first
byte decides whether it is taken for a descriptor or a commit block; user data
may look like either), and what a descriptor says. `AtomicStore` is what a
journal promises: transactions change a store in one step, a crash forgets at
most the running one. `Journal` has one action per block written:

| Code | Actions |
|---|---|
| `journal_new_transaction`: descriptor, data, commit block | `NewTransaction`, `TransactionTooLong`, `WriteDescriptor`, `WriteData`, `WriteCommit`, `LogWriteFails` |
| `journal_transaction_commit`: read back, copy | `ReadEntry`, `IgnoreEntry`, `ReadHeaderFails`, `ReadDataFails`, `WriteHome`, `WriteHomeFails` |
| clear the next slot, write the super block | `ZeroNextSlot`, `WriteSuper` and their failures |
| the process dies; `journal_recover` in the next one | `Crash`, `Recover`, `RecoverFails` |

`home`, `log`, `diskStart` are on the disk, `start`, `txn`, `cursor` in memory.
The function reads the entry back from the log before it copies it; so does the
model (`ReadBack`), because what it reads depends on what earlier laps left.

### Directories: `NameSet`, `Directory`, `MCFiles`

`NameSet` is the promise: a set of names. `Directory` keeps the blocks and
`file_size`, as `llfs_dir_append` and `llfs_dir_remove` do: removal leaves a
hole and decreases `file_size`, appending reads `file_size` bytes into a
buffer that still holds the block before (`Buffer`), takes the first free entry
of it and writes it over the whole block.

### Files: `FileTree`, `MCFiles`

The references of one file: `GetPos` (`llfs_get_pos`), the extension of the tree block
by block during a write (`WriteBlock`), the transaction at its end
(`FinishWrite`), opening, which reads the indirect blocks in, and
`free_file_blocks`. `disk` and `inode` are what the journal made durable,
`handle` is the open file. `Seek` goes to any position that `llfs_get_pos` knows,
within the file or behind its end; where the code dies on the way, or at a write
from there, it is `SeekCrashes` and `WriteCrashes`. Another file may have any one block of `Foreign`, or
none, so reservations also find gaps in the map. The transaction is one step
here; `Journal` looks inside.

### Volumes: `Volume`, `MCVolume`

Both maps in memory and on the disk, the inode of every file and one
directory. Each call is one action up to the point where it submits its blocks;
then `Commit`, `CopyHome` once per part, `Retire`, with `Crash` anywhere and
`Load` after it. `CrashStaleCommit` is the crash in the middle of logging after
which an old commit block completes the entry, so that the next recovery copies
what was logged and whatever the other slots hold. The early returns of `llfs_create_file` and `llfs_delete` are
actions of their own because they leave memory changed (`CreateNoInode`,
`CreateDirFull`, `DeleteUnreached`).

### Threads: `ConcurrentQueue`, `ThreadPool`, `MCThreads`

A critical section is one step, from taking the mutex to returning or waiting.
`notify_one` moves one waiter of the chosen condition variable to "locking",
and a waiter may also wake by itself (`WakeUp`). The test of `is_shutdown_`
outside the mutex is a step of its own (`Schedule`, `BeginShutdown`). In the
pool the queue is a sequence: it is used only under `task_mut_`, after a test
that it will not block.

### Philosophers: `Dining`, `MCThreads`

`main`'s loop (`MutexInit`, `Create`, `SetThirsty`) runs beside the
philosophers; the actions of `Phil` are the lock and unlock operations and the
two writes of `states`.

### Lines through points: `MapReduce`, `MCThreads`

`l1_reg` and the `map` it calls for each row (`CallMap`, `CreateThread`,
`JoinThread`, `ReduceItem`, `RowsEnd`), beside threads that compute one result
per step (`MapItem`). A thread starts as soon as it is created. The error of a
line is any number (`error`, chosen at the start); an element of the array that
nobody wrote is `NoLine`, and reading it is a crash. `CallFails` is `exit` after
a failed `malloc` or `pthread_create`, which takes the threads along.

### The worm: `Scheduler`, `Worm`

`Scheduler` is `scheduler.c`: a step is one turn of the loop in
`schedule_task` up to a context switch. `Worm` EXTENDS it with the five tasks,
each from one call of the scheduler to the next, the key queue of curses and
`main`. The board holds what the code's array holds: 0, the age of a segment,
or minus the time an apple has left.

### Diffie-Hellman: `Bignum`, `RandomBytes`, `KeyExchange`, `MCKeyExchange`, `MCSystemC`

`Bignum` is the arithmetic of `dh_sw.cpp`, function by function: a number is a
sequence of digits of `2 * HalfBits` bits, a loop over digits is a fold that
carries what the loop carries, and every assignment wraps as the C type does.
`OnceComputed(x, op)` is `op(x)`; it has TLC compute the number a round leaves
before the next round begins, so that the depth of an evaluation does not grow
with the rounds of `NN_ModExp`.
`NN_DigitDivLH` returns its estimate unchanged, because that is what the calls
amount to in a process that never waits. `RandomBytes` has MD5 with a free
compression function (a state is the sequence of blocks that went into it) and
`R_GenerateBytes`; a byte is known by its digest and its place in it. Each has
its own actions: `TakeIn` gives the next piece of a message to `MD5Update`
(`DigestSpec`), `R_GenerateBytes` answers one request (`RandomSpec`).
`KeyExchange` has the encodings, the three `R_` functions and `process_sw`:

| Code | Actions |
|---|---|
| parameters before the loop | `GenerateFirst` |
| a round begins: parameters, which may fail | `NextRound` |
| `R_SetupDHAgreement`, before the loop and in a round, where the private value is copied | `Setup` |
| `R_ComputeDHAgreedKey`, the key is printed | `Agree` |
| the buffers are cleared | `Clear` |
| the end of the loop | `Stop` |

In `process_sw` the random bytes are any of a few values (`Random` for the
parameters, `PrivateValues`); that `R_GenerateBytes` supplies them is the other
part. With the numbers of the run, generation finds the primes 131 and 157 and
can also fail; a private value with a zero byte is cut short by `strncpy`, and
a public value that is not below the generated prime is refused.
`MCKeyExchange` runs the parts side by side: a behaviour is a run of
`process_sw`, a series of calls of `R_GenerateBytes`, a message digested piece by
piece, or one call of the library on operands of extreme digits; `MCSystemC` takes it as one of its parts.

### The simulations: `SharedFifo`, `BoundedChannel`, `HwFifo`, `DataflowLoop`, `MemoryController`, `MCSystemC`

| Module | A step | What is kept of SystemC |
|---|---|---|
| `SharedFifo` (`fifo-interface`) | one process runs until it waits (`WriteCall`, `WriteReturns`, `ReadCall`, `ReadReturns`, `Arbitrate`), or a clock edge (`Edge`) | immediate notification makes those that wait runnable in the same phase; the order within a phase is any; time goes on when nobody is runnable; the two clocks |
| `HwFifo` (`adaptors`) | a caller offers or asks for a word, or a clock edge | at an edge every process reads the lines as they were before it; what it writes shows after it |
| `DataflowLoop` (`adaptors/main.cpp`) | the same, with the loop's own adder and fork as callers and the `sc_fifo`s between edges | processes between two edges run until none can go on |
| `MemoryController` (`memory`) | a clock edge, at which controller and bench both act | the resolved bus (`Bus`); `Reset` starts the bench over |

`BoundedChannel` is what any ready/valid FIFO promises; in `HwFifo` the instance
`Channel` maps the lines and the ring to it, and `HandshakeIsChannel` is that
mapping's specification. The bench of `MemoryController` issues any commands
in any order where the repository's issues eleven; its `written` is the bench's
own record, with which its assertions compare.

### The shell: `Shell`, `LinkedList`, `MCPrograms`

`Shell` has one action for a line read at the prompt, by what it is (blank, a
builtin, a program, `!prefix`, `exit`), and actions for the child, for
control-C in either place, and for the handler. Words are strings that are never
looked into. The builtins that only print or call the system are one, which
does nothing to the state kept here. `LinkedList` is
`doublylinkedlist.c` on a heap: each function is an operator from heap to heap,
and the state machine calls them in any order on any node. A loop of a
function is a recursive function of the number of its rounds, whose values are the
heap with the loop's own variables (`SwapEnds` is a round of `reverse`, `HeadToTail`
one of `rotate_left`, `UnlinkEqual` one of `unique`, `EraseHead` one of `clear` and
`shift_left`); a loop that may end before its last round stands still from there.

### Sorted sets: `SortedSets`, `SvSet`, `MCPrograms`

`SortedSets` is the promise, sets seen in ascending order. `SvSet` keeps
objects with their three pointers and the memory behind them; every operation
that calls `operator new` has an alternative in which that fails, every copy of
keys one in which the copy fails. `InsertKey` copies the new key when the larger
ones have been moved out of its way: if that fails, `Shifted` is what it leaves,
a moved-from key (`Moved`) where the new one should be and the last key beyond
`finish_` (`Spilt`). A set is `Whole` without such a key. `torn` has the objects that a failed
assignment left with a dangling pointer. A double delete or a use of what is
deleted sets `crashed`.

### Rectangles: `QuadTree`, `MCPrograms`

A step is one event (the mouse pressed or released, escape, an arrow key, or one
that changes nothing) and the frame that follows: a
fresh tree, all insertions, the collisions. The tree is a value, built by the
functions of `quad.hpp`; `Visited` runs the iterator on it, `splits` counts
how often a node was subdivided.

## 3. What the runs check

| Run | Module | States | Question | Properties |
|---|---|---|---|---|
| `journal` | `MCJournal` | 1,298,720 | Crashes before any write and up to two disk errors at any accesses, over several laps of the log, with any clients and with clean ones: are transactions atomic, and does every call and recovery come to an end? | as long as no access has failed: `WriteAhead`, `RetiredEntryIsApplied`, and for clean clients `AtomicUpdates`: the journal implements `AtomicStore`, where the store is what a recovery started now would leave; whatever fails: `AlwaysIdleAgain` |
| `journal_stale_commit` | `Journal` | | *violated:* is an entry without its commit block really ignored? | `IncompleteEntryIgnored` |
| `files` | `MCFiles` | 629,950 | A directory from which only the last entry is removed: is it a set of names? A file that grows through all three kinds of reference, with restarts between any two steps and any one block taken by another file. | `TidyIsSet` (implements `NameSet`), `NoBlockTwice`, `HandleIsOnDisk`, `TransactionFits`, `DeleteFreesTree` |
| `volume` | `MCVolume` | 1,449,290 | Two crashes anywhere in creations, writes and deletions, also during recovery, with or without an old commit block: do directory, inodes and maps agree? | `CarefulIsConsistent`, `CarefulMapIsRight` |
| `volume_stale_maps` | `MCVolume` | | *violated:* are the maps in memory those of the disk when `llfs_load` has returned? | `LoadedIsOnDisk` |
| `threads` | `MCThreads` | 43,831 | The queue (two producers, two consumers, one place), the pool (two workers, two clients, two closers, three tasks that may schedule each other), three philosophers from either start, and the threads of `map` for any errors. | `NoLostItem`, `OpenCallsReturn`; `NoLostWakeUp`, `PoliteShutdownIsDone`, `PoliteShutdownReturns`, `PoliteTasksRun`; `SettledMugsExclusive`, `NoDeadlock`, `DinnerGoesOn`; `BestLineIsFound` |
| `worm` | `Worm` | 563,038 | Any keys, any lengths of sleeps, a board of four cells. | `WormInOnePiece`, `OverMeansEnded`, `GameOverIsShown` |
| `systemc` | `MCSystemC` | 201,110 | The shared channel, `hw_fifo` between any callers, the loop around it, the memory with any commands; every state of the random source, every cut of messages of up to five blocks into pieces of up to two blocks and a byte, the library on every combination of extreme digits, two rounds of `process_sw`. | `EveryNumberOnce`, `HandshakeIsChannel` (implements `BoundedChannel`), `AssertionsHold`, `NothingGetsStuck`; `ArithmeticIsExact`, `AgreedKeyIsShared`, `NoByteTwice`, `DigestOfWhole` |
| `programs` | `MCPrograms` | 118,681 | Any calls on lists of up to four nodes and on two sorted sets that may run out of memory or fail to copy a key (symmetric in objects and buffers); three rectangles; histories of three lines and two interrupts. | `ListsAreSequences`; `SetsOwnTheirMemory`, `SetsAreSorted` (implements `SortedSets`); `CollisionsArePainted`, `IterationVisitsAll`; `ForegroundOnly`, `HistoryKeepsCommands` |
| `list_unique` | `LinkedList` | | *violated:* does `unique` keep the first of equal neighbours? | `UniqueKeepsFirst` |
| `quadtree_resplit` | `MCPrograms` | | *violated:* is a node of the quadtree subdivided only once? | `SubdividedOnce` |
| `shell_recall` | `MCPrograms` | | *violated:* does `!prefix` run the most recent command with that prefix? | `RecallRunsMostRecent` |

Type correctness is proved for the journal, directories and files, the
volume, the queue, the pool, the philosophers, `map`, the worm and the three
simulations with a bus or a channel, and no run checks it again. The
type invariants of the other modules hold in the same runs; they are for the
reader, and no configuration lists them.

What they show:

* **The journal** is atomic and durable, with a recovery that may be
  interrupted any number of times, as long as no disk access has failed and
  for clients that never write a descriptor whose commit slot already reads as
  a commit block (`clean`). The write-ahead order, the order of retirement and
  the end of every call hold for all clients, the last one also when accesses fail.
  Without the proviso the run
  `journal_stale_commit` shows what `journal_recover`'s comment rules out: the
  commit block is only a block whose first byte has a certain value, the slots
  of an earlier lap are not cleared, and so a crash right after the descriptor
  leaves an entry that recovery accepts and copies, made of old data.
* **A directory** is a set of names as long as only its last entry is removed.
  After another removal a creation may overwrite an entry that lies behind
  `file_size`, so the properties are not stated for such directories.
* **The file tree** hands out no block twice, the transaction of the largest
  write fits, and what a handle has in memory is what a reopened file would
  read. `Delete` excludes sizes at which the code misbehaves (section 7).
* **A volume** of a careful client stays consistent on the disk at every moment of
  every crash, and the map that client allocates from never offers a block in use.
  Careful means: load again after a load that recovered something, do not
  allocate on a full disk; and, which no client can see to, no half-failed deletion
  and no crash in the middle of logging that meets an old commit block
  (`journal_stale_commit` shows the last one in the journal). `volume_stale_maps` shows
  why the first is needed: `llfs_load` reads the maps *before* it replays
  the transaction that may contain them.
* **Queue and pool** lose no wake-up with any callers. A pool whose program is
  polite (schedule is not called, or still running, once shutdown is called;
  shutdown is called once; tasks do not schedule) runs every task, and shutdown
  returns exactly when all is done.
* **The philosophers** do not deadlock and somebody drinks again and again, also
  while `main` is still initialising mutexes that are in use; mutual exclusion
  holds only after it is done. That *every* philosopher drinks again does not
  follow: the mutexes are not fair (section 5).
* **`map`** divides the rows so that every item is computed by one thread and
  none is read before; `l1_reg` finds a line no other is better than, in
  whatever order the threads run.
* **The worm** stays in one piece while the game runs; whatever ends the game,
  `main` gets through its four waits and shows it.
* **The key exchange** computes exactly what the table in `dh_sw.h` says,
  although the quotient digits it starts from are only half corrected, and both
  parties agree on a key in every round that uses the parameters its public
  values were made with. The odd step of the random state visits every state.

* **The shared channel** answers reader and writer with one event and still gives
  each call its own result: the arbitrator serves both before it notifies, and a
  call whose request was not served asks again. Every number arrives once, in
  order, and goes on arriving.
* **`hw_fifo`** and its adapters decide on lines of the cycle before, and are a
  bounded channel nevertheless, for any callers. In the loop around it all words
  are printed; in the **memory** no assertion of the bench fails whatever
  commands it issues, every command completes, and the two never drive the bus
  at the same time.
* **The shell** keeps every command in its history: a recall cuts the recalled
  item to its first word, but only after the whole was copied to the end (unless
  the memory for that copy was missing). At the prompt no program is left
  that it started, except those whose wait an interrupt ended.
  `shell_recall` shows that a prefix finds the *oldest* command.
* **Lists** are sequences after every call within the limits named in section 7.
  `unique` keeps one of each group of equal neighbours; `list_unique` shows that it
  need not be the first.
* **Sorted sets** are sets whatever fails, but for two failures: a copy assignment
  tears its target, and an insertion whose key cannot be copied in front of larger
  ones loses the last key and shows a moved-from one. A buffer has one owner, but
  for torn objects.
* **Rectangles** that collide are painted as long as no node is subdivided twice;
  `quadtree_resplit` shows that this can happen although the comment excludes it.

Violations are listed under `findings` with the sentence of the repository they
contradict. The last state of each trace is the contradiction; the traces are
short (three to fifteen steps).

## 4. Bounds

Bounds on parameters of the code:

| Run | Constants | Why this is enough |
|---|---|---|
| journal | a log of 6 slots (code 19), transactions of up to 2 blocks (code 10), 2 home blocks, 2 disk errors | an entry takes 3 or 4 slots, so the log wraps at every position and entries of both lengths overlay old ones; the proofs hold for all sizes, and for data that looks like a commit block |
| files, the directory | 4 names, 2 entries per block, up to 3 blocks | a block boundary in the middle, holes before and behind it |
| files, the file | 1 direct reference, 3 per indirect block, blocks of 2 bytes, up to 8 data blocks, writes of up to 4 bytes; block 1, 4, 8, 14 or none taken by another file | the file reaches the second child of the double indirect block; writes begin and end inside and at the end of blocks and cross each boundary between kinds of reference; seeks anywhere up to the size of the largest file; a gap at the first block, between the kinds of block and at the end of the map |
| volume | 2 names, 6 blocks of which 2 reserved, 4 inodes, 1 data block per file | both files can be alive and compete for what is freed; a third creation finds the disk full |
| threads, the queue | 2 producers, 2 consumers, 1 place, 2 calls each | several sleepers on both sides while the queue is full and empty; the proofs hold for all numbers, as for the next three |
| threads, the pool | 2 workers, 2 clients, 2 closers, 3 tasks, 2 places | a full queue with a client asleep, both workers asleep, two closers |
| threads, the dinner | 3 philosophers | odd, as the program's 5: two even ones are neighbours, which is where the alternation breaks |
| threads, the line | 4 rows, 2 threads, errors 0 and 1 | inputs of 3, 2 and 1 items: one that does not divide evenly, one that does, one with fewer items than threads |
| worm | 2 x 2 board, length 2 growing to at most 3, one apple, one key ahead | turns, collisions with the edge, an apple eaten; a worm of length 3 fills all but one cell |
| systemc, the simulations | a channel of 4 places with numbers modulo 10 (as in the code); `hw_fifo` of 2 words (code 1) of 5 values, 3 words printed (code 10); 4 addresses (code 256), blocks of 3 words (code 4), 2 values | the slower consumer lets the channel fill; a ring of one place cannot wrap; a block wraps around the end of the memory and overlaps others. `HandshakeIsChannel` is proved for every size |
| systemc, the key exchange | digits of 4 bits (code 32), primes of 8 bits in two digits, two rounds; blocks of 4 bytes (64) with a count of 2 (8), random states of 2 bytes of 3 values (16 of 256) | halves of two bits already overflow, borrow and need every correction; all 16^3 dividends by all extreme divisors; pieces of every length up to two blocks; a whole period of the random state |
| programs, lists (`list_unique` too, with 3 nodes) | 4 nodes, 2 values, at most 2 turns or shifts (`MaxTurns`) | every property is of any reachable heap and any call on it: two lists, and neighbours, ends and a middle within one |
| programs, sets | 2 objects, 3 keys, 3 buffers, capacities up to 3 | one buffer more than objects, so a reallocation may succeed or fail; a buffer freed by one object can be the other's next |
| programs, rectangles | a screen of 17 x 17, 3 levels, a node splits at 1 item (code 5 and 5), 3 rectangles, 1 move | two on a border of the root and one within; a split at each level; 17 is not even, so quadrants leave a strip |
| programs, shell | 3 lines kept, an array that grows by 2 (code 50), 2 processes, 2 interrupts | a reallocation with a line in it; a second control-C in the handler; a process abandoned while another runs |

Bounds that exist only to make the state space finite, each in a guard:
`MaxFaults` (disk errors in `Journal`), `MaxCrashes`, `MaxRefused`,
`MaxLostNames`, `MaxData` (`Volume`), `MaxBlocks` (`FileTree`), `MaxCapacity`
(`SvSet`), `MaxRects`, `MaxMoves` (`QuadTree`), `MaxHistory`, `MaxInterrupts` (`Shell`),
`MaxDirBlocks` (`Directory`), `MaxCalls` (`ConcurrentQueue`), `MaxKeys`
(`Scheduler`), `MaxApples`, `MaxLength` (`Worm`: `Room` keeps a cell free, see
section 7). In `MCVolume` the behaviours that are not careful have one fault
(crash, with an old commit block or not, refusal or lost name) in all; no
property of `volume` speaks of them.

`CHECK_DEADLOCK FALSE` stands in the configurations of systems that end: the
threads of the queue after `MaxCalls`, the destroyed pool, `l1_reg`, the game
whose `main` has returned, the loop of `adaptors` after its last iteration and
the bench after the last command, `process_sw` after its last round, a shell
that has exited. In `MCKeyExchange` `calls` is bounded by one period of the
random state.

## 5. Fairness

* `journal`: weak fairness of the running call and of recovery (`Recover` or
  `RecoverFails`): the process runs on, and a disk that went down is loaded
  again. Not of crashes or of new transactions. The property allows for a
  machine that crashes for ever.
* `threads`, the queue: weak fairness of each thread inside a call and of `Begin` (the
  question is whether as many pops as pushes all return). None of `WakeUp`: no
  thread may count on a spurious wake-up, so a lost notification shows.
* `threads`, the pool: weak fairness of workers, of tasks (they return), and of threads
  inside `schedule`, `shutdown` and the destructor. Nobody has to begin a
  call; no spurious wake-ups.
* `threads`, the dinner: weak fairness of `main` and of each philosopher, no more:
  a mutex that is free again and again may go to somebody else every time. So
  nothing is said about a single philosopher, who may be overtaken for ever; that
  the sleeps of `stumble_around` prevent it, as the program's README hopes, is a
  matter of microseconds.
* `worm`: weak fairness of the process (`main`, the loop, the running task),
  strong fairness of the end of each sleep while the loop is there to see it:
  every lap takes time, so a sleep that is looked at again and again is over in
  the end. None for the sleep of `generate_apple`, for which `main` does not
  wait, and none for keys: the game must end even if nobody types.
* `systemc`: weak fairness of the simulation as a whole: the simulator goes on
  until it is stopped. None of any single process: that all get their turn
  follows from the phases and the clocks in the models.

In `MCThreads` each of these is stated for the behaviours of its own program
(`program \in Queues => QueueFairness`); the others cannot move there.

## 6. What is proved

TLAPS checks every proof for all values of the constants that satisfy the
ASSUMEs of the modules.

| Module | Theorem | States |
|---|---|---|
| `JournalProofs` | `TypeCorrect` | `Spec => []TypeOK`, disk errors included |
| | `JournalInvariant`, `IdleLogEmpty`, `WritesAhead`, `RetiresApplied` | the invariant and the three properties for `Spec`, with any clients, as long as no disk access has failed (`faults = 0`) |
| | `JournalImplementsStore` | `AtomicUpdates`: for clean clients, as long as no disk access has failed |
| `FilesProofs` (`Directory`) | `SizeWithinBlocks` | `file_size` never exceeds the blocks that a scan up to it reads, in any use |
| | `TidyIsDense`, `TidyFindsAll`, `TidyImplementsSet`, `TidyDirectoryIsSet` | a directory from which only the last entry is removed is dense, finds every entry, and implements `NameSet`; the last is the property `TidyIsSet` of the run |
| (`FileTree`) | `FileTypes` | the variables of a file keep their types |
| | `BlocksAreUsedOnce`, `DiskHasTheHandle`, `WritesFitTheJournal`, `DeleteGivesBackTheTree` | `NoBlockTwice`, `HandleIsOnDisk`, `TransactionFits` and `DeleteFreesTree`, for every number of direct references, of references in an indirect block and of bytes in a block |
| `VolumeProofs` | `CarefulKeepsDisk`, `CarefulReservesUnused` | `CarefulIsConsistent`, `CarefulMapIsRight` for any numbers of blocks, inodes, names and crashes (none of them completed by an old commit block) |
| | `CommitsAreAtomic` | what a recovery would leave changes only when the commit block is written, or a crash leaves an old one in its place: for any clients |
| `ThreadsProofs` (`ConcurrentQueue`) | `QueueTypeCorrect`, `NoItemLost`, `NoPlaceLost` | types; no lost wake-up of a consumer in any use (`NoLostItem`), of a producer in a queue that is neither closed nor cleared |
| (`ThreadPool`) | `PoolTypeCorrect`, `NoJobLost`, `NoRoomLost`, `NoWakeUpLost` | no lost wake-up of workers, of callers of `schedule`, of either (`NoLostWakeUp`), in any use |
| | `PoliteShutdown` | when `shutdown` has returned to a polite program all workers have left and no task is open |
| (`Dining`) | `DiningTypeCorrect`, `DeadlockImpossible`, `MugsExclusive` | for every number of philosophers, from both starts |
| (`MapReduce`) | `MapInvariant`, `BestLineFound` | the invariant, and that `l1_reg` finds a best line, for any rows, errors and number of threads |
| `WormProofs` | `TypeCorrect`, `WormStaysInOnePiece`, `OneRunningAlways`, `OverMeansEndedAlways` | for every board and all bounds |
| `SimulationProofs` (`HwFifo`) | `LinesAreTrue`, `HandshakeImplementsChannel` | what the lines say is so; `HwSpec => HandshakeIsChannel`, for any size and any words |
| (`SharedFifo`) | `FifoDeliversInOrder` | `EveryNumberOnce`, for any size and any larger period of the numbers |
| (`RandomBytes`) | `RandomBytesDiffer` | `NoByteTwice`, for any lengths of state and digest, values of a byte and requests |
| | `DigestIgnoresCuts` | `DigestOfWhole`, for any lengths of block and count, any message and any cuts |
| (`MemoryController`) | `BenchAssertionsHold` | `AssertionsHold`, for any numbers of addresses, blocks and words |
| `ListProofs` (`LinkedList`) | `HeapStaysLists` | whatever is called, the heap is a set of chains with no node in common |
| | `ListsStaySequences` | `ListsAreSequences`, for any addresses, data and numbers of turns |
| `ProgramsProofs` (`Shell`) | `ProgramsRunInForeground`, `NoCommandIsForgotten` | `ForegroundOnly` and `HistoryKeepsCommands`, for any lines, processes and interrupts |
| (`SvSet`) | `SetsKeepTheirMemory` | `SetsOwnTheirMemory`, for any keys, objects and buffers, whichever allocation or copy fails |
| (`SvSet`) | `SetsStaySorted` | `SetsAreSorted`: `SvSet` implements `SortedSets`, the searches and the failures included |

How the arguments go:

* **Journal.** `JournalInv` says, for every point of the code, what the log
  holds and how far the copy has come: `LogInv` (what was logged, that the entry is
  accepted while it is applied and `txn` is what a reader would read),
  `ApplyInv` (what is already at its place; in "super" the next slot is
  cleared), `ControlInv` (`start = diskStart` unless down). Type correctness
  alone is not inductive for the properties: that retiring an entry leaves an
  empty log needs the cleared slot, and that needs that the slots of an entry
  and the next one differ, which is arithmetic modulo `LogLen`
  (`LogLen > MaxTxn + 2`). The implementation proof takes one step per action:
  the commit block's write is `AtomicStore`'s commit, everything else is a
  stutter, because copying what the entry says does not change what a
  recovery would leave. It needs `CleanInv`: before the commit block is written
  the commit slot does not read as one; that is what the proviso of a clean
  client is for, and it is stated nowhere else as a result. All this is
  claimed while `faults = 0`: `SafeInv` is `TypeOK` and, while that lasts,
  `JournalInv`.
* **Directory.** `TidyInv` is density, at most one entry beyond the first
  block, and no name twice (`Distinct`). From density `Found`
  finds all entries, the first hole is the one behind the last entry, and a
  removal always reaches its name.
* **The file tree.** `NoBlockTwice` speaks of what is on the disk and of what an
  open handle has, and during a write the two differ. `TreeInv` says, apart from
  types, for either of them that the references are `Formed` (two places of a
  file never have the same block, no block of it is block 0 or the inode's) and
  `Accounted`: every block is free, or one of the file's, or one of three others.
  The second is what makes a reservation succeed, because with `FileTreeSizes` the
  blocks that are accounted for are fewer than there are. `Clean` says that between
  calls disk and handle agree; `Dirty` what a write has put in its buffer since it
  began at some byte with some number of blocks: each indirect block that
  differs from the disk, and nothing but data blocks between there and the
  pointer and the indirect blocks above the ones added. From this `TransactionFits`
  is counting: the data blocks of a write of `MaxWrite` bytes are at most one more
  than it fills, and blocks that follow each other lie below at most two children
  of the double indirect block. `Grows` is the lemma for one block more: what
  `llfs_extend_file` links at each of the places where a kind of
  reference begins. The deletion's lemma is that the blocks it frees, direct, single
  and double, are the tree's, except at the sizes that fault.
* **The volume.** `Sound` is consistency of a disk. It holds of the disk except
  while a transaction is copied, and of the target of any transaction, logged or
  being copied. `Remaining` connects the two: what differs is still to be
  copied, so that after the last part the disk is the target. The target an old
  commit block makes is a mixture for which nothing holds, hence the
  proviso; that it is a whole disk nevertheless (`LogIsWhole`) is all that
  `CommitsAreAtomic` needs, which knows no proviso. `Holds` says
  that the maps in memory keep back at least what is in use on the disk, or in the
  target; that is all a reservation needs, and it survives the early returns of
  the code, which leave blocks reserved. It fails without `careful`: `llfs_load`
  reads maps that the recovery then changes, and a half-failed deletion frees too
  much.
* **Queue and pool.** The strengthening counts: while somebody sleeps,
  items (places) are at most the threads of that side on their way to the mutex.
  A notification adds one to both sides of the inequality, a thread that takes the
  mutex and acts subtracts one from both. `Close` changes neither side and
  `Clear` takes all items away, so consumers stay safe; places that `Clear`
  makes are told to nobody. `PoliteInv` adds where each task is
  (`StatusInv`), that nobody is inside `schedule` once a shutdown has begun, and
  that `idle_threads_` is the number of workers that left.
* **Philosophers.** The invariant is `LockedIsHeld`: a locked mutex has a
  holder. It survives `main`'s late initialisation, which can only unlock, whereas
  exclusiveness does not. If all waited, each who holds a mug would hold just its
  first one and wait for its second, the first of somebody else; an even number is
  a first mug only if it is 0, every second mug is even, so both mugs of that
  somebody would be 0, which they are not. So nobody holds a mug, and nobody waits.
  `SettledInv` gives exclusiveness once `main` is done.
* **Lines.** `MapInv`: what the loops range over (`Loops`), an element of the
  array is unwritten or holds the line of its index and of the current row
  (`Written`), a thread that is at work stays within the array and only exists
  during the call of `map` that made it (`Spans`), and an index is written,
  or lies before some thread, or belongs to a thread still to be created
  (`Covered`). When the last thread is joined only the first of these three is
  left, so nothing unwritten is read. `BestSeen` follows the comparison.
* **The handshake.** `HwInv` says that the lines are those of the registers:
  ready iff there is room, valid iff there is a word, the data line the oldest
  word, and `valid`, `ready` of the callers iff they are inside a call. The ring
  is arithmetic modulo `FifoSize` (`Ring`, `Place`): a delivery moves every word
  up by one (`MovesUp`), an accepted word takes a place of its own (`OwnPlace`),
  so an edge turns `Buffered` into its rest with what was added
  (`BufferedEdge`). The four cases of accepting and delivering are the channel's
  three actions and a stutter.
* **The channel of two processes.** `Turns` says whose move it is: a request stands
  from the edge of the caller's clock to the next turn of the arbitrator, and the
  caller sleeps in between. `InOrder` says that the number read but not printed,
  the numbers stored and the one written next go on from the last one printed,
  modulo `Period`; `Told` and `Taken` shift this by one in each of the windows
  between an answer and the caller noticing it.
* **The memory.** `BusInv` is one disjunct for each stage of a command as the two
  sides see it (`AtRest`, `Issued`, `Moving`, `Acknowledging`, `AfterAReset`). In
  each it says who drives the data lines, how far the controller and the bench
  have counted, and outside which addresses the memory is what the bench has
  written (`Same`). `WriteMoving` is where a block is half written: its addresses
  are distinct only up to the size of the memory, and a block that wraps around
  it writes some of them twice, in order.
* **Random bytes.** `Increment` is not a carry as one would write it, so that it visits
  every state has to be seen from the digits: `IncrementSplits` says that it steps
  the first byte and, when the ones behind it are zero, what it does to the rest, and
  by induction over the number of bytes there is a numbering of the states
  that each step moves on by one, modulo their number (`PlacesOf`). `RandomInv` puts
  every byte handed out at the place of its state in that numbering, the last one
  just behind the state that comes next, so within a period a new byte is at a new
  place. A request is a loop; `RoundKeeps` carries the invariant and the count through
  a round, and `RoundNearer` shows that the rounds modelled are enough.
* **The digest.** `DigestInv` is what MD5's context holds of a message: its length,
  its whole blocks in order, and its rest. `UpdateTakesIn` is the lemma that
  `MD5Update` keeps it for any piece, whether the piece fills the buffer
  (`UpdateLong`) or not (`UpdateShort`); cuts of a message at a multiple of the
  block length are `CutBefore`, `CutAfter` and `CutAcross`. `MD5Final` is two more
  updates, after which by `PadLengthIs` nothing is left in the buffer.
* **The shell.** `ShellInv` lists which processes there may be at the prompt and
  during a wait; `HistoryInv` counts: there are as many items as commands
  were put in, so that a recall, which puts a copy at the end, adds it behind the
  item that it cuts.
* **Lists.** `HeapIsLists` is the inductive invariant: the lists that can be walked
  from their heads are `Chained`, each a sequence of addresses without repetition
  whose nodes point at their neighbours both ways, and no two have a node in
  common. `ListsAreSequences` alone is not inductive: it speaks of the next call
  only. For the functions without a loop it is enough to say which pointers are
  written, and that these are of nodes that the other lists do not have
  (`Erased`, `ConcatBecomes`). After `swap` each list has the two nodes exchanged
  (`SwappedLists`), whether they were neighbours, apart, in two lists or one and the
  same node. A loop is a set of what may hold
  after k rounds, kept by one more (`LoopRuns`, and `NumberedLoopRuns` where a round
  depends on its number): after k rounds of `reverse` the list is `TurnedOver` at
  both ends by k nodes, after k of `rotate_left` it is the `Rotation` by k modulo its
  length, after k of `unique` what is kept of the first k nodes, one of each group
  (`LastsAreOne`), is linked to the node after them (`UnlinkedTo`). That a walk ends at the tail is proved by
  counting: a chain has no more nodes than there are addresses.
* **Sorted sets.** `Proper` says of objects, memory and the torn that each object
  that can be used has a buffer of its own, that fits it, and every allocated
  buffer such an object. A buffer has keys, moved-from ones among them, exactly in
  its used part (`Counts`), whatever an insertion left behind it. It is a predicate on three values because the actions
  are made of a few moves (`GivesUp`, `Takes`, `Refills`, `Exchanges`,
  `TornDies`), of which some make two: between them the values are not those of a
  state. A torn object is no owner, so that the buffer it points to may be
  anybody's; when it is destroyed, whoever shares the buffer is torn.
* **Their order.** `View` is what `SortedSets` sees of objects and memory, again
  for any three values. `OneChanges`: a call that touches its object's buffer and
  free memory changes one row of the view; it needs `Proper`, without which another
  object might be in that buffer. A row `Climbs` or is `Absent` or `Lost`
  (`SortInv`): its keys ascend, with moved-from ones anywhere between them. A whole
  row is the only enumeration of its set in ascending order (`OnlyOrder`): that is
  why the contents of a buffer are `Ordered` of what the promise has, and why a
  search, which only a whole set allows, finds what it should. `SearchFinds` is the binary search. The table of the right answers
  for all ranges solves its recursive equation, so there is a solution; and
  any solution is that table, as the shortest range on which it were wrong would
  be wrong because of a shorter one.
* **Worm.** One head, distinct ages, neighbours for successive ages; `Aged`
  keeps all of it and the move adds a new head next to the old. `SchedInv`:
  which task runs, what main's waits say of the tasks' states.

What the proofs assume of the constants stands in the modules' ASSUMEs, which TLC
evaluates for each run. Two say more than that something is a number:
`FileTreeSizes` in `FileTree` gives the disk room for the largest file (`Volume`
is where a disk may be full), and wants a write of `MaxWrite` bytes to fill no
more blocks than an indirect block has references (in the code 4 and 128) and
to fit, with six blocks, into a transaction (4 + 6 and 10). `MemoryAssumption`
wants two addresses at least (the code has 256).

Checked by TLC only:

* liveness, and whatever rests on fairness (`AlwaysIdleAgain`, `OpenCallsReturn`,
  `PoliteTasksRun`, `PoliteShutdownReturns`, `DinnerGoesOn`, `GameOverIsShown`,
  `NothingGetsStuck`): out of the prover's reach;
* what rests on recursive operators, which the prover cannot use (the search of the
  sorted sets and the loops of the lists are recursive functions):
  `CollisionsArePainted`, `IterationVisitsAll`, `ArithmeticIsExact` and
  `AgreedKeyIsShared`;
* properties of the runs that TLC refutes.

## 7. Where the code does not do what it says

Five of these are runs that TLC refutes (`findings`). The others were met on the
way; the models do what the code does, and the properties are stated for what is
left.

* Journal: an old commit block completes a new descriptor (`journal.c:63`, run
  `journal_stale_commit`). An error while an entry is read back or copied does
  not keep it from being retired (83): after a disk error an entry may be
  lost, which is why the safety properties speak of the time before the first.
* Directory: a creation overwrites entries behind `file_size`
  (`system.c:909`); such entries are also not found,
  `llfs_dir_append` says `FILE_FULL` while there is room, and
  `llfs_dir_remove` gives up before it reaches a name (687).
* Volume: `llfs_load` reads the maps before recovery (1350, run
  `volume_stale_maps`). An old commit block may complete a transaction of a
  call too (`CrashStaleCommit`); the blocks recovered are then of different times. A deletion that fails in `llfs_dir_remove` leaves the
  blocks of an existing file free in memory (774). `llfs_create_file` keeps
  the block and the inode it reserved when it returns early (1015).
  `llfs_reserve_blocks` on a full disk runs off the map (168-182). A directory
  entry has one byte for the inode number, and number 256 becomes 0, "free"
  (`system.h:38`).
* Files: a file of exactly ten blocks frees block 0 as its indirect block
  (628); one that exactly fills its single indirect block reads through a null
  pointer on deletion (640); seeking to a place whose indirect block is not in memory, the end of a full
  tree or anywhere further, does so too (533). A write from a place behind the last
  block goes through a null pointer (834); one from behind the end, but within
  that block, writes bytes that `file_size` does not count (830). `llfs_write` and `llfs_delete` ignore the journal's result (797), and
  `llfs_fwrite` always returns 0 (`File.c:86`).
* Queue: `close` and `clear` notify nobody (`queue.hpp:168`), so a consumer that
  sleeps when the queue is closed sleeps on.
* Pool: `schedule` tests `is_shutdown_` before it has the mutex
  (`thread_pool.cpp:72`); a task that comes later than the last worker leaves
  is never run, and a shutdown that then looks at its condition hangs. A second
  `shutdown` returns at once (86) while tasks run; of two that wait only one is
  notified (57). Tasks that schedule tasks on a full queue wait for ever (77).
* Philosophers: `main` initialises a mutex that may be held (`diningOut.c:128`);
  two philosophers then hold the same mug. "Preventing starvation" (its
  `README.md`) rests on sleeps of one microsecond per drink ahead (line 76).
* Worm: `task_wait` notices an exit only in a lap in which no other task slept
  between it and main's turn (`scheduler.c:194`): with a task that loops for
  ever it may never return. `task_readchar` returns `ERR` when a key is there
  already (245), so two quick keys end the game. Two keys within one interval turn
  the worm back into itself (`worm.c:159`). On a full board `generate_apple`
  searches for ever (268); `MaxLength` keeps the models away from that.
  `MAX_TASKS` is not checked.
* Diffie-Hellman: `NN_DigitDivLH` does not "implement the code shown below"
  (`dh_sw.cpp:441`): it never waits for the accelerator, so every call only
  writes the operands. Results stay right because `NN_Div` corrects what it
  gets. `strncpy` cuts a binary private value at its first zero byte (1622);
  the printed key then belongs to no public value. Every other round computes
  with `PARAMS2` on a public value made under `PARAMS1` (1640). When the first
  parameters cannot be generated, `process_sw` reports it, calls `sc_stop` and
  goes on. Each round seeds its random source in the same way (1594), so the
  rounds repeat each other; the model lets them differ.
* Diffie-Hellman accelerator: nothing in `required_part` writes its outputs
  `t0_new` and `t1_new` (`hw_process/required.hpp:17`; the results end in
  `t0_final`), so `bonus_part` begins with zeros and answers them unchanged; and
  `bonus_controller` reads `loop_cond` in its execute state before the
  registers have loaded what it is to compare. The software never waits
  for either.
* Quadtree: a node whose items on the inner borders reach the limit is subdivided
  again and loses its children (`quad.hpp:351`, run `quadtree_resplit`). The
  iterator begins at the root's items, so it finds nothing when the root has none
  left, and it never clears a quadrant it has entered, so it skips when two nodes
  of one level have children (98); `IterationVisitsAll` is stated for the other
  trees. When the tree rejects a rectangle `main` removes the last one of the
  vector, whichever was rejected (`main.cpp:105`), which may leave the selection
  dangling (`Dangling`, where the model stops).
* Shell: a prefix finds the oldest command (`SEEsh.c:456`, run
  `shell_recall`). A blank line calls `strcmp` on a null pointer, against "user
  errors should never crash SEEsh" (16). `signal()` has its System V meaning
  under the `_POSIX_C_SOURCE` defined here, so a second control-C while the handler
  runs kills the shell, and `waitpid` returns early and leaves the child
  behind, against 15 and 300-302; `curr_pid`, which the handler would kill, is
  never set. When the array of the history cannot grow it is freed and used
  further.
* Lists: `unique` follows a null pointer when the first two elements are equal,
  leaks the nodes it unlinks and keeps the last of a group, where its comment
  (399) says the first (409, run `list_unique`). `concat` wants the head of the other list. `shift_left`
  beyond the end returns `NULL` and leaves the last node allocated.
* Sorted sets: copy assignment deletes the old buffer before it allocates the new
  one (`sv_set.hpp:273`): if that fails `start_` dangles. The model lets
  such an object only be destroyed, which may delete a buffer that is another
  set's by then. `insert` moves the larger keys out of the way before it copies the
  new one (349): if that copy throws, the set has a moved-from key in the
  middle, and its last key lies beyond `finish_`, where nobody destroys it.
* Intrusive list: swap and move copy the sentinel and do not fix the
  pointers of its neighbours, against the comments at 102-105 and 124-126 of
  `intrusive_list.hpp`; nothing can be said of a list after either, so there is
  no model.
* Map-reduce: a failure of `malloc` or `pthread_create` ends the process while
  threads run (`mreduce.c:36-53`).

## 8. What is not modelled

* Time: sleeps may end at any moment they are looked at.
* The bytes of blocks, names and file contents; `llfs_fread` (it changes only
  the position of the handle); paths and nested directories (one directory
  stands for any).
* Disk errors in `Volume` and `FileTree`.
* The drawing of the worm's board, the drink counters of the philosophers
  (they only set the length of a sleep).
* The rounds of MD5; the bits of a digit beyond four; the accelerator, which
  never gets to work in the program and whose outputs lead nowhere (section 7).
* The numbers of `map-reduce` (errors are any of a set; the x value of a point
  is its row number, so no two are equal) and `l2_reg`, which nobody calls.
* The builtins of the shell that only print or call the system; of the lists,
  what only searches (`find`, `minmax`, `includes`).
* The window and the mouse protocol of the quadtree's program; coordinates are
  integers.
* In `SvSet`, failures while keys are moved or compared, comparisons of a
  moved-from key (searches are of whole sets only), and self-assignment, which
  the code tests for. `insert` shifts keys by assignment into raw memory,
  which the model takes for construction.
* Components listed in `PROJECT.json` as `not_modelled`: those of the plan
  below, and the ones that are pure I/O, examples or exercises without state.

## 9. The plan

Done: (1) the journal with its refinement and proofs; (2) directories, file
trees, the volume; (3) queue and thread pool; (4) dining philosophers; (5) the
worm and its scheduler; (6) the Diffie-Hellman program and its arithmetic;
(7) the SystemC channel, the hardware FIFO with its refinement and proof, the
memory; (8) shell and linked lists; (9) sorted sets and quadtree; (10)
map-reduce with its proofs; (11) the proofs of the volume; (12) the proofs of the
file tree, of the shared channel, of the memory,
of the shell, of the sorted sets with their refinement, of the random bytes and
the digest, and of the linked lists.

To come, in this order:

| Step | Module | Source | Questions |
|---|---|---|---|
| 11 | `JournalProofs` | | what still holds of the journal after a disk error |
| 12 | `MuLaw`, `Rational`, `Cache` | `arm-optimization-project`, `advanced-cpp/basics`, `advanced-cpp/cache` | pure algorithms against reference definitions over bounded inputs; the table against the formula, overflow of a normalised fraction, the recursive split against the plain loop |
