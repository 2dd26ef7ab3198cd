# Beelzebub in TLA+

Models, model checks and proofs for the parts of the Beelzebub kernel where several processors,
interrupt handlers and hardware units work on the same state. Paths below are relative to the root of
the repository. The modules keep the names of the code; a definition called *variant* (`...Early`,
`...Not`, `...Locked` and the like) is a wrong version of its neighbour, never part of a specification,
that shows that a property notices such a change.

## The system and its parts

Beelzebub is an x86-64 kernel in C++. The part of it with concurrent state forms layers:

    SmpBoot      brings up the processors, once; uses a lock and the Barrier
    Execution    threads of a core that spawn others, set timers and are pre-empted:
                 Scheduler on top of Timer, and IdPool for identifiers
    Valloc       malloc and free; arenas of chunks come from Vmm
    Vmm          maps and unmaps kernel pages; uses Vas, Pmm, Mailbox, locks
    Vas          which virtual ranges are in use; regions in an AvlTree;
                 guarded by RwTicketLock; descriptors from ObjectAllocator
    ObjectAllocator   objects of one size in pools; pools come from Vmm
    Pmm          physical frames; two uninterruptible ticket locks per space
    Mailbox      functions that one core posts to others (TLB shootdown)
    TicketLock, TicketLockUninterruptible, RwTicketLock, Barrier

Each layer is modelled on top of what the layer below promises, not of its code. A critical section
under a ticket lock is one step in `Pmm`, `Mailbox`, `Vas` and `IdPool`, because the lock is proved to be
exclusive (see *Proofs*). Where a lock is held while its owner waits for something else (a frame, mail,
another lock), the lock is explicit: `Vmm`, `ObjectAllocator`, `SmpBoot`. `Vas` is shown to implement
the page-by-page map `AddressMap`, and `Vmm` works on such a map. `Vmm` takes from `Mailbox` that
a post returns after all cores have executed the mail, and executes mail itself while it waits. `SmpBoot`
contains the accesses to the barrier, `Execution` those of the scheduler, its timers and the pool.

The rest of the repository is listed with its reason under *Not modelled*. `PROJECT.json` has the same
inventory with all files, the lines that each definition stands for, and the hazards the properties aim at.

## Modules

| Module | Code | State and steps |
|---|---|---|
| `TicketLock` | `sysheaders/common/beel/sync/ticket.lock.hpp` | `head`, `tail` (16-bit, wrapping), a register per core. One step per access to the word; the increment in `Release` is a load and a store. |
| `FifoLock` | abstract | Who asked, who holds, who asked before whom. |
| `TicketLockUninterruptible`, `MCTicketLock` | `ticket.lock.unint.hpp`, `x86/beel/interrupt.state.hpp` | Adds the interrupt flag of each processor, saved flags, guards, and an interrupt handler on top of each task. |
| `RwTicketLock` | `rw.ticket.lock.hpp` | The packed word of `ReadersTail`, `WritersTail` and `Head`; all operations but `UpgradeToWriter`. |
| `Barrier`, `Rendezvous` | `libs/common/src/sync/barrier.cpp`; abstract | `Left`, `Step`, one step per access; arrivals and departures. |
| `SmpBoot` | `beelzebub/arc/x86/src/kernel.cpp`, `arc/amd64/src/ap_bootstrap.asm`, `cores.arc.cpp` | The handshake words, the one stack pointer, the initialization lock, the barrier and its total. |
| `Pmm`, `MCPmm` | `beelzebub/arc/amd64/src/memory/pmm.cpp` | Large and small frame descriptors, the free and the split list with their links, reference counts. Handed-out frames and the references of their holders are history variables. |
| `Mailbox`, `MCMailbox` | `beelzebub/arc/x86/src/mailbox.arc.cpp` | Queue tails, links of the entries, the lock-free stack of non-maskable mail, interrupt state. |
| `AvlTree` | `sysheaders/common/beel/utils/avl.tree.hpp` | Trees as values, recursive operators for `Find`, `Insert`, `Remove` and the rotations. |
| `Vas`, `MCVas`, `AddressMap` | `beelzebub/src/memory/vas.cpp`, `regions.hpp`; abstract | Descriptors, their list, the tree, `LastSearched`; `Allocate`, `Free`, `HandlePageFault`. |
| `Vmm`, `MCVmm` | `beelzebub/src/memory/vmm.cpp`, `arc/amd64/src/memory/vmm.cpp` | Page tables, TLB of each core, frame counts, `KVas.Lock`, `KernelHeapLock`, the unmap lists. |
| `ObjectAllocator` | `sysheaders/common/memory/object_allocator_cbase.inc`, `object_allocator_pools_heap.cpp` | The chain of pools, `LinkageLock`, a lock per pool, the totals. |
| `Valloc` | `libs/valloc/src/valloc.cpp`, `libs/valloc/inc/structures.hpp` | Arenas: size, owner, the lists of the cores and the global list; the flag of every chunk; the queue `FreeList` of chunks freed by other cores. `AllocateMemory`, `DeallocateMemory`, `CollectMyGarbage` in steps from one shared access to the next. |
| `Timer` | `beelzebub/arc/x86/src/timer.arc.cpp` | The queue of a core, with times relative to the entry before, and the hardware count that goes on counting while `Enqueue` reads and writes it. `left`, the rest of the delay that was asked for, is a history field. |
| `Scheduler` | `beelzebub/src/scheduler.cpp`, `thread_switching.cpp`, `NoMathCoprocessorHandler` in `exceptions.cpp` | The linked queue of threads, the current thread, what the core believes to run, the owner of the values in the FPU. `Enroll` is two steps: it runs with interrupts on. |
| `IdPool` | `sysheaders/common/beel/utils/id.pool.hpp`, `beelzebub/src/execution.cpp` | The words of the pool, its ends, and how far each `SpawnThread` is. The order of the free list is a history variable. |
| `Execution`, `MCExecution` | the same | The composition: a thread takes a step when it runs, the timer interrupts it between any two. |

An action is a stretch of code between two accesses to shared state, named for the function it belongs to.
Registers that the code no longer reads are set to a fixed value, to keep the state space small.
The modules called `...Proofs` hold the theorems: `TicketLockProofs` those of both ticket locks, `SmpBootProofs` those of
`Barrier` and `SmpBoot`, `ExecutionProofs` those of `IdPool` and `Execution`, `VmmFaultProofs` and `VmmProofs` together those
of `Vmm`; `RwTicketLock`, `ObjectAllocator` and `Mailbox` have one each.

The modelled build is the default one: several processors (`SMP`), inline spinlocks, no `MANYCORE`.
Memory is taken to be sequentially consistent. On x86 the only reordering is that of a load before an older
store. The plain stores to shared words in these algorithms are those that pass a lock on, and a core
that comes back to such a word begins with a locked instruction. This is an argument, not a check.

## Runs

| Run | Instance | What it shows |
|---|---|---|
| `ticket_lock` | 2 processors, each a task and a handler; 5 tickets | 38 550 states. One holder; no handler waits behind its own task; interrupts come back on; first come, first served; every `Acquire` ends. |
| `rw_ticket_lock` | 3 cores, 4 tickets | 48 788 states. A writer is alone; the tails count readers and tickets; all are admitted in the order of their tickets; every request is granted. |
| `smp_boot` | 3 application processors, each may be dead; 3 values of `Step` | 5 011 states. Stacks are not shared, answers are not confused, initialization is serial, nobody schedules early, and boot completes if all answer. The processors then use the barrier again and again: it refines `Rendezvous`, and nobody is left in the loop. |
| `pmm` | 2 cores, 2 spaces, 3 large frames and a stray one, 2 small frames each | 253 611 states. No overlap of what is handed out, sound lists, exact counts, no call refused, nothing lost. |
| `mailbox` | 3 cores; shootdowns, debug register updates, plain broadcasts | 145 671 states. No entry outlives its poster, no mail is lost or run twice, return means done, posts end. |
| `vas` | 5 pages, 5 descriptors, requests of 1 or 2 pages | 23 817 states. Refines `AddressMap`; regions tile the space; the tree finds them; faults on demand are served. |
| `vas_stale` | as above | Violated: see *Findings*. |
| `vmm` | 2 cores, 3 pages, 4 frames (tables included), unmap lists of 1 | 234 232 states. Free frames are in no TLB and no table; counts are exact; only allocated pages are mapped; no two cores wait for each other (but for one known case); a stale translation has an invalidation on its way. |
| `object_allocator` | 2 cores, 3 pools, all release options | 194 531 states. Released pools are not touched, the chain is whole, totals are right at rest, calls return. |
| `execution` | 3 threads, 4 identifiers, a queue of 3 timers | 144 569 states. No thread falls out of the queue or is in it twice, no identifier is lost or given out twice, no timer fires early, the chain of ticks never breaks, every timer fires and every enrolled thread runs again. |
| `execution_fpu` | as above, two threads use the FPU | Violated: see *Findings*. |
| `valloc` | 2 cores, 2 arenas of 2 chunks, one of which can be extended to 3 | 138 068 states. Lists and owners of arenas agree, no freed chunk is lost between two cores, nobody works on an arena that is gone, and all memory goes back when nothing more is asked for. |

Some properties are conjunctions of what belongs together: `FramesAccounted` (lists and counts), `MappingsKept`
(`MappingsCounted`, `MappedPagesAllocated`), `HandshakeKept`, `EntriesKept`, `RegionsKept`, `PoolsKept`, `IdsKept`. Each is
tested with a variant of the code for either part.

### Bounds

- `TicketCount` stands for 2^16 and must exceed the number of contexts, as in the code. 5 for four
  contexts, and 4 for three, make the counters wrap all the time, so every alignment of the wrap occurs.
- `StepCount` 3 stands for 2^64: a step differs from the last one and from the one before.
- `Pmm`: a split list of three frames needs two large frames and a stray one, and so exercises removal at the
  head, in the middle and at the end. `MaxRef` 2 and `MaxHeld` 4 bound what the callers ask for, `MaxOdd` bounds the
  frames in use whose count is not 1. `IndexSpan` is the number of large frames
  that a 32-bit shift by 21 tells apart.
- `Vas`: five pages hold a guarded stack next to another region on each side, so all nine cases of `Execute`
  occur. A descriptor for every page means that allocation of descriptors does not fail.
- `Vmm`: four frames are two tables and two pages, so memory runs out in the middle of an allocation, and a list of
  one entry makes every unmapping of two pages take two rounds.
- `ObjectAllocator`: three pools make a chain with a middle; a pool has one or two objects; `Quota` 2.
- `Execution`: with three threads one runs and two are queued, so that the queue is empty, has one element and has
  two; three timers let a thread fill the queue around the tick's own entry. `Counts` 8 stands for 2^32: the wrap of
  `Time - count` would be seen as a time that no entry has. `MaxPostpones` bounds how often the tests postpone ticks. Four
  identifiers leave two free ones, so that spawning runs out and goes on after a release.
- `Valloc`: two chunks fill an arena, a third one needs the extension; two arenas are enough for one to be retired and
  adopted while its former owner works in the other. `closing` ends the requests, for `MemoryReturned`.

Four constants keep an instance away from a known weakness of the code, recorded as a hazard with a note; when the constant
is changed the named property fails:

| Constant | Weakness | Property |
|---|---|---|
| `TryAtLast` of `RwTicketLock` | the conditional operations at the last ticket carry into the neighbouring field (nothing calls them) | `TailsCount` |
| `Slow` of `SmpBoot` | a processor that answers after its timeout is taken for the next one | `HandshakeKept` |
| `IndexSpan` of `Pmm` | `lIndex << 21` in 32 bits, for a space of more than 4 GiB (`pmm.cpp:427`) | `FramesExclusive` |
| `TightTiming` of `Timer` and `Scheduler` | a tick of the hardware between two instructions: in the middle of `Push`, or between the read and the write of the count | `ThreadsKept`, `NeverEarly` |

`NoCircularWait` excepts the holder of `KernelHeapLock`, and `PoolsKept` says of `KeepOne` only that the totals are right, not
that a pool is kept: two deallocations can release the last two (`object_allocator_cbase.inc:502`).

Processors are symmetric in `pmm`, frames and cores in `vmm`, descriptors in `vas`; symmetry is used only where no
liveness is checked. Deadlock is checked except where the system may stop: after boot, in `vas` when permanent
regions fill the space, in `valloc` after `closing`, and in `vmm`, where the wait of `AllocatePages` with `KernelHeapLock` held,
the exception in `NoCircularWait`, does stop both cores.

### Fairness

A processor does not stop: a core inside an operation takes its next step (weak fairness). Nobody has to
start an operation. In `TicketLockUninterruptible` weak fairness of a task is justified because no handler
can run on top of one that is inside the lock. In `ObjectAllocator` the locks are ticket locks, which are
first come, first served, so taking one is strongly fair. In `SmpBoot` cores come to the barrier again and again, as in the
tests of the kernel. In `Mailbox` a core with interrupts on takes a pending one; `PostTerminates` excludes
an endless storm of non-maskable mail, which the code indeed does not survive. `BootCompletes` assumes
that every processor answers. In `Execution` the hardware counts (weak fairness of `Tick`); a pending interrupt stays
pending, and is taken although code disables interrupts for a moment again and again (strong fairness of `Interrupt`);
straight-line code goes on; a test that postpones ticks ends. Nothing is assumed of what threads do.
In `Valloc`, `MemoryReturned` holds for behaviours in which nothing more is allocated and the cores free what they
have and collect their garbage.

## Findings

- `vas_stale`: `LastSearched` may point to a descriptor that a merge has given back, and a fault on free pages
  is then served from it; the comment in `beelzebub/src/memory/vmm.cpp:149` says that it does not affect correctness.
- `execution_fpu`: `SwitchTo` loads the FPU for a thread unless it is `LastExtendedStateThread`, and the trap that gives
  another thread its first extended state does not change that variable (`thread_switching.cpp:108`). A thread that is
  switched back to goes on with the registers of the other one, although the comment at `thread_switching.cpp:130` calls the
  variable "the last thread whose extended state was used".

Met while modelling, without a comment or test that says otherwise (those that are hazards of `PROJECT.json` have a note there):

- `AllocatePages` that runs out of memory unmaps with `KernelHeapLock` held and waits for mail of cores that may be
  spinning on this lock with interrupts off (`vmm.cpp:379`); the frame it failed to map is not freed (`:365`).
- The boot barrier waits for processors that were never started (`kernel.cpp:1339`), and a late answer is taken for
  that of the next processor (`:832`).
- A range can be handed out again before the TLBs are told that it was unmapped (`arc/amd64/.../vmm.cpp:915`).
- `AllocateFrame` may report exhaustion while another core splits the last large frame (`pmm.cpp:436`).
- Non-maskable mail that is not awaited reads its link after it was let go (`mailbox.arc.cpp:99`); only a panic posts any.
- A merge of guarded regions loses a guard (`vas.cpp:353`), and a split without a descriptor for the rest loses the
  rest (`:460`).
- A failed PML2 leaves a PML4 entry to a freed table (`arc/amd64/.../vmm.cpp:556`); a table is linked before it is
  cleared (`:587`); `UnmapList` is used with interrupts on (`:854`); `FreePages` nulls entries before it checks the range
  (`src/memory/vmm.cpp:416`).
- Two deallocations release the last two pools under `KeepOne` (`object_allocator_cbase.inc:502`), and in a space of more than
  4 GiB two small frames get one address (`pmm.cpp:427`).
- A failure to acquire the first pool leaks a count of `BusyCount` (`object_allocator_cbase.inc:129`).
- In code that is not modelled: handlers are walked without the lock of `Unsubscribe` (`irqs.cpp:354`).
- `Enroll` links a thread with interrupts on (`scheduler.cpp:384`), and a timer may expire while its successor is
  programmed (`timer.arc.cpp:165`): the two cases of `TightTiming`. A timer that becomes the first is programmed late by
  the time that has elapsed for the former first (`timer.arc.cpp:190`).
- Nothing keeps a thread in `malloc` from being pre-empted by another one of its core, whose arenas it shares
  (`valloc.cpp:410`). `Valloc` assumes that this does not happen.

## Proofs

TLAPS checks the following for every value of the constants that satisfies the named assumptions.

**Ticket lock** (`TicketLockProofs`, from `TicketAssumption`: finitely many cores, fewer than tickets). The
invariant `IInv` says that `head - tail` (modulo the number of tickets) is the number of cores that hold or
await the lock, that their tickets are distinct and lie between `tail` and `head`, and that the holder's
register is `tail`. Exclusion alone is not inductive: without the count, `head` could come round and give out a ticket
twice. Each action has a lemma; the arithmetic is in `TicketArithmetic`, the counting in `OutstandingFinite`.
`TicketLockMutualExclusion` and `TicketLockOnlyHolderMovesTail` follow.

**First come, first served** (`TicketLockProofs`). With the cores closer to `tail` as those *ahead* of a core,
a `fetch_add` is `Ask`, the end of the spin `Enter`, a successful `TryAcquire` `EnterAtOnce`, the store of `Release`
`Leave`, and every other step is invisible: `TicketLockIsFifoLock`.

**Uninterruptible lock** (`TicketLockProofs`, from `ContextAssumption`: a task and a handler for each
processor). Its steps on the word are steps of the ticket lock (`UninterruptibleIsTicketLock`), so exclusion and order
carry over. `UIInv` ties the interrupt flag to the stage of the task, the flags saved by locks and guards to each
other, and the stage of the unint operation to that of the ticket lock; a handler that exists has found its task outside
of the lock and of guards. `UninterruptibleNoSelfDeadlock` and `UninterruptibleInterruptsNotLost` follow.

**Barrier** (`SmpBootProofs`, from `BarrierAssumption`: more than one core, more than one step value). The
invariant says that `Left` counts the arrivals of the current round and that the core that completes the round is alone
outside of the loop, so that nobody can be counted or read `Step` between the reset and the increment.
`BarrierIsRendezvous` maps each step to `Arrive`, `Open`, `Leave` or a stutter.

**Readers-writer lock** (`RwTicketLockProofs`, from `RwTicketAssumption`, with `~TryAtLast`). Measured from
`WritersTail`, the tickets of a round are those of the readers, up to `ReadersTail`; that of at most one core that was admitted
and has not moved `ReadersTail` yet; and those of the cores that wait, up to `Head`. `IInv` says this: `Counted` (how many of
each), `WaitingInOrder`, `OnePasses` and `Current` (what the registers hold at the stores). Exclusion alone is not
inductive, nor is the count: that only one core passes at a time is why the plain increments lose nothing.
`RwExclusion`, `RwTailsCount` and the action property `RwTicketOrder` follow.

**Boot** (`SmpBootProofs`, from `BootAssumption` and `BarrierAssumption`). `SerialInv` ties the lock to the stage of its holder, the total
of the barrier to the stage of the boot processor, and the set of those that have reached it to theirs: `BootIsSerial`,
without an assumption on how slow processors are. `ShakeInv` says that only the processor that is waited for can still
use the words of the handshake, and that they are set until it clears them: `BootShakesHands`, with `~Slow`.

**Kernel address space** (`VmmFaultProofs`, `VmmProofs`, from `VmmAssumption`). `IInv` is `TypeOK` with `Stages` (what a core
has locked at each stage), `Ranges` (what calls are at work on is allocated, and by one call only), `OnePurpose` (a frame
is mapped once, or is a table, or waits for a shootdown, or is in the hands of one fault; never two of these), `Counted`
(its reference count is the number of these uses, except between the mapping of a page and the count) and
`StaleTranslationsPending`. None of them is inductive alone: a frame stays out of the caches when it is freed because its
one use was one that the shootdown has waited for. `VmmFaultProofs` has the page faults and what commits pages, `VmmProofs` the rest and the
theorems `FreeFramesAreUncached`, `MappingsAreKept`, `StaleTranslationsArePending` and `NoCoresWaitInCircle`.

**Object allocator** (`ObjectAllocatorProofs`, from `ObjectAllocatorAssumption`). `Locked` says which locks a core has at
each stage of a walk, `Walk` how its registers agree with the chain, `Used` that the objects of a pool are free, with callers or on
their way back. `Chain` says that links lead to acquired pools, no two of them to the same one; the link to a pool
that was released and not yet unplugged counts as leading to its successor (`Leads`), or `Chain` would not be inductive.
A step changes only the links whose lock the core has (`Confined`), and so leaves the registers of the others right.
`ReleasedPoolsAreUnused` follows.

**Mailbox** (`MailboxProofs`, from `MailboxAssumption`: more than one core, and `EqualCounts`: queued mail has equally many
links, as `PostInternal` searches as many links of the tail as the new entry has; the kernel only queues broadcasts). The queue, the stack and
what `ExecuteNmMail` took from the stack are each the least set that has the first entry and is closed under the links of this core (`Reach`), so that no
induction along a list is needed: pushing, appending and taking the first entry each have a lemma on such sets, given that no two
entries lead to the same one and none to the first (`Linear`). `IInv` says of each core that these sets are exactly the mail it was sent and has
neither run nor at hand, by kind (`Mailbox_`), and of each entry that its counter is the number of destinations that have not run it
(`Entry`). `EntriesKept` alone is not inductive: it does not say that a queue ends at its tail, nor what the counter counts.
`MailboxEntriesKept` and the action property `MailboxReturnMeansDone` follow.

**Identifiers and the composition** (`ExecutionProofs`, from `IdPoolAssumption` and the assumptions of the
composed modules). `IdsKept` with `PoolTypeOK` is inductive once it says what the entry of an identifier is at every
stage of its holder (`Held`): `PoolKeepsIds`, for any capacity and any number of spawning threads. The threads of
`Execution` take exactly these steps, `ExecutionImplementsPool`, so that `ExecutionKeepsIds` carries over; this needs that the
thread that runs is always one (`AlwaysAThread`), that is, that a queue with a last element has a first one, which
`QueueInv` strengthens. With `~TightTiming`.

Only model-checked: all liveness properties (TLAPS does not prove liveness under fairness), everything that uses
`AvlTree` (recursive operators), the properties of `Pmm`, `Vas` and `Valloc`, `PoolsKept` of `ObjectAllocator`, and of `Execution`
`ThreadsKept`, `TickKept` and `NeverEarly` (what a chain of links or a sum over a sequence comes to needs induction over
data, which is out of reach of the provers).

## Not modelled

- *Hardware and firmware access*: interrupt controllers, calibration of timers, PIT, RTC, UART and keyboard registers,
  ACPI tables, CPUID, debug registers. Reads and writes of devices outside of the repository.
- *Sequential, pure code*: ELF, tar, UTF-8, conversions, big integers, command line, checksums, the bootloader
  `jegudiel`, start-up code of user programs. One thread, no shared state; ordinary tests reach it. This is by far
  the largest part of the repository.
- *Output*: terminals, fonts, splash screen, printing of structures, the debugger link `djinn`.
- *Code that is not built or not called*: out-of-line ticket locks, `MANYCORE` mailboxes, `UpgradeToWriter`,
  `UnsetPointer`, `Dispose` of the object allocator, the handle table, the interrupt-driven serial port and its ring buffer
  (the call that would turn it on is commented out), priorities, affinities and migration of threads, the end of threads
  and the release of references to them. The readers-writer spinlock has no user but its own test.
- *State that is only changed at boot, by one processor*: the lists of interrupt handlers, `MapRange`, `SetPageFlags`
  and lock elision, the tables of modules.
- *Parts of modelled components*: the lower half of address spaces, whose regions each process locks for itself, and the
  alien page tables (only tests work on a process that is not active); 2-MiB pages; growth of the descriptor pool in `KernelVas`; the layout of chunks in an arena of
  `Valloc`, with `ResizeAllocation` and `AllocateAlignedMemory`; the iterations of the AVL tree. System calls check arguments
  and call `AllocatePages` and `FreePages`.

## Running

    tlc -config MCTicketLock.cfg MCTicketLock      # any run: configuration and module are in PROJECT.json
    tlapm TicketLockProofs.tla                     # any module of proofs
