# XyOS: a TLA+ verification project

XyOS is a small 32-bit x86 kernel in C and assembly (`src/kernel/`). This directory holds TLA+ modules that
model its core, TLC configurations that check them on small instances, and proofs that TLAPS checks for every
value of the constants. `PROJECT.json` is the index: components, runs, the source lines of every definition,
findings, hazards and theorems.

Contents: 1 the system · 2 the modules · 3 the runs · 4 fairness · 5 the proofs · 6 where code and
comments disagree · 7 what is not modelled · 8 what could come next

## 1. The system

| part | source | state | operations |
| --- | --- | --- | --- |
| Lists, queues, bitmaps, maps | `lib/` | links, `tail`, words of bits | add, remove, enqueue, dequeue, set, clear, test |
| Boot | `boot/`, `init.c` | the memory map | `kernel_start`: its checks, the order of all the `*Init` calls, then `sti` |
| Direct mapping allocator | `memory/direct_mapping_allocator.c` | free and allocated lists by size, pool of `MemBlock`s | `DirectMappingInit`, `ReqBytes`, `RelBytes`, divide, merge |
| Paging and page allocator | `memory/paging.c` | page directory and tables, bitmap `page_state` | `PagingInit`, `PageAllocatorInit`, `PfHandler`, `ReqPage`, `RelPage`, `RelPages`, `UPdClone` |
| Segments and gates | `memory/segment.c`, `interrupt/idt.c` | GDT, segment registers, TSS, gates | `GdtInit`, `IdtInit` |
| Interrupts | `interrupt/` | `IntrVecMap`, `intr_handler`, IDT, 8259 masks | register, remove, mask, acknowledge, dispatch |
| Interrupt entry | `interrupt/intr_vec.S`, `intr_entry.S` | the current stack | stubs, `_alltraps`, `iret` |
| Threads and timer | `thread/`, `driver/timer.c` | free list, wait queue, block list, TSS, saved `esp`, `timer` | `CreateThread`, `KThreadRun`, `ThreadSwitch`, `ThreadSleep`, `ThreadWake`, `TimerHandler` |
| Processes | `process/` | process tree, free list, state | `CreateProc`, `CloseProc` |
| IDE driver | `driver/ide.c` | `block_queue`, drive registers | `IdeRead`, `IdeWrite`, `RunIde`, `IdeHandler` |
| Keyboard | `driver/keyboard.c` | `key_counter`, `cur`, the PS/2 controller | `KeyboardInit`, `KeyboardHandler` |
| Console | `driver/console.c` | screen, cursor | `cls`, `putchar`, `itoa`, `printf` |
| System calls | `syscall/` | a table | `Syscall` |
| File system | `file_system/` | none | not linked into the kernel |

How they meet. There is one processor, so concurrency comes from interrupts and from the thread switch inside
`TimerHandler`. Handlers run with interrupts off, because every stub starts with `cli`; threads run with them
on and take no lock. Code that a thread and a handler both execute (the queue of the IDE driver,
`ThreadSwitch` below `ThreadSleep`) is therefore exposed at every statement. All lists of `thread.c` share one
`node` per thread. The page fault handler calls both allocators and itself needs mapped memory to run.

What is hard here: interrupts between two statements of a list operation; a tick inside `ThreadSwitch`;
faults inside the fault handler; nested frames on several stacks; an acknowledgement that must reach two
controllers; tables, registers and gates that must be right at the instruction that first uses them; a driver
that polls a controller while keys are hit; one link field shared by several lists; allocators at their limit; a bitmap whose index
arithmetic selects an unexpected bit.

## 2. The modules

| module | models | state and actions |
| --- | --- | --- |
| `Lists` | `lib/list.h`, `lib/queue.h` | operators on the memory of links (`next`), with the aliasing C has |
| `Fifo` ← `Queue` | a queue and its users | `queue`, `ret`; `DoEnqueue`, `DoDequeue`, `DoGetHead`; `Fifo` is the abstract queue |
| `RoundRobin` ← `Scheduler` | `thread.c`, `switch_reg.S`, `timer.c` | `mem`, `tss`, `cpu`, `esp`, `timer`; `StartThread`, `Sti`, `TimerHandler` |
| `SleepWake` | `ThreadSleep`, `ThreadWake` | extends `Scheduler`; one step per statement, with ticks between them |
| `BlockPool` ← `Allocator` | the direct mapping allocator | `next`, `addr`, `held`; `FillStep`, `ReqBytes`, `RelBytes` |
| `Bitmap` | `lib/bitmap.h` | the bit that an index really selects |
| `PageAllocator`, `MCPages` | the page allocator and its users | `page_state`, `pte`; `InitEntry`, `InitRest`, `PfHandler`, `RelPage` |
| `PagingBoot` | `PagingInit`, `SwitchPd`, `set_cr`, `clear_cr` | `cr`, `cr3`, `mem`; a step per entry written and per control register |
| `PageTables` | the table walk of `PfHandler` | `pd`, `pt`, a stack of activations; `Touch`, `SetPde`, `SetPte` |
| `Interrupts` | `interrupt.c`, `idt.c`, `pic.c`, boot order | tables and 8259 registers; a step per statement of boot, `Raise`, `Irq`, `Return`, `Exception` |
| `Segments` | `GdtInit`, `IdtInit` | `gdt`, `gdtr`, `sreg`, `tss_ss0`, `gates`; a step per descriptor and per register |
| `Keyboard` | `keyboard.c`, the PS/2 controller, the keyboard | extends `Interrupts`; `Write`, `Read`, `Installed`, `KeyboardHandler`; `Command`, `Data`, `Send`, `Press`, `Release` |
| `Interrupts` ← `Kernel`, `MCKernel` | `kernel_start` as a whole | composes `PagingBoot`, `Segments`, `Interrupts` and `Keyboard` in the order of the calls; `IrqOf` and `HandlerOf` enter and end a handler |
| `TrapEntry` | `intr_vec.S`, `intr_entry.S`, `switch_reg.S` | registers and one stack per thread; a step per group of instructions |
| `Ide` | `ide.c` with its queue and drive | `mem`, `blk`, `io`, `ide`, `drive`, `irq`; a step per access to the queue |
| `Console` | `console.c` | `video`, `xpos`, `ypos`, `out`; `cls`, `putchar`, a directive of `printf` per step |
| `MCLibrary` | | runs `Queue` and `Console`, which use no other part, each on its own |
| `Processes` | `process.c`, `UPdClone` | the words of the overlapping blocks, the page directories; `CreateProc` |
| `LibraryProofs` | | theorems about `Queue`, `Scheduler`, `Console` and `PageAllocator` |
| `BlockProofs`, `GrantProofs`, `GiveProofs`, `AllocatorProofs` | | `Allocator`: recursion, walks and the invariant; a request; a release; the theorems |
| `BootProofs`, `KernelProofs`, `TrapEntryProofs` | | theorems about `PagingBoot` and `Interrupts`, about `Kernel` and `Keyboard`, and about `TrapEntry` |

An arrow points from the module that implements to the abstract one. A definition such as
`ThreadSwitchDropsCurrent` that no action uses is a deliberately wrong variant, placed before the right one. It
is there to show that a property notices the mistake.

The 8259s, the drive, the PS/2 controller with its keyboard, and what the CPU makes of tables, selectors, gates
and interrupts are not in the repository. They are modelled from how the
code programs them, and are marked external in `PROJECT.json`.

Granularity. A handler is one step when its stub has turned interrupts off and nothing can intervene. A function
that runs in a thread with interrupts on is one step per statement or per shared access (`SleepWake`, `Ide`).
In `Interrupts` and `Kernel` a step delivers an interrupt and enters its handler (`running`) and another one ends
the handler, because handlers poll, and exceptions come, and lines are raised, meanwhile. An EOI is sent in the
first of these steps or in the second, as the handler has it (`EoiFirst`).
Boot runs with interrupts off. `Interrupts` has a step per call; `Kernel` refines it to a step per table entry,
descriptor, register and byte, because the controller and whoever types do not wait for the processor.
`DirectMappingInit`, `ProcManagerInit` and `ThreadInit` are part of `Allocator`, `Processes` and `Scheduler`;
nothing the properties of `Kernel` speak of depends on them. One variable, `stale` of `Keyboard`, is not in the
code: it remembers that the flush of `KeyboardInit` took the byte of a request that was pending.

## 3. The runs

Runs that pass:

| run | instance | distinct states | shows |
| --- | --- | --- | --- |
| `library` | 5 nodes; screen 2 by 4, 5-bit ints, 2 directives | 520099 | links and tail spell the contents after every sequence of calls, `Queue` implements `Fifo`; the cursor stays on the screen, numbers read as themselves, fields are as wide as asked for |
| `scheduler` | 5 threads, slice 15 (the code's value) | 321 | no thread lost or duplicated, stacks not mixed, round robin, every started thread runs again and again |
| `allocator` | 4 sizes, 10 `MemBlock`s, area 17, requests of 1, 2, 3 and 8, at most 4 areas in use | 2447 | blocks tile the area and are aligned to their size, lists sorted, no `MemBlock` leaks, no overlap, refusal only when nothing fits, a pool smaller than the area suffices |
| `pages` | 64 pages, 4 user pages, 5 memory maps | 4939 | no physical page but 0 mapped twice, every page in use has its bit set |
| `kernel` | tables of 5 entries (2 user, 2 direct), memory cleared or not, devices 32, 33, 46, one key, 3 bytes typed | 26680 | paging, segments and gates are right when first used; the keyboard is installed after its own answers only, no byte of it is lost, boot ends unless the disk never answers; gates match handlers, open IRQs have their driver, everything acknowledged, no request starved; implements `Interrupts` |
| `trap_entry` | 3 threads, vectors 0, 13, 14, 32, 46, 2 frames per stack | 503490 | every handler sees the frame `IntrReg` declares, every thread resumes with its registers and with interrupts on |

**Scope of `allocator`.** This run sets `Release = "lone"`: an area is released only when its buddy is not free
and no smaller block is in use above it. It says nothing about releases that merge, which are wrong
(`allocator_merge`), or about the early stop of the search in `RelBytes` (section 6). `Unset = {0}` also fixes
the never-written `addr` of a list head to 0 there. Requests are restricted in both runs by the number
of areas in use alone, at most `MaxHeld`: without a bound the comment "store enough `MemBlock`"
(`direct_mapping_allocator.c:36-38`) is not true of a pool smaller than the area. Ten `MemBlock`s are the least
that suffice here: with 9, `PoolSuffices` is violated. In normal operation
the kernel only makes requests: releases come from `CloseProc` and from `IdeHandler`, and the one caller of
`IdeRead` is in the file system stubs, which are not linked.

**Scope of `pages`.** Page tables are taken to be present and reachable, which `page_fault` shows is not so for a
new table. Page 0 is excluded from `NoPageTwice`, because `ReqPage` returns 0 when memory is out and
`PfHandler` maps it. The assumption on memory maps says that the last page is not memory.

**Scope of `kernel`.** `MappedRight` is about the step that turns paging on; what page faults make of the tables
later is `PageTables`. The booted kernel idles in memory that `PagingInit` mapped, so its exceptions are all but the
page fault. `IdeInit` and `IdeHandler` poll the disk without a limit (`IdeWait`), and the liveness properties say
what holds when the disk never answers: `BootEnds` that boot ends or stays in `IdeInit`, `RequestsHandled` and
`BytesTaken` that the request or byte is taken or `IdeHandler` runs for ever. The loader may leave the
controller's interrupt on. Then a request can lose its byte to the flush (section 6), and `RequestHasByte` and
`RequestsHandled` except that request; `BytesTaken` does not. `BootEnds` is about machines with a keyboard: without one, `Read` at `keyboard.c:109` polls
for ever. `LoaderAssumption` says that the loader's code selector is 8, as the Makefile's loader has it, and
that the linker places `GdtLimit` where the low half of its address is a large enough limit: `gdtr.limit` is that
address (`segment.c:70`). `GatesEnterKernel` leaves out the system call's gate, which names a user code segment.
A keyboard's answer to the reset comes as two bytes at any time, and its test may fail.

**Scope of `scheduler`.** Threads are preempted only; none sleeps. With sleep, `SavedOwnStack`, the part of
`OwnStack` about saved stacks, fails (`saved_stack`).

Runs in which TLC finds the stated property violated:

| run | instance | the comment it tests |
| --- | --- | --- |
| `sleepers_run` | 2 pool threads, slice 2 | a thread "will sleep after sending a request" until woken (`ide.c:7-9`) |
| `saved_stack` | 2 pool threads, slice 2 | "we can find current thread structure through TSS" (`thread.h:47-48`) |
| `allocator_merge` | as `allocator`, any release | "a circular linked List" (`list.h:69`) |
| `page_fault` | tables of 8 entries, 5 activations | "page not present -- allocate a new page" (`paging.h:92`) |
| `ide_requests` | 1 client, 2 requests | "use a Queue to store all requests" (`ide.c:9`) |
| `process_fields` | 16 blocks | "after creating process, it never changes" (`process.h:44-45`) |

Why the bounds suffice. Five nodes give every shape a queue operation tells apart (empty, one, several, and the
node in the middle). Area 17 with a reserved part of 2 leaves 15 bytes: blocks of 8, 4, 2 and 1, so requests
of every size are granted, divide over several levels, and are refused. Sixty-four pages are two words of the bitmap with 32 of them dynamic,
so bits alias; the maps have a hole, half pages, little memory and none. A directory with two entries of each
kind and one left over has a first, a last and a boundary between any two loops of `PagingInit`. Three bytes are a
key pressed and released, or three keys, at any moment of `KeyboardInit` and after. A text of three characters
and a field of five go over the end of a line of four and of the screen of eight. Devices 32 and 33 are on the master, 46
on the slave; the driver of 33 or 46 may find no device and leave its line masked. Vectors 13 and 14 push an error code and the others do not. Two frames
on each of three stacks allow nesting and a switch inside a nested handler; deeper nesting repeats this.

Deadlock checking is off only in `allocator`, `kernel`, `sleepers_run`, `saved_stack`, `page_fault`, `ide_requests` and
`process_fields`, where the kernel halts or hangs or a bound ends the behaviour.

## 4. Fairness

- `Scheduler`: weak fairness of `Sti` and `TimerHandler`. `kernel_start` runs to its `sti`, and the 8254 in
  mode 3 reloads itself, so ticks keep coming. There is no fairness on creating threads.
- `Kernel`: weak fairness of the statements of boot and of `KeyboardInit` (the processor runs them, interrupts
  being off), of the controller and the keyboard (they answer what they are asked), and of each handler but
  `IdeHandler`. `IdeInit` and `IdeHandler` are not fair: they wait for the disk. There is no fairness on typing or on
  devices raising their lines.
- `Kernel`: strong fairness of each delivery `IrqOf(v)`, because a request of higher priority may disable a
  delivery again and again. **It is an assumption about load**: each line gets its turn among those that are
  raised. The 8259's fixed priority does not give this against a device that raises its line without pause; the
  devices here are far slower than their handlers. `TicksApart` is the same for the timer, which has the highest
  priority: from some time on it does not tick within its own handler. The 8254 ticks every 55 ms.

The other specifications have no fairness, and only safety is checked of them.

## 5. The proofs

Each theorem holds for all constants that satisfy the module's named assumption. Every safety property that a
passing run checks is also proved.

| theorem | states |
| --- | --- |
| `LibraryProofs!QueueCorrect`, `QueueRefinesFifo` | the links spell the contents; `Queue` implements `Fifo` |
| `LibraryProofs!TypeCorrect`, `NoThreadLost`, `PoolIntact`, `StacksNotMixed` | the invariants of `scheduler`, for any pool size and any slice from 1 to 255 |
| `LibraryProofs!SchedulerIsRoundRobin` | preemption implements `RoundRobin` |
| `LibraryProofs!NoPageMappedTwice`, `UsedPagesMarked`, `TypesHold` | the invariants of `pages`, for any memory maps and sizes |
| `LibraryProofs!ConsoleCursor`, `ConsoleNumbers`, `ConsoleText` | the invariants of the console, for any screen, any texts and ints of any width up to 32 bits |
| `AllocatorProofs!AllocatorTiles`, `AllocatorSorted`, `AllocatorConserves`, `AllocatorHeld`, `AllocatorAligned`, `AllocatorRefuses` | the invariants of `allocator`, for any types, area, kernel image and sizes, while the pool suffices |
| `AllocatorProofs!AllocatorRefines` | `Allocator` implements `BlockPool`, likewise |
| `AllocatorProofs!AllocatorPool` | while at most `MaxHeld` areas are in use, `(MaxHeld + 1) * (kMemBlockTypeNum + 1)` `MemBlock`s suffice, however large the area |
| `BootProofs!PagingMaps` | the mapping is right at the step that turns paging on, for any numbers of entries and any contents of memory |
| `BootProofs!GatesAndHandlersAgree`, `EveryInterruptAcknowledged`, `OpenIrqsHandled` | the safety of `Interrupts`, for any devices |
| `KernelProofs!KernelImplements`, `KernelOpenIrqs` | the whole boot implements `Interrupts`, and what is proved of the parts holds of it |
| `KernelProofs!KernelTypes`, `KernelSegments`, `KernelGates` | types of the whole kernel; segment registers and gates are right whenever they are used |
| `KernelProofs!KeyboardAnswers`, `KeyboardTested`, `KeyboardRequests`, `KeyboardCursor` | the invariants of the keyboard driver, for any keys and any typing |
| `TrapEntryProofs!HandlersSeeIntrReg`, `TasksUndisturbed`, `TasksPreemptible` | the invariants of `trap_entry`, for any threads, vectors and depth of nesting |

**What the theorems about the allocator assume.** `Release = "lone"`, as in the run (section 3): a release that
merges is wrong (`allocator_merge`). And `[]PoolSuffices`: no step finds the pool of `MemBlock`s empty. The code
does not test for that (`direct_mapping_allocator.c:292`), and what it does then is not worth a property.
`AllocatorPool` shows when the hypothesis is met: with at most `h` areas in use at once, `(h + 1) * (T + 1)`
`MemBlock`s suffice for `T` types, whatever the size of the area and whatever was requested and released before. The
code has 26 types and 131019 `MemBlock`s after the list heads are taken, so its pool is enough for 4851 areas in use at
once. Nothing in the code keeps its users to that number; the few requests of the boot are far from it. The bound is
not tight: in the run it is 25, and 10 suffice.

The arguments:

- **Lists.** `IsQueue(q, head, s)` says that the links from `head` visit the sequence `s` and return.
  `EnqueueAppends` and `DequeueRemovesOldest` give the effect of the operations on `s`. The frame lemmas say that
  a queue depends on the links of its own nodes only; `Scheduler` needs them, its lists sharing one memory.
  `NodesOfChain` says what a walk round a list finds: the `while` loops of the code are recursive functions here.
- **Recursion.** The induction theorems of the library take an operator as parameter. `BlockProofs` states
  induction for sets instead (`Induction`: a set with 0 and with every successor of a member has all numbers), from
  the well-foundedness of `<`, and from it `RecursionExists`: a function defined by recursion on a measure
  satisfies its equation. `Descends` is the form in which a definition meets that lemma. Walks, `1u << k` and the
  recursion of `DivBlock` and `MergeBlock` are instances. `LibraryProofs` has the same for a recursion on the
  numbers themselves (`NumberRecursion`), for the loops of `itoa`.
- **Scheduler.** `WaitQueueInv` alone is not inductive. `StartThread` takes the first free thread, so it must be
  known what the free list holds and that those threads do not wait (`FreeListInv`, `StartedInTidOrder`).
  `ThreadSwitch` enqueues `GetCurThread()`, so this must be the thread that runs (`OwnStack`).
- **Pages.** `NoPageTwice` is not inductive. `Consistent` adds that a page in use has its bit set, and that no
  two pages in use share a bit: since bits alias, clearing one page's bit would otherwise free another's.
- **Console.** `DigitsRead` shows by strong induction on the number what the loop of `itoa` leaves: digits that
  read backwards give the number; `AtMostTen`, that they fit the buffer. `Magnitude` is about the sign: unsigned
  arithmetic is modulo `2 * (IntMax + 1)`, so the smallest int is covered. `TextOnScreen` is not inductive: while
  characters are still to come, those put already must be where they belong, modulo the size of the screen
  (`DoneOnScreen`), and the others must be the rest of the field (`OutIsRest`).
- **Allocator.** No property of the run is inductive: whether a list is sorted depends on what `DivBlock` is
  given, that on the blocks' places, and those on the list a `MemBlock` is in. `AllocatorInv` says that there are
  sequences `L` in the lists and a list `w` for each `MemBlock` such that (`Whole`) the links spell `L`
  (`Links`), blocks in use and free do not overlap (`Placed`) and fill the area (`Covered`), lists are sorted
  (`Sorted`), blocks are at multiples of their size (`Gridded`), no two free blocks are buddies to be merged (`Calm`), allocated blocks are what users hold (`InUse`), the
  loop of `DirectMappingInit` has made blocks of each larger type already (`FillInv`), and a refusal was justified
  (`Refused`). `Calm` is why a release that completes no pair needs no merging. `SplitReady` carries the
  invariant over a division, and `DivReady` over as many as a request takes; `GrantShape` and `GiveShape` move a block between its
  free and its allocated list. The walks need that lists without repetition are not longer than there are
  addresses (`Counted(Mem)`, shown in `AllocatorProofs`). `AllocatorPool`
  counts. No two free buddies are left unmerged, so the block twice the size round a free one, if it is in the part
  `DirectMappingInit` has filled, has an area in use in it (`HalfInUse`); otherwise the end of that part, `Filled`, is
  in it. Blocks at multiples of their sizes nest or are apart (`Nested`, `Parent`), so each area in use, and `Filled`, is in the
  double of at most one free block of each type (`FreeIsNear`, `NearOnce`). This gives every `MemBlock` outside the
  pool a pair of its own of such a place and a type, or the area itself for a block in use (`OutOfPool`). `HeldInv`
  bounds the number of areas in use.
- **Paging.** `PagingInv` says for every statement of `PagingInit` which entries have been written and with what:
  the directory up to `i`, the table of the current entry up to `j`, all tables before it. With the last
  statement it gives the whole mapping (`ProgressMaps`), without a word about what memory held before.
- **Interrupts.** `GateHasHandler` is what makes a delivered interrupt reach a handler, and so an EOI.
  `EoiEndsService` shows that `SendEoi` clears master and slave. `AllAcknowledged` is inductive with what is known
  of the running handler: nothing else is in service, so the EOI of an exception inside it cannot end anything else. For `OpenIrqsHandled` it must be known which bits
  of `IntrVecMap` are set: registration is refused for a bit that is taken, and bits alias. `BitsDiffer` shows
  that the bits of the drivers' vectors are taken by no other vector that is registered before.
- **Kernel.** `StepsPaging` and `StepsInterrupts` say that every step of `KNext` is a step or a stutter of the
  parts, so their invariants carry over. For the segments it must be known, by statement, which descriptors are
  written and which registers loaded; that no unset descriptor is taken for a set one is `UnsetAssumption`. `KeyboardInv` is the driver's: by statement, which port is enabled,
  what may be in the two buffers and from whom, and whether the keyboard has been tested. A request implies a byte
  because interrupts are enabled in the controller after the last poll, or, if the loader left them enabled, unless
  the flush came between (`stale`).
- **Interrupt entry.** An invariant about frames that is inductive has to describe every stack, at every
  instruction. `Chain` says that a stack is a pile of frames, each with what the interrupted code had,
  `Runs` what the thread on the processor has pushed, popped and restored at its place in the entry code, and
  `Waits` what a thread that was switched out left on top. `TrapInv` puts them together. `TrapEntryProofs` begins
  with the facts about frames (what a push adds, what a pop takes, that frames below the top do not change), and
  then has one lemma per step of the entry code.

Assumptions: `QueueAssumption` and `SchedulerAssumption` (addresses are distinct and not `NULL`; the slice fits
its byte), `AllocatorAssumption` (at most 31 types; some area may be in use; nobody asks for more than the largest block and the kernel
image fits one; the area is smaller than two of the largest blocks, as the code's 63 MB is than two of 32 MB),
`NullAssumption` (no `MemBlock` is at `NULL`), `ConsoleAssumption` and `IntAssumption` (a screen has lines and
columns; an int has at most 32 bits), `UnsetAssumption` (what is not set is not a descriptor), `PageAssumption` (sizes positive; memory maps end before the last page), `DevicesAssumption` (devices
are on lines other than the cascade), `PagingAssumption` (at least one user entry; the areas fit the directory),
`LoaderAssumption` (section 3), `KeysAssumption` (codes other than the break code), `KernelAssumption` (the
keyboard's line is a device's), `TrapAssumption` (there is a first thread; vectors are bytes). TLC evaluates each one in a run.

Only model-checked: `EveryThreadRuns`, `RequestsHandled`, `BytesTaken` and `BootEnds`, because liveness under
fairness and `ENABLED` are beyond the prover; and whatever the violated runs show, releases that merge among it.

## 6. Where code and comments disagree

The violated runs are the findings in `PROJECT.json`:

1. `ThreadSwitch` enqueues the thread that just went to sleep, so it runs again unwoken (`thread.c:102`).
2. A tick after `tss->esp0` is set and before `SwitchReg` saves one thread's stack as another's (`thread.c:115`).
3. `MergeBlock` unlinks the node after the second buddy instead of the buddy (`direct_mapping_allocator.c:256`).
4. `PfHandler` writes a new page table through its physical address and faults without end (`paging.c:239`).
5. `IdeHandler` may dequeue the tail in the middle of `Enqueue`, and the new request is lost (`ide.c:221`).
6. `ProcManagerInit` moves from block to block by the size of a list node, so the blocks overlap, and the second
   process created overwrites the first one's code and data addresses (`process.c:42`).

Met while modelling, without a run of their own:

- Bitmaps: an index is reduced by `sizeof(unsigned int)`, so eight indices share a bit (`bitmap.h:29`). `Bitmap`
  models it, and `pages` and `kernel` show what holds all the same. The comment at `paging.c:64-65`, "0 means free
  and 1 means allocated", does not: a page that is free has its bit set when a page it shares the bit with is in use.
- Keyboard: a byte that comes after `PicInit`, with the controller's interrupt left on by the loader, requests IRQ 1. The
  flush at `keyboard.c:84` takes the byte, the request stays in the 8259, and after `sti` `KeyboardHandler` polls with
  interrupts off until the next key is hit (`stale` in `Keyboard`).
- Keyboard: the comment at `keyboard.c:104-108` says that `inb` is used since "'Read' will block when no device
  exists", but `Read` comes first and does block. The test's result is then read without waiting: when it is late,
  the acknowledgement is read again and a good keyboard is refused.

- Threads: `DestructThread` clears `thread->pcb` and then follows it, and searches for `sibling`, which is never
  linked (`thread.c:81-90`); the `node` in a process's `thread_list` is relinked by every other list;
  `ThreadWake` may loop for ever (`thread.c:158`); `SwitchPd` is given a physical address (`thread.c:106`).
- Allocator: "we store enough 'MemBlock' structure" (`direct_mapping_allocator.c:36-38`) holds up to a number of
  areas in use at once, 4851 by `AllocatorPool`, which nothing enforces.
- Allocator: `RelBytes` stops at the first block at or above the address, in any list
  (`direct_mapping_allocator.c:165`); `GetMemBlockSizeType(0)` finds no bit; `IdeHandler` releases the address
  of a `node`, which `ReqBytes` never returned.
- Paging: the table for the first 4 MB "will be removed when completing paging initialization"
  (`paging.c:119-122`), but the code that removes it is commented out (`:169-177`).
- Paging: pages that are not memory count as free (`paging.c:362`); page 0 is mapped when memory is out (`:242`);
  signed division of addresses (`:227`); a new table is not cleared (`:232`); the switch to another process's
  directory translates its address twice; `UPdClone` shares pages
  read-only, but a write to one closes the process; `init.c:59-60` truncates the memory map to 32 bits.
- Interrupts: aliased bits make `RegIntrHandler` refuse vectors 4 to 31 except 14; `ss0` is the code segment
  (`idt.c:43`); `%cs` is not reloaded after `lgdt`, so a loader with another code selector breaks the first
  `iret`; gate 0x80 uses the user code segment (`idt.c:56`); `gdtr.limit` is a function pointer
  (`segment.c:70`).
- Processes: `CloseProc` passes a page number as a table (`process.c:103`); a father spins for `DIE`
  (`process.c:138`), a state that `ThreadSwitch` overwrites.
- Drivers: each release code resets the scan code counter, so its second byte counts as a press
  (`keyboard.c:163`); `cur` has no bound; `MapGet` never advances, though its map is always empty; `RunIde` may
  use a released block; `free_keyboard_buffer`, which nobody calls, is not atomic against the handler;
  every sector of a request has the same address; a failed request is repeated for ever.
- System calls: cases without `break` (`syscall.c`).

## 7. What is not modelled

- **Closing a process.** `CloseProc` is reached from a protection fault. It waits for sons whose state never
  becomes `DIE`, or runs into `DestructThread`, which clears `thread->pcb` and searches from an address in page 0: the
  code is left through a stray pointer before anything it promises could be stated. `ThreadWakeAll` has no caller.
- **User mode.** No user thread can be started, so `TrapEntry` has no privilege change and no vector 0x80.
- **Key map.** It is empty, so `input_buf` is left out; its size bounds `cur` nowhere in the code.
- **Ide data.** Sector contents and register values. Only one violated run uses the module: it establishes no
  property that holds of the driver.
- **Interrupted allocator.** `ReqBytes` and `RelBytes` are atomic, although `IdeHandler` may interrupt them.
- **System call bodies, file system stubs, `print_seg_reg`.** A table never filled, code that is not linked, and a
  debugging aid without a caller.

## 8. What could come next

1. `Ide`: a property of the command sent, service of requests under an assumption on the drive, and properties
   that hold when `Enqueue` is not interrupted; then `Ide` joined with `SleepWake`.
2. `Allocator` with `IdeHandler` interrupting a call, and a tighter bound on the pool.
3. `CloseProc`, once `DestructThread` keeps the pointer it follows.
