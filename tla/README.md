# Concurrent-CW2: a small kernel, its pipes and its dining philosophers

The repository is a kernel for an ARM Cortex-A8 board under QEMU: a process
table with a round robin scheduler, a dozen system calls, pipes for
inter-process communication, a console, a waiter and sixteen philosophers who
use those pipes, three compute-bound programs, a driver and a server for a
disk, and a screen with keyboard and mouse. This directory holds its TLA+
specifications, the TLC configurations that check small instances, and proofs
checked by TLAPS.

## The system

| part | source | state | operations | interacts through |
|---|---|---|---|---|
| process table | `kernel/hilevel.c` 7, 37-111, 518-573 | `pcb[30]`, `current`, the register context on the handler's stack | `newPid`, `nextProcess`, `scheduler`; handlers fork, exit, exec, kill; the timer's interrupt | every process, by `svc` and by being interrupted |
| low-level handlers | `kernel/lolevel.s`, `kernel/int.s` | banked `sp`, `lr`, `spsr` | save the user registers, call the C handler, restore them | the context argument of the C handlers |
| pipes | `kernel/hilevel.c` 8, 119-145, 575-616 | `pipe[32]`: `data`, `full`, `sender`, `receiver` | `cpipe`, `readc`, `writec`, `isfull`, `changec`; nothing blocks and nothing is given back | waiter and philosophers |
| waiter | `user/waiter.c` | `forks`, `wtp`, `ptw` on his stack | creates the pipes, forks, then polls the seats in turn | two pipes per philosopher |
| philosophers | `user/philosophers.c` | `id`, `status`, two pipe numbers | ask, look for an answer, eat once, say so | the same pipes; the pid |
| console | `user/console.c` | line buffer, the position `strtok` keeps | `fork <program>`, `kill <pid> <x>` | fork, exec, kill; UART1 |
| library | `user/libc.c` | none | system call wrappers, `atoi`, `itoa`, `print_int` | `svc` |
| disk driver | `device/disk.c` | one call at a time, with a retry counter | block count, block length, write, read | UART2 |
| disk server | `device/disk.py` | the file | one line, one acknowledgement | the socket behind UART2 |
| display | `kernel/hilevel.c` 155-222, 388-473, 618-642 | frame buffer, cursor, position in the mouse's packet | key, mouse byte, `showphil` | keyboard and mouse interrupts |
| boot | `kernel/hilevel.c` 235-368 | all of the above | devices, first PCB, pipes | interrupts enabled half-way |
| P3, P4, P5 | `user/P*.c` | none | `is_prime`, `gcd`, `weight` | write, exit |
| not used | `device/MMU.*`, `maxPriority`, the priority scheduler in a comment | | | |

What is hard here is concurrency without locks. The timer may take the
processor away between any two instructions of a program, and the protocols
between programs are made of calls that each read or write one field of a pipe.
Numbers that two parts must agree on (the seat of a philosopher, the pipes of a
seat) are never passed; each side computes them, from the order in which the
kernel hands out pids and pipes. Handlers do not check their arguments, and
tables that are full or empty are at best reported by a number the caller does
not look at. `PROJECT.json` lists these hazards one by one, at their lines.

What makes each part correct:

* **process table** - each live process has its own registers and stack however
  processes are switched, forked, ended and slots reused; the ring passes nobody
  over and nobody starves;
* **pipes, console, setting up** - the two computations of a seat's pipes agree,
  each seat gets a philosopher, a child executes the program it was forked for;
* **waiter and philosophers** - neighbours never eat at the same time, a request
  is answered, a fork that was freed early cannot be granted while it is in use;
* **disk** - both ends stay in step through failures and repetitions, and a call
  that succeeds did what it was asked to;
* **display** - what one handler erases is what it drew, though keys and text are
  drawn between two bytes of a packet, and the cursor stays near the screen;
* **numbers** - the conversions are inverse to each other and stay in their
  buffer, and the compute programs compute what they are named for, on the range
  where nothing overflows;
* **handlers and boot** - to a program an exception is one step, however handlers
  interrupt the reset handler and call the kernel from inside; both kernel stacks
  are empty when a program runs; the console is reached;
* **the whole** - one processor, polling processes and a timer are enough for the
  waiter to serve every seat.

## The modules

| module | models | run, proofs |
|---|---|---|
| `Processes` | what the kernel promises programs: private contexts, fork as duplication | refined by `ProcessTable` |
| `Scheduling` | `newPid`, `nextProcess`, on any table | extended by `ProcessTable` and `Kernel` |
| `ProcessTable` | PCBs, `current`, the context, scheduler, handlers | `ProcessTable.cfg`, `ForkReturn.cfg`, `ProcessTableProofs` |
| `Exceptions` | the low-level handlers, banked registers and stacks, supervisor calls inside handlers, the end of the reset handler | `Exceptions.cfg`, `ExceptionsProofs`; extends and refines `ProcessTable` |
| `DiningTable` | what the waiter promises: nobody eats twice, nor next to an eater | refined by `Dining` |
| `Dining` | waiter, philosophers, their pipes' `data` and `full` | `Dining.cfg`, `InformedEats.cfg`, `DiningProofs` |
| `Kernel` | `Dining` on one processor: scheduler, timer, and a console that forks and kills | `Kernel.cfg`, `KernelProofs`; extends and refines `Dining` |
| `Pipes` | owners of the pipes, `cpipe` | extended by `Startup` |
| `Startup` | console, children on the way to their program, waiter and philosophers until they serve and ask | `Startup.cfg`, `ExecutesCommand.cfg`, `StartupProofs` |
| `BlockStore` | what the disk driver promises: blocks, and calls that succeed at once or fail | refined by `Disk` |
| `Disk` | driver, server, the lines one way and the characters the other | `Disk.cfg`, `InvalidFails.cfg`, `DiskProofs` |
| `Display` | frame buffer, cursor, the mouse's packet, keys and lines of text | `Display.cfg`, `DisplayProofs` |
| `Numbers` | `atoi`, `itoa`, `print_int`, `is_prime`, `gcd`, `weight` | `Numbers.cfg`, `NumbersProofs` |

Operators called `X_Something` next to a definition `X` are faulty variants of
it ("Faulty: ..."). They take no part in the specification; with one of them in
place of `X` some property is violated, and `PROJECT.json` ("mutants") says
which.

### ProcessTable

`pcb` is the array, `current` the index of the slot the pointer points to, `ctx`
the user registers: the processor's, and equally those that the low-level
handler has just stored for the C handler. Registers are `pc` (which program),
`sp` and `r0`; the others are copied with them and never looked at. `cpsr` is
0x50 in every context. A handler is one action, because exception entry masks
interrupts and only user mode, with 0x50, unmasks them. `UserStep` is all a
program can do between two exceptions: any value in `r0`, any `sp` within its
stack. Parameters are the number of slots and the positions and size of the
stacks; the code has 30 slots of 4 KB.

`Fork` has both branches of the handler; `Child` computes the child's `sp` from
the offset of the parent's in its own stack. `Exit` and `Kill` change the PCB
and end in `scheduler`, as in the code, so `Kill` of the running process and
`Kill` of another one save the caller's context into its own slot. `Exec` may be
asked for address 0 (`load` returns it). `newPid` and `nextProcess` are in
`Scheduling`. `nextProcess` falls off its end when no
process is live; what it returns then is any slot, and `orphaned` remembers it.

Properties. `SlotIdentity`: the code indexes the table by `current->pid`, by the
pointer `current` and by what `newPid` returned; all three name the same slot as
long as a process is left. `PrivateStack`: no live `sp` is in another's stack.
`RoundRobin`, an action property: whoever gets the processor, no live process
that is nearer in the ring was skipped. `PrivateContexts`: refinement of
`Processes`, with the context of a process being `ctx` if it runs and the PCB's
otherwise, and the depth of its stack instead of `sp`; of a fork that finds no slot it
says that nobody but the caller notices, not what the caller is told. `NoStarvation`:
a live process runs again and again, whatever others fork and end.

`Next` lets every program make every call. `CommandSpec` has only the calls the
programs make to start and to end others: the console, which never ends, forks and
kills, its children execute, the waiter forks. The run `fork_return` is on it, so that its
trace is one a user can type. (Address 0 is taken for a program that does nothing
special; in the image it is the vector table.)

### Exceptions

`ProcessTable` takes a handler for one step. This module has what is inside:
`mode` and `irqs` are the CPSR, `at` what is executed next, `lr` and `spsr` the
banked registers, `stack` the frames that `lolevel.s` and compiled functions put
on the stacks of svc and irq (the top comes first). `Take` is an exception
and the instructions that store the registers, `Leave` those that load them and
`movs`. `ctx`, inherited from `ProcessTable`, is the context a handler was given,
`regs` the registers in the processor. The handlers' own effect on the table is
`ProcessTable`'s actions, called at the place where the C code calls them.

A handler that prints calls `print`, which is the programs' `write`: a
supervisor call from svc or irq mode. So the svc handler runs inside another
handler, with the same banked registers, and `Write` and `Written` are that call
and the way back by the address `write` saved. The GIC delivers nothing while an
interrupt is `active`, and `EndOfInterrupt` is the write to EOIR.

The module begins where the reset handler has just enabled interrupts. `Functions` is
what it calls from there on; at `leaf` and `entry` the return address is in `lr_svc`
alone. A key pressed then makes the irq handler print, and its `svc` overwrites
`lr_svc`: the reset handler returns to the wrong place. The same holds between the
last `ldmia` of `lolevel_handler_rst` and its `movs`. `exposed` remembers that this
happened, and `at = "lost"` is a jump to an address nobody meant. Which functions are
leaves, and that `write` saves `lr`, is read from the image in the repository, so
it is external. The first tick of the timer comes 2^20 ticks (about a second) after
it was started; the model takes the reset handler to be done by then.

Properties. `HandlersAtomic`: whatever nests, the module implements `ProcessTable`,
with the registers taken from the processor in user mode and from the context
otherwise. `UserClean`: in user mode both stacks are empty, interrupts are enabled
and the GIC waits for nothing. `XTypeOK` bounds the stacks: never more
than three frames on that of svc, two on that of irq. `LostOnlyIfExposed`: the two places above
are the only ones. `BackToUser` and `EveryoneRuns` are liveness: the console is
reached, every handler ends, and the fairness `ProcessTable` assumes is delivered
although keys and the mouse interrupt without end.

### Dining

Each action ends with one system call, or with a run of local statements that
nobody else can see: two calls may always be separated by the timer. `at` and
`pc` name the call a process makes next. `Poll`, `Read`, `Clear`, `Answer`,
`AnswerFull`, `Take` are the waiter's round for one seat (`seat` is his `i`);
`Ask`, `Request`, `RequestFull`, `Look`, `ReadPermission`, `ClearPermission`,
`Finish`, `FinishFull` are the philosopher's loop. `Kill` stops a philosopher
between two calls, as the console's command does.

The protocol is not a clean request and response. A philosopher asks again as
soon as the waiter has emptied his pipe, so a second request is in flight while
the first is answered; answers overwrite each other; a pipe that was filled
between the other side's read and its `changec` is emptied unread; the waiter
may read `finish` twice and free a fork that somebody else holds.
`ExclusivePermission` says that in spite of all this neighbours never eat, nor
have an okay on its way, at the same time. `ForksWithheld` says how far the
waiter's array may differ from the truth: a fork that a permitted philosopher
shares is marked unavailable, or about to be, or its other user will never eat
again. `KeepsTable` is the refinement of `DiningTable`. `RequestAnswered` and
`PipesEmptied` are the liveness that does hold; that each philosopher eats
does not (see below).

### Kernel

`Dining` lets its processes interleave freely and assumes each to be scheduled.
`Kernel` extends it by `current` and `prog`, the program in each slot, and lets
only the process in `current` make its next call. `Timer` calls `nextProcess` of
`Scheduling`, as `exit` and `kill` do. The console never waits in the kernel: it
is a process that computes, like the programs it starts (`ConsoleFork`), which may take the
slot of a philosopher who was killed (`ConsoleKill`). A philosopher who is done
spins. `Dines` says that this implements `Dining` with its fairness,
so that what is true of `Dining` holds on the real scheduler: `ExclusivePermission`,
`ForksWithheld` and `KeepsTable` follow and are not checked again. `RequestAnswered` and
`PipesEmptied`, which need that fairness, are checked here; an answer to an earlier
request that is still in the pipe counts as one for `RequestAnswered`. The waiter is not
killed: nobody would be served. The console starts programs that compute, and no second
waiter, who would write to the pipes of the first. `Dining`'s initial state has everybody at his first call;
a philosopher who is not yet forked is one who was not scheduled yet.

### Startup and Pipes

From the prompt until the waiter serves. `Typed` is what the user may ask for,
`MaxLines` bounds how many lines he types. The position of `strtok` is `token`,
one for everybody. `CreatePipe` alternates the two calls of the waiter's loop;
`cpipe` returns its own first argument when no pipe is left, as the handler
leaves `r0` alone. `boss`, `cmd` and a philosopher's `n` are history: who forked
him, for what, for which seat. `disturbed` is history too: a line was typed while
a program was being set up, or the waiter was not the first program, or there
was a second one. `SeatsMatch`, `EverySeatTaken` and `PatientUser` hold if it is
false. What happens otherwise occurs in the run, and but for `executes_command` nothing is
claimed of it: not of a waiter who finds no pipe left, nor of philosophers whose waiter
is not in slot 1, nor of a table without a slot for everybody. `RunOn` stands for
everything after. `ServesAll` is the liveness of setting up: a waiter left alone
gets to serve, with a philosopher who knows his id at every seat.

### Disk

The driver writes a line and reads characters; the server reads a line, acts,
and writes a line. `up` holds the lines, `down` the characters, so that the
driver's reads (`geth` takes two characters, `data_geth` 2n, `getc` one) are
counted as in the code. Whole lines are one action: both ends block and nobody
else uses the stream. `wr` and `rd` may store or deliver too little, as the
server checks for; `Raise` is an exception that ends it: a line without data, or
an address that is negative as a signed number. A caller gives data of any length
in `WriteLens` and buffers of any length in `ReadLens`: what the driver reads for
`disk_rd` is counted by the buffer, what the server sends by the block. A buffer that
is too small is filled with the first bytes of the block, and the rest stays in the
stream (`misread`); with one that is too large the call waits for ever.
`InStep`: nothing of an earlier answer is left when a request is sent, and each
answer has one of the lengths the driver reads, until a buffer of the wrong size
was used. `KeepsBlocks` is the refinement
of `BlockStore`; `CallReturns` the liveness. The repository holds the driver for
programs to come: nothing calls it now, and `Makefile` has its UART commented out.

### Display

`fb` maps each pixel to the picture that drew it last: a letter, the cursor, the
click, line k of the text, or black. Which pixels of a picture are set is left
out, so "drawn by" is an upper bound of what is visible. `Pixel` is the place in
memory, as in C: what goes beyond the right edge is on the next row, and what
goes beyond the last row is behind `fb` (`Pixels` has room for it). `resetImage`
clears the rows and columns of the frame buffer and leaves what is behind it, where
there is nothing of a picture at reset. A handler is one action. `Mouse` has the three cases of the `switch`; `Byte1`, `Byte2` and
`Byte3` erase the cursor first. Bits 4 and 5 of `byte1` are its sign bits, but
`byte1` is another, unassigned variable by the time they are used: `SignBits` says
they may be anything. `nbytes` starts with 0: a global without initialiser, not
the local variable of the same name in the reset handler.

`NoTrail`: the cursor is erased at its old column on one interrupt, moved, and
drawn two interrupts later; still no pixel of it is left where it no longer is, behind
the frame buffer neither, where only `clearCursor` removes it.
`NearScreen`: the handler compares the coordinate before it adds the movement,
so the cursor does get beyond the edge, but by less than one movement. (In the
code that is at most 15 pixels, and at the lower edge the 16 rows of the cursor
are then behind the frame buffer.) `LinesApart`: a letter is drawn with one row
more than it has, and text lines are exactly that close; the order in which
lines come makes it harmless. `offsetLettersY` never returns to 0: each
philosopher eats once, so `PHILS` bounds the lines.

### Numbers

Functions, not a process: `x` runs through all values of a word of `Width` bits.
`Int32` and `UInt32` are what an operation leaves in a register of that width.
Text is a sequence of characters; what `itoa` stores is a function from the
distance to its first argument, because it works from the last digit to the
first and may begin in the wrong place. Bits are digits: `Masked` keeps every second
field of a number written to a base that is a power of 2, `Paired` is a line of
`weight`, and `weight` its five lines, from bits to fields of 16 bits. `Reads` and
`Tried` are the loops of `atoi` and `is_prime`, from any place on.

`RoundTrip`: what `print_int` prints, `atoi` reads, to the ends of the range.
`ItoaPrints`: `itoa` stores the same text and nothing before it; not for 0, which
it writes one place too low, and not from the largest power of 10 on (10^9 for 32
bits), where its loop overflows. `PrimeRight`: right below the square of
2^(w/2) - 1; above, `d * d` overflows. P3 stays far below. `GcdRight` is about the
arguments P4 uses; with 0 the code would not end. `WeightRight` compares with
`DigitSum`, the sum of the digits to base 2, and has no limit.

## Runs

| run | bounds | shows |
|---|---|---|
| `table` | 3 slots, stacks of 2 words, one program (and address 0), one value | all properties of the table; 3 slots are enough for a fork that fails, a slot reused behind and in front of `current`, and for a process to be skipped |
| `fork_return` | as above, the waiter as a second program, two values | violated: fork tells a parent 0 |
| `dining` | 3 philosophers, one may be killed | with 3, each fork is shared by exactly two and each philosopher has two different neighbours, one of whom may die at any moment; 2.5 million states, two to three minutes |
| `kernel` | 2 philosophers, one may be killed, 4 slots | the slot of the dead philosopher is the only one left for another program, and is used, freed and used again; 139,781 states |
| `exceptions` | 2 slots, stacks of one word, one value | fork with a full table and the end of the last process, which print, occur with 2 slots; each source interrupts at each instruction; 174,081 states |
| `informed_eats` | 2 philosophers | violated: an okay is lost, the forks stay reserved for a philosopher who is then denied them |
| `startup` | 5 slots, 2 philosophers, 4 pipes, 3 lines of `W` or `P3` | pipes are exactly used up by one waiter, as 32 are by 16 philosophers; a second waiter and a full table occur |
| `executes_command` | as above | violated: see findings |
| `disk` | 2 blocks of 2 bytes, 6 addresses (2 good, 1 too large, 3 negative), 2 byte values, lengths 0 to 2, buffers of 1 to 3 bytes | framing, refinement, liveness |
| `invalid_fails` | as above, lengths 1 and 2, buffers of a block | violated: an invalid address ends the server |
| `display` | a screen of 5 by 5, pictures of 2 by 2, movements of -2 to 1, 2 lines of text | the cursor can reach and leave each edge, cover the letter and both lines, and be covered by them; 300,067 states |
| `numbers` | all words of 16 bits, `gcd` of 2 to 39 | every sign, every number of digits, and both ranges in which the code overflows |

`table` has the constraint `NotOrphaned`: states after the last process ended
are left out, for there the code has no defined behaviour and the properties
promise nothing. `exceptions` and `fork_return` have it too. `disk` has `NoMisread`: what a driver out
of step reads is not followed further. Of the proofs, only those of the refinements
`HandlersAtomic` and `KeepsBlocks` need these two, as premises `[]NotOrphaned` and
`[]NoMisread`; the invariants are proved without.
`numbers` ends with the largest argument, so its deadlock check is off.
`disk` switches the deadlock check off, since the driver does stop for ever
when the server ended under it. In `Startup` a process that has got where the
module ends goes on by stuttering.

Fairness. In `Exceptions` the assumptions are those of the hardware: the processor
executes what is next (`WF` of `Handlers`), the timer raises its line again and
again, a processor that could take an interrupt again and again takes one (`SF` of
`TakeIRQ`), and the reset handler gets on between two keys (`SF` of `Boot`). The
latter two are strong because interrupts are enabled and disabled all the time.
`EveryoneRuns` derives from them what `ProcessTable` assumes with
`WF_vars(TimerIRQ)`. `Kernel` assumes that timer, and for the waiter and each
philosopher `SF` of his next call: a time slice is a second, so who gets the
processor again and again gets through a call. It assumes nothing of the console.
`Dines` derives from that the weak fairness of `Dining`, where nobody else can
disable the next call of a process but by killing it; the same argument gives the weak fairness of `Startup`, where nothing
is assumed of what the user types nor that a program ends. In `Disk`, weak
fairness of the driver's and the server's steps: they wait for each other only.

## What is proved

Every invariant and every refinement that the passing runs check (of `Dines`, the part
without fairness), and the action property `RoundRobin`, for all values of the constants
that the named assumptions admit. Each assumption is one the code satisfies, and TLC
evaluates it on the instances.

`ProcessTableProofs`, for every table size, stack size and set of programs:
`TypeCorrect`, `SlotIdentityHolds`, `PrivateStackHolds`, `RoundRobinHolds`, and
`PrivateContextsHold`, the refinement of `Processes`. The inductive invariant is
`TypeOK /\ SlotIdentity /\ PrivateStack`: alone, `PrivateStack` is not
inductive, because `Fork` and `Exec` compute stack pointers from `tos` of the
slot `current->pid`, which is the running process's only by `SlotIdentity`.
There is one lemma for each action, and one for `scheduler`, which three actions
share. The assumption is `TableAssumption`: at least one slot, stacks that are not empty.

`DiningProofs`, for every number of philosophers from 2 on and every set of
them that may be killed: `TypeCorrect`, `Exclusive`, `Withheld` and
`KeepsTheTable`, the refinement of `DiningTable`. Mutual exclusion follows from
the waiter's array only while the array can be trusted, and `ForksWithheld` is
the part of that which survives a `finish` read twice: the invariant also
follows what the waiter has in hand (`data`, `at`) and says that a `finish` in a
pipe, or in the waiter's hand, means that its philosopher is gone.

`KernelProofs`, for every number of philosophers, and of slots beyond those they
need (`KernelAssumption`): `KernelTypeCorrect`, and `KernelDines`, that a behaviour of the
kernel is one of `Dining` - the safety half of `Dines`. Its invariant `KInv` adds to
the types that a slot named after a philosopher is his own (`SlotsKept`): without it,
the program in `current` may not be the one whose call `Dining` is asked to allow.
With `KernelDines` the theorems of `DiningProofs` hold under the scheduler, for a
process that is killed and a slot that is reused: `KernelExclusive`, `KernelWithheld`,
`KernelKeepsTable`.

`ExceptionsProofs`, on every table: `XTypesCorrect`, `UserCleanHolds`,
`LostOnlyIfExposedHolds`. `UserClean` speaks of user mode only, so the invariant
`Shape` says what is on both stacks wherever the processor may be: running with IRQ
enabled (`Runs`), in an interrupt's handler, in a supervisor call, in the supervisor
call of either's `print`, or astray with a return address that was overwritten. That
bounds the stacks, too. `StacksStayPrivate` and `HandlersAtomicHolds` carry
`SlotIdentity` and `PrivateStack` over to registers in the processor, and show that an
exception with all it nests is a step of `ProcessTable`: the proofs of
`ProcessTableProofs` are instantiated with the registers of the mapping (`AP`).

`StartupProofs`, for every number of seats, slots and pipes with `PHILS + 2` slots and
two pipes a seat (`StartupAssumption`, `PipesSuffice`), and programs the user may ask for that
have names of their own (`TypedAssumption`): `TypeCorrect`, `SeatsMatchHolds`,
`EverySeatTakenHolds`, `PatientUserHolds`. The two ends of a pipe are computed by
different processes, so the invariant is the whole state of setting up, in five phases
(`BeforeWaiter`, `Loading`, `CreatingPipes`, `Seating`, `Serving`): which slots are
taken, by whom, how far each is, which pipes exist and what is in the waiter's tables.
It holds until `disturbed`, which is never reset.

`DiskProofs`, for every number and length of blocks that is an int (`PackAssumption`: `pack`
writes four bytes): `TypeCorrect`, `InStepHolds`, `StepsKeepBlocks` and
`KeepsBlocksHolds`, the refinement of `BlockStore`. `InStep` counts characters; the
invariant `Conversation` says more, that what is in the stream is the answer to the
call the driver waits for, and that the disk is as that answer says - through
failures, repetitions and a server that ends. The lemmas on `hexlify`, `pack` and their
inverses are what makes the bytes that arrive those that were sent.

`DisplayProofs`, for every screen and size of pictures (`DisplayAssumption`), with text
that fits on the screen (`TextAssumption`) and movements that, with a picture, do not
reach round a whole row (`CursorAssumption`: 32 of 800 columns): `TypeCorrect`,
`NearScreenHolds`, `NoTrailHolds`, `LinesApartHolds`. `NoTrail` needs
`HiddenWhileMoving`: between the second and the third byte of a packet neither cursor
nor click is on the screen. `CursorInReach` is what the dimensions of `Pixels` in the
model rest on: the handler never draws further behind the frame buffer than that.

`NumbersProofs`, for words of 4, 8, 16 and 32 bits (`NumbersAssumption`), so in
particular for the 32 of the code, which TLC cannot enumerate: `RoundTripHolds`,
`ItoaPrintsHolds`, `PrimeRightHolds`, `GcdRightHolds`, `WeightRightHolds`. The only
state is the argument, and `Argument` the type invariant; the theorems are about
functions that recur. The library's induction theorems take an operator as a
parameter, which the provers here cannot instantiate, so `Least`, `Induction` and
`Recursion` state the same for sets and functions: a set that has each number whose
predecessors it has is Nat (from `WFMin`), and a function given by an earlier value of
itself exists. From these come the equations of `printed`, `Reads`, `n`, `Masked` and
`DigitSum`; those of `Tried` and `gcd`, which need not end for all arguments, come
from a solution that is written down. Then: `atoi` undoes `print_int` digit by digit
(`ReadsMore`); the rounds of the loop in `itoa` count the digits (`Digits`); a
composite number has a divisor up to its root (`SmallDivisor`); a subtraction keeps
the common divisors (`CommonMinus`); and a line of `weight` keeps the sum of the digits
and doubles their length (`PairedKeeps`).

Only model-checked: liveness (`NoStarvation`, `RequestAnswered`, `PipesEmptied`,
`CallReturns`, `BackToUser`, `EveryoneRuns`, `ServesAll`, and the fairness in
`Dines`), which these provers do not do.

## Findings

Each is a run that violates what a comment says.

* `fork_return` - `libc.h:72` "returning 0 iff. child or > 0 iff. parent": the user
  starts the waiter and kills pid 0, the console, before the waiter has forked (the timer
  has to come in between). The waiter's first fork is given slot 0, he is told 0, and
  takes himself for the child.
* `informed_eats` - `waiter.c:42` "Inform the philosopher that it's okay to eat":
  the okay may be overwritten or cleared, and then nobody who needs these forks
  ever eats.
* `executes_command` - `console.c:58` "execute whatever steps the command
  dictates": a line typed too early changes the program a child executes.
* `invalid_fails` - `disk.py:20` "if the address provided is invalid the request
  fails": from 2^31 on it ends the server.

Seen while modelling, and not the violation of a comment that a run quotes:

* a key or a mouse button during the reset may send the processor astray
  (`exposed` in `Exceptions`, `hilevel.c:296`, `lolevel.s:25`);
* the second waiter finds no pipe left, is handed his own first argument and takes
  the pipes of others for his (`cpipe` in `Pipes`, `hilevel.c:580`);
* with P3 in slot 1 and the waiter in slot 2, the philosopher of seat 0 is told 1 (`GetPid`
  in `Startup`, `hilevel.c:599`), and the last of sixteen 16, whose pipes do not exist;
* `yield` does nothing: `libc.h:64` says that it invokes the scheduler, and its case
  in the handler is a comment (`hilevel.c:500`). No program calls it, and no
  liveness property here needs it;
* a buffer for `disk_rd` that is shorter than a block puts every later call out of step
  (`misread` in `Disk`, `disk.c:103`).

## What is not modelled, and the plan

What could still be proved: that `Startup` ends in a state from which `Kernel` may begin
(the pipes of `SeatsMatch` are those `Dining` assumes), which would join the two by a
theorem; and what `misread` leaves true of `Disk`.

Left out: `kill` with a number that is no slot (what it writes to depends on the
layout of the image, `pcb` being the last of .bss); what the processor executes
after `nextProcess` found nobody; the timer's
first tick before the reset handler ends; a disk whose socket is closed. Not planned: the MMU code, which nothing calls; the register layouts of the
devices; the contents of a stack (fork does not copy it: a child must not use
what its parent had there, and the programs of the repository do not); the
wording of messages.
