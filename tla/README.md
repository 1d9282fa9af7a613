# A TLA+ model of the MOS kernel, its user library, file server and shell

This directory specifies the operating system in this repository: a small MIPS
exokernel (`kern/`, `init/`, `include/`), the library that user programs are
linked with (`user/lib/`), a file system server (`fs/`), a shell (`user/sh.c`) and
the tool that makes the disk image (`tools/fsformat.c`). The specifications are
checked with TLC on small instances. What they say of the scheduler, the memory, IPC,
pipes, mapped files, `fork`, `spawn`, the program loader, the file server's table of open
files and the shell's jobs, variables, current path, line editor and history is also
proved with TLAPS, for every size.

## The system

| Part | State | Operations | Interacts with |
| --- | --- | --- | --- |
| Environments (`kern/env.c`) | `envs[]`, `env_free_list`, `curenv`, `mkenvid`'s counter | `env_alloc`, `env_create`, `env_run`, `env_free`, `env_destroy`, `envid2env` | scheduler (run queue), memory (page directory, ASID) |
| Scheduler (`kern/sched.c`) | `env_sched_list`, static `count` | `schedule(yield)`, called by the timer, `sys_yield`, `sys_ipc_recv`, `env_destroy` | environments |
| IPC (`kern/syscall_all.c`, `user/lib/ipc.c`) | `env_ipc_*` of each environment | `sys_ipc_recv`, `sys_ipc_try_send`; `ipc_send`, `ipc_recv` | scheduler (block, wake), memory (page transfer) |
| Memory (`kern/pmap.c`) | `pages[].pp_ref`, `page_free_list`, page tables | `page_alloc`, `page_insert`, `page_remove`, `page_decref`, the `sys_mem_*` calls | TLB, environments |
| TLB and ASIDs (`kern/tlbex.c`, `tlb_asm.S`, `env.c`) | the TLB, `asid_bitmap` | refill, passive allocation, `tlb_invalidate`, `asid_alloc`, `asid_free` | memory |
| Pipes and descriptors (`user/lib/pipe.c`, `fd.c`, `pageref.c`) | one page per end, one buffer page, both shared by mapping | `pipe_read`, `pipe_write`, `close`, `dup`, `_pipe_is_closed` | memory (through reference counts), scheduler (`env_runs`) |
| fork (`user/lib/fork.c`, `kern/tlbex.c`) | page tables and copy-on-write bits of parent and child | `fork`, `duppage`, `cow_entry`, `do_tlb_mod` | memory, environments |
| spawn and loader (`user/lib/spawn.c`, `lib/elfloader.c`) | a child under construction | `spawn`, `init_stack`, `elf_load_seg` | file server, memory, environments |
| File system (`fs/fs.c`, `ide.c`) | block cache, bitmap, files on disk | block, file and directory operations | server |
| File system server (`fs/serv.c`, `user/lib/fsipc.c`, `file.c`) | `opentab`, request page | one request at a time over IPC | IPC, page reference counts |
| Mapped files (`user/lib/file.c`) | `Filefd` pages, the file's blocks mapped in each process | `open`, `read`, `write`, `ftruncate`, `close` | server, fork |
| Shell variables, current path (`kern/syscall_all.c`, `user/lib/path.c`) | `env_value[]`, `cur_path` | declare, unset, get; `chdir`, `getcwd`, `pathcat` | shell, file library |
| Shell (`user/sh.c`) | line buffer, `/.history`, processes of a line | `readline`, `savecmd`, `gethis`, `parsecmd`, `runcmd` | fork, spawn, pipes, wait |
| Output (`lib/print.c`, `user/lib/debugf.c`, `fprintf.c`) | `debugf`'s buffer | `vprintfmt` | descriptors |
| Disk image (`tools/fsformat.c`) | the image | `write_file`, `write_directory`, `flush_bitmap` | read by the file system |

The kernel runs with interrupts off, so each system call and each tick is atomic.
What interleaves is environments: the timer may switch after any instruction, so
two system calls of one library function may have anything between them. The one call
that lasts is `sys_cgetc`, which polls the console inside the kernel ("blocking all
envs", `kern/syscall_all.c:454`): until a key is typed no environment runs at all. This is
what makes the parts above hard: the run queue is updated from six handlers, some
of which unlink an element that is not linked; reference counts are read by user
code that has no lock; a TLB entry outlives what it was loaded from unless some
handler remembers to drop it; slots, ASIDs and pages are reused at once; `fork` runs
on a stack that it is marking copy-on-write; every call of `spawn` may fail and
leave a half-made child; the file server writes some blocks at once and others
never, and the power may fail in between; one string in the kernel is the current
path of everybody.

What makes each part correct:

- environments and scheduler: the run queue holds exactly the runnable
  environments and its links are sound; slots are neither lost nor handed out
  twice; nobody starves and nobody is overtaken; the kernel panics only when there
  is nothing to run;
- IPC: a receiver is blocked until it gets one message, reads one message and not
  parts of two, and a message is delivered once, in order;
- memory: counts equal the number of mappings, no page in use is free, page tables
  are private, the TLB agrees with the page tables, ASIDs are unique;
- pipes: bytes arrive in order, and "closed" is said only, and always, when the
  other end is closed;
- fork: the child has the memory the parent had at one moment, and neither sees
  what the other writes afterwards;
- spawn: a child that runs is complete, a failure of `spawn` leaves nothing of its own
  behind, and a segment is where the program header says;
- file system: no block has two owners or is free and in use, in memory and, while
  files grow, on the disk between any two writes; an image from `fsformat` is such a
  disk;
- file server: a descriptor keeps its file; every request is answered once;
- shell: the line, the history, the variables and the current path are what a user
  takes them for; each program of a line gets its streams as long as the calls that
  `sh.c` does not test succeed, and the line ends whichever of them fail.

`PROJECT.json` lists the parts, the hazards and which property is about which.

## Modules

| Module | Models |
| --- | --- |
| `TailQueue` | the `TAILQ_*` macros of `include/queue.h` on their pointers |
| `RoundRobin` | abstract: one line of environments, the front has the processor |
| `EnvSched` | environments, scheduler, IPC as scheduling events |
| `EnvSchedProofs` | theorems about `EnvSched`: types, free list, blocking, the run queue, and that it implements `RoundRobin` |
| `Pmap`, `MCPmap`, `PmapProofs` | pages, page tables, TLB, ASIDs, memory system calls |
| `IpcLib`, `IpcLibProofs` | `ipc_send` and `ipc_recv` with what a message carries |
| `PipeRefs`, `MCPipeRefs`, `PipeRefsProofs` | who holds a pipe, and how `_pipe_is_closed` finds out |
| `PipeBuf` | the bytes of a pipe |
| `FileMap` | reading and writing an open file, mapped in several processes |
| `PipeBufProofs` | theorems about `PipeBuf` and `FileMap` |
| `ForkMemory` | abstract: memories, copied in one step |
| `ForkCow` | `fork`, `duppage`, copy-on-write faults |
| `Spawn` | `spawn`, call by call, with every failure |
| `ProgramProofs` | theorems about `ForkCow`, `Spawn` and `ElfLoad` |
| `ElfLoad` | `elf_load_seg`, page by page |
| `FsBlocks`, `MCFsBlocks` | the file system on its blocks, with power failures |
| `FsServ`, `FsServProofs` | the request protocol and the table of open files |
| `FsFormat` | the disk image, read back with the operators of `FsBlocks` |
| `VarScopes` | abstract: one store of variables per scope |
| `EnvValue` | the kernel's table of shell variables |
| `CurPath` | the current path and the names appended to it |
| `EditLine` | abstract: a line with a cursor, and the commands before it |
| `LineEdit` | `readline` and the history file |
| `ShellJobs`, `MCShellJobs` | the processes and pipes of a command line |
| `ShellProofs` | theorems about `ShellJobs`, `EnvValue`, `CurPath` and `LineEdit` |
| `PrintFmt` | `vprintfmt`, `debugf` and `printf` |
| `MCDevices` | for TLC: `PipeBuf` or `FileMap` |
| `MCPrograms` | for TLC: `Spawn`, `ElfLoad`, `ForkCow` or `PrintFmt` |
| `MCFileServer` | for TLC: `FsServ`, `FsBlocks` with failures, or `FsFormat` |
| `MCShell` | for TLC: `CurPath`, `LineEdit` or `EnvValue` |

The last four modules put components side by side that share no state. A variable
`dev` or `about`, chosen at the start, says which one a behaviour is about, and the
others do not move: the state space is the sum of theirs and not the product. Their
properties name the component they speak of.

An operator whose comment says *faulty variant* is not part of the model. It is
the definition after it with one plausible mistake; putting it in that
definition's place makes TLC find the property of `PROJECT.json` "mutants"
violated, which shows that the property says something about that code.

`Discipline` (`PathRules` in `CurPath`, `TableRules` in `EnvValue`, `LinkRules` in
`ElfLoad`, `FileRules` in `FileMap`, `LineRules` in `LineEdit`) names rules that the code
relies on and does not enforce. The runs keep them.
Without a rule TLC finds a counterexample, listed under *What the models found*, so none
of them is there for convenience.

### TailQueue and EnvSched

The queue is kept at the level of `tqh_first`, `tqh_last`, `tqe_next` and
`tqe_prev`, because several handlers call `TAILQ_REMOVE` on an element that is
already out of the queue. What the macro does then depends on stale links, which a
sequence could not show. A store through a null `tqe_prev` faults in the kernel
and ends in `passive_alloc`'s panic "address too low".

`EnvSched` has one action per handler: `env_create` and `enable_irq` (boot),
`timer_irq`, `sys_yield`, `sys_exofork` and its failure for want of an ASID,
`sys_set_env_status`, `sys_ipc_recv`, `sys_ipc_try_send`, `sys_env_destroy`.
Envids are pairs of counter and index. Nothing of a slot is cleared unless
`env_alloc` or its caller clears it, so a reused slot has the old IPC flags and
links. A handler that returns an error before it changes anything is a stuttering
step and has no action. `sys_cgetc` sets `reading`, and nothing but `key` happens until it
is FALSE again: the kernel spins with interrupts off. The three rules: destroy only what is
on the run queue, make runnable only what is not receiving, suspend only others.

### Pmap

The page directory is mapped into itself at `UVPT`, so one function holds both
levels: `pt[s][<<d, t>>]` is a user page, `pt[s][<<d, UVPT>>]` the entry of page
table `d` in the directory, `pt[s][Self]` the directory's own. That also covers
the refill of a `UVPT` address whose table does not exist, where `passive_alloc`
creates a page table. `tlbwr` may replace any entry. The free list is a set, since
no property depends on its order. `abandoned` is a history variable: the page
directories that `env_alloc` leaves behind when `asid_alloc` fails.

### IpcLib

One step is one system call of `ipc_send` or `ipc_recv`, or one of the three reads
that `ipc_recv` makes of its own `struct Env` after it is woken. Any environment may
be sender and receiver. The value of a message names the message, so a receiver
that puts together parts of two is found out. `sys_ipc_try_send` is kept in the
code's order: it fails for the page after it has woken the target.

### PipeRefs and PipeBuf

`PipeRefs` models one pipe in the descriptor tables of several environments, one
system call or one read of shared memory a step. `env_runs` is only compared with
an earlier value of itself, so `ran[e]` records whether it has changed since it was
read. `fork` copies pages in the order of their addresses. `dup(f, f)` comes down
to `close(f)` and an error. `PipeBuf` models one reader and one writer, one access
to the shared page a step, positions modulo `PosMod`, with the answer of
`_pipe_is_closed` taken as right, which is what `PipeRefs` shows.

### ForkCow, Spawn and ElfLoad

`ForkCow` makes one access a step to what another environment can see: a store, the
copy of a page, a mapping. The stack is a page like others, so that `fork`'s own
stores fault while it is at work; these are the `Scratch` pages of `ForkMemory`,
whose contents in the child are any. `ForkMemory` is what TLC shows to be
implemented: `CopiesMemory`.

`Spawn` has a step for each call, each of which may fail. Children that run exit at
any time and slots are reused, so a call with a wrong id would meet somebody
else's environment. `fds` counts the descriptors that have come into use; an `open` that
fails may leave one (`user/lib/file.c:58`), which the history variable `lost` counts.
`ElfLoad` names each byte of a segment by its segment and
offset, so that a byte at the wrong place, twice or missing shows.

### FsBlocks and FsFormat

The functions of `fs.c` are operators from a state of the server (cache, dirty bits,
queue of writes) to the next. Bitmap, root, directories, index blocks and data are
all found in blocks; a `File` is named by its place. Requests are handled one after
the other, as the server does. The blocks a request writes are queued in the code's
order with the contents they have at that moment, reach the disk one by one, and
between two of them the power may fail; the server then boots from what is there.

`FsFormat` writes files and directories to the next blocks, keeps the root in
block 1 and makes the bitmap at the end. `next_block` counts on behind the disk, as the
code does: what is stored there goes to the memory behind the array (`Memory`, up to
`MaxOver` blocks of it) or ends the program. Rule "fits" gives it only what fits. Its properties use the operators
by which `FsBlocks` finds a path: what the tool writes is what the server reads.

### FsServ and FileMap

`FsServ` has the client's two system calls and the server's loop as steps of their
own. A free entry of `opentab` is recognised by the reference count of its `Filefd`
page, which clients change by `fork`, `dup`, `close` and exit; the model counts the
mappings. What a request does to files is in `FsBlocks`; here it succeeds or fails. A
message may wake its receiver and then fail for want of a page table for the page that
goes with it (`kern/syscall_all.c:449`): `user_assert` in `ipc_send` then ends the sender,
client or server. Rule "tables" keeps that from happening.

`FileMap` keeps one file: the server's blocks, their mappings in each process, and
the size and offset in the `Filefd` page that a fork shares. Reads and writes are
memory accesses; changes of the size are requests, with other processes running in
between. `written` is a history variable: the bytes last written and not cut off.

### The shell: EnvValue, CurPath, LineEdit, ShellJobs

`EnvValue` keeps the array as it is, with invalid entries in it; the shell's id goes
to `declare` and `unset` as a signed character. It implements `VarScopes`.

`CurPath` keeps `cur_path` and the buffers as characters, since what `pathcat` does
depends on slashes and dots; names have one letter. A file operation reads
`cur_path` and sends its request in two steps, and so does `cd` with its look at the
directory.

`LineEdit` has one action per key; `cursor` is the `i` of `readline`. The buffer has the
terminator and what lies behind it, and the history is the file with its offsets. It
implements `EditLine`, which knows no buffers.

`ShellJobs` starts from any command line of up to three commands, with pipes,
lists, `&`, redirections and `cd`. It follows `parsecmd` in the order in which it
forks, dups and closes. A process has a table of descriptors of which the numbers may
run out, and `open`, `pipe`, `dup`, `fork` and `spawn` may fail wherever the code has them.
What `sh.c` does not test, it goes on with: a failed second `open` of `>` (`sh.c:234`), a
`pipe` that has set no numbers (`:259`, `Garbage`), a `fork` without a child (`:260`, `:274`,
`:282`), a `dup` that has closed its target and copied nothing. `tab.lost` tells that
such a call has failed in a process or in one that it comes from. A program that reads a
pipe ends when nobody else can write it; one that writes a pipe ends when somebody reads
it or nobody could. `reader` tells who keeps the kernel in `sys_cgetc`, a program that
reads the console or the shell at its prompt; meanwhile nothing moves.

### PrintFmt

A call is given items; `Render` spells them out as the format string that
`vprintfmt` then parses character by character, and `Expected` says what the items
mean without padding tricks or reversed buffers. Words have four bits, so every value
is tried.

## Runs

| Run | Properties | What it shows |
| --- | --- | --- |
| `sched` | `SchedListInv`, `QueueUsable`, `BlockedWhileReceiving`, `CurenvRunnable`, `FreeListExact`, `MessageNotOverwritten` | With the three rules kept, every interleaving of system calls and ticks keeps the run queue exact and well linked and delivers a message once; with fewer ASIDs than slots the free list stays exact after an `env_alloc` that fails half-way. |
| `sched_live` | `ImplementsRoundRobin`, `FairTurns` | The pointers implement the round-robin line; nobody is overtaken; everybody runs, unless the kernel spins for a key for ever. |
| `sched_destroy` | `SchedListInv` | Violated: destroying what is not queued corrupts the queue. |
| `pmap` | `FramesExact`, `TranslationsExact`, `LeakOnlyWhenFull` | Counts, free list, tables, TLB and ASIDs agree, with memory and ASIDs running out. |
| `pipe_refs` | `AnswerRight`, `AnswerIsSnapshot` | `_pipe_is_closed` is right, if an end that others hold is not passed on. |
| `devices` | `BytesIntact`, `ShortOnlyIfClosed`, `CallsEnd`, `FileKept` | Bytes of a pipe arrive in order and calls return; a file that one process at a time extends reads as written. |
| `ipc_lib` | `ReadsWhole`, `DeliveredOnce`, `ReceiverMet` | `ipc_recv` returns one message; a message is delivered once and in order; who waits for somebody that sends is woken. |
| `programs` | `LoadedExactly`, `ForkSafe`, `SpawnSound`, `CopiesMemory`, `PrintsRight` | Segments land exactly; copy-on-write implements copying; a failing `spawn` leaves nothing of its own; every directive prints what it means. |
| `fs_blocks` | `ServesSoundly`, `FreeSlotEmpty` | In two levels of directories and with a full disk, no block has two owners and the server does not panic. |
| `file_server` | `OpenFilesKept`, `SoundAfterFailure`, `ImageServes`, `RequestsAnswered` | Descriptors keep their files and, with memory for what is sent, requests are answered; while files grow a power failure leaves a sound disk; `fsformat`'s images are sound and found by the server. |
| `shell` | `CurPathKept`, `RequestsMeanArgs`, `TableKept`, `LineKept`, `ImplementsEditor`, `ImplementsScopes` | Current path, names, line editor, history and variables are what they promise. |
| `shell_jobs` | `StreamsRight`, `ShellWaits`, `LineEnds` | Every program of a line gets its streams, if no untested call has failed; whichever calls fail, lists run in order, the prompt comes at the end, and the end comes. |

A property that names several facts is their conjunction, with the type invariant
among them; each conjunct has a comment of its own in its module.

Bounds, and why they are enough:

- `sched`: four slots and three ASIDs, so that a queue has a first, a middle and
  a last element and `sys_exofork` can fail with a slot left; `MaxIds = 4`, so that
  a slot is reused. Priority 2 gives a slice that is used up and one that is not;
  `sched_live` mixes priorities 1 and 2.
- `pmap`: three slots and two ASIDs, so an ASID passes from one environment to
  another and `asid_alloc` can fail; five pages, so that two spaces with a table
  and a page each leave one to run out of; page tables of two entries, so that a
  page can be mapped twice in one space; a TLB of two entries, so that one is
  replaced. Pages and slots are symmetric: no action tells them apart. `RefMod`
  is far above what can be reached.
- `pipe_refs`: three environments, since a wrong answer takes one that asks, one
  that acts and one that still holds the other end; two descriptors, so that `dup`
  has somewhere to go.
- `devices`: three cells and positions modulo 6 so that both wrap within the ten
  bytes; calls of one byte and of a whole buffer. A file of two pages of two bytes,
  so that reads and writes cross a page, with a process and its child.
- `ipc_lib`: three environments, so that two send to one; three messages, so that one
  can come between two of another sender.
- `programs`: two slots, two segments and two shared pages for `spawn`, so that a
  failure comes between two of each and a slot is reused; two free descriptors, so that
  both of its `open`s may leave one; segments of up to five
  bytes in pages of two, at any offset; two forks of two environments, so that a
  child forks and a page is shared by three mappings over time; texts shorter and
  longer than `debugf`'s buffer.
- `fs_blocks`: four blocks to give away, fewer than the requests can ask for; one
  direct pointer, so that a file of two blocks needs an index; two files to a
  directory block, so that a directory grows. `file_server` adds one power failure,
  and images of up to four files and directories, that fill the disk to its last block.
- `file_server`: two clients, descriptors and entries, four calls: enough for an
  entry to be freed and used again while a copy of its descriptor is open.
- `shell`: arguments of three characters (`./a`, `/a`, `a/a` are among them) and a
  `PathLen` that two levels fill; lines of three characters, so that the cursor is
  before, in and behind the text; two commands; two shells and two names in a table
  of three.
- `shell_jobs`: three commands are the least with a pipe, or a list, inside another. All
  lines of one command; of two, all without `cd`, and those with `cd` and no redirection;
  of three, those without redirections, and with redirections those joined by `;`. Five
  descriptors, of which `fd_alloc` never gives the last: a pipe finds its two numbers, and
  does not when a failing `open` has left one. `Garbage` is a number in use or none.

Deadlock is checked in `pmap`. In the others the system may really stop: a panic
ends the kernel, a shell waits for a key, and bounded numbers of environments,
bytes, calls or messages are used up.

Fairness: `sched_live` assumes that boot finishes and of the timer strong fairness
(the RTC of `kclock_init` is periodic, user code cannot mask it, and an interrupt that
comes while the kernel is in `sys_cgetc` stays pending until the return): whoever
interrupts the spinning with a key again and again has ticks again and again. It assumes
neither that a key is typed nor anything of user code, so `FairTurns` says what happens if
no `sys_cgetc` lasts for ever (`[]<>(~reading)`); without that condition it is false.
`shell_jobs` likewise lets nothing move while a program or the shell at its prompt reads the
console, and assumes that some process that can go on does so if nobody spins again and
again; `LineEnds` says that the prompt comes unless a program reads the console for ever,
and that the jobs behind `&`, too, end unless the prompt does. It also assumes of a
program that it ends once its input has ended.
The other runs with a liveness property leave the console out: they assume that nobody
else spins in `sys_cgetc` for ever, and so that an environment in the middle of a library
call gets the processor again and again, as `FairTurns` says: the two sides of a pipe
(`devices`), the polling loop of `ipc_send` (`ipc_lib`), the server and a client with
a request (`file_server`). None assumes that anybody makes another call.

## What the models found

`sched_destroy` is the run of the first finding. For the others, the configurations
named here reproduce the counterexample with TLC, and where none is named, the rule
or constant to change in the run's configuration is.

Scheduler and IPC:

- `env_free` unlinks unconditionally (`kern/env.c:431`); `spawn`'s error exits
  destroy a child that has never been queued (`EnvSchedDestroy.cfg`, against the
  invariant at `kern/env.c:18`).
- A child that its parent makes runnable while it waits in `sys_ipc_recv` is
  queued twice by the next message (`kern/syscall_all.c:437`; `SchedListInv` without
  rule "wake_fresh").
- An environment that suspends itself is unlinked twice (`kern/sched.c:41`;
  `SchedListInv` without "suspend_others").
- A send whose page cannot be mapped has already woken its target, which goes on with
  a value and without the page (`kern/syscall_all.c:443`; `FailedNotDelivered` of
  `IpcLib`).
- `env_ipc_perm` has `PTE_V` also when no page is sent (`kern/syscall_all.c:430`;
  `PermTellsPage` of `IpcLib`), so the server's test "All requests must contain an
  argument page" (`fs/serv.c:225`) never fires.
- While one environment waits for a key, nobody runs, and jobs behind `&` stand still as
  soon as the shell prompts (`kern/syscall_all.c:457`; `FairTurns` and `LineEnds` without
  their conditions on `reading` and `reader`).
- A page sent to a receiver that gave `dstva` 0 is mapped at address 0
  (`kern/syscall_all.c:449`, against the comment at line 355; `NoPageUnasked`, without
  rule "asked").

Memory, pipes and programs:

- `pp_ref` is 16 bits wide and unchecked (`kern/pmap.c:259`; `MappedHasRef` with
  `MayWrap` and `RefMod = 3`).
- `fork` and `spawn` share Fd pages before buffers, so other holders of the end
  may be told that the pipe is closed (`user/lib/fork.c:141`; `NoFalseClose` with
  `SharedFork`).
- `pipe_read` may return 0 with bytes in the buffer (`user/lib/pipe.c:152`, against
  lines 125-126; `PipeBufEof.cfg`).
- `duppage` ignores the result of `syscall_mem_map`: a child runs with a fresh zero
  page in place of one that could not be mapped (`user/lib/fork.c:102`; `CopiesMemory`
  with `MapMayFail`).
- When the file part of a segment ends in the page it begins in, and does not begin
  with it, `elf_load_seg` maps a zero page over it (`lib/elfloader.c:45`;
  `SegmentsLoaded` without rule "full first page").
- `open` returns an error of `fsipc_map` with its descriptor still in use, also to `spawn`
  (`user/lib/file.c:59`; `NothingLeft` with `fds = 0` in place of `fds = lost`).
- `spawn` of a file that is too short returns the number of bytes read, which is not
  negative (`user/lib/spawn.c:141`, against lines 135-136; `ResultTold` with
  `ShortFiles`).

Files:

- `fs_sync` writes only dirty blocks, and directories, indexes and the super block
  never are (`fs/fs.c:777`, "Sync the entire file system"; `SyncWritesAll`).
- A block that is freed and used again keeps its old contents, so a new directory has
  old entries (`fs/fs.c:244`; `FsBlocksStale.cfg`).
- An open file can be removed and its entry used for another (`fs/serv.c:191`;
  `OpenFilesLive` without rule "kept").
- Blocks mapped behind the end of a file are not freed with it (`fs/fs.c:700`;
  `FreeSlotEmpty` without rule "inside").
- After a removal and a power failure, an entry on the disk has blocks that belong to
  another file (`fs/fs.c:811`; `DiskSound` with `MaxCrashes = 1`).
- `serve_open` answers twice when `open_alloc` fails, for want of an entry or because
  an id has become negative, and the server then waits for ever (`fs/serv.c:96`, `:62`;
  `FsServFull.cfg`, and `IdSign` for the id).
- An answer whose page cannot be mapped for the client, for want of a page table, ends
  the server (`user/lib/ipc.c:17`, after `kern/syscall_all.c:449`); no later request is
  answered (`ServerAlive`, `RequestsAnswered` without rule "tables").
- `fsformat` writes an image with links to blocks behind the disk when the files do not fit
  (`tools/fsformat.c:137`; `ImageSound` without rule "fits" and `MaxOver = 1`).
- A write through one descriptor cuts off what was written through another
  (`user/lib/file.c:198`; `FileMapTwice.cfg`); a process does not see what its child
  has added (`:147`; `ReadsWritten` without rule "alone"); after a growth that failed a
  write goes behind the end of the file (`:243`; `WrittenInside` without "space").

Shell:

- The table of variables is written behind its end (`kern/syscall_all.c:584`;
  `EnvValueFull.cfg`); a shell takes over another's local variable (`:573`; `LocalsKept`
  without "own names"); from shell 128 on a shell does not see what it declares
  (`user/sh.c:306`; `DeclaredIsRead` with `MaxShells` at half of `CharMod`).
- `cd` with an absolute path enters what does not exist (`user/sh.c:328`, against line
  343; `CurPathIsDir` without "exists"); a name that begins with a dot loses two
  characters (`user/lib/path.c:24`; `RequestsMeanArgs` without "plain"); `pathcat`
  stores behind its buffer (`:32`; `InBuffer` without "short"); all shells share one
  current path (`kern/syscall_all.c:706`; `OwnPath` with two shells).
- `readline` stores behind its buffer (`user/sh.c:537`; `LineEditLong.cfg`, without "room"),
  before it when nothing can be recalled (`:159`; `InBounds` without "some"), and behind
  `hisoffsets` after 128 commands (`:125`; without "few"); a `/.history` of an earlier
  shell is recalled at the wrong offsets (`:123`; `HistoryTold` with `Older`).
- The right side of a pipe whose left side is redirected loses the pipe
  (`user/sh.c:170`; `ShellStreams.cfg`).
- A program runs with other streams than its line says when the second `open` of `>`
  fails (`user/sh.c:234`), when `pipe` or `fork` does (`:259`, `:260`), or a `dup`: none is
  tested (`StreamsRight` without its condition on `tab.lost`).
- A shell whose `cd` is the left side of a pipe ends without waiting for the right
  side, and the prompt comes before that has run (`user/sh.c:364`;
  `ShellWaits` without "cd").

The second removal that every `sys_ipc_recv` causes in `schedule` is harmless: no
insertion comes between the two, and unlinking an element twice in a row stores what
the links already are (`RemoveSpells` of `EnvSchedProofs`).

## What is proved

Every theorem below holds for all values of the constants that satisfy the named
assumptions of its module. These only say that sizes are positive or sets finite,
that `NULL`, `NONE` and the like are not elements, and in `ForkCow` that there are pages
enough for everything that can be mapped; what else a theorem takes for
granted is a hypothesis of its own, listed here.

| Theorem | Property | Hypothesis |
| --- | --- | --- |
| `TypeCorrect`, `FreeListIsExact` | `TypeOK`, `FreeListExact` | none: also while the run queue is corrupt |
| `ReceiversBlocked`, `ReturnsToRunnable`, `DeliveredStays` | `BlockedWhileReceiving`, `CurenvRunnable`, `MessageNotOverwritten` | the three rules |
| `QueueHoldsRunnable`, `QueueIsUsable`, `SchedulerIsRoundRobin` | `SchedListInv`, `QueueUsable`, `ImplementsRoundRobin` | the three rules |
| `FramesAreExact`, `TranslationsAreExact`, `LeaksOnlyWhenFull` | `FramesExact`, `TranslationsExact`, `LeakOnlyWhenFull` | no `pp_ref` reaches `RefMod` |
| `MessagesWhole`, `MessagesOnce` | `ReadsWhole`, `DeliveredOnce` | none |
| `PipeClosedIsRight` | `AnswerRight` | `fork` passes on no end that others hold |
| `AnswersAreSnapshots` | `AnswerIsSnapshot` | none |
| `PipeIntact`, `ShortOnlyWhenClosed` | `BytesIntact`, `ShortOnlyIfClosed` | none |
| `FilesAreKept` | `FileKept` | "one", "alone", "space" |
| `SpawnIsSound` | `SpawnSound` | program files are not cut short; `SpawnSound` lets a failing `open` leave its descriptor |
| `ProgramsAreLoaded` | `LoadedExactly` | "own pages", "full first page" |
| `ForkIsSafe` | `ForkSafe` | none: also when mappings fail half-way |
| `ForkCopiesMemory` | `CopiesMemory` | no mapping fails (`MapMayFail` is false) |
| `OpenFilesAreKept` | `OpenFilesKept` | "room", "memory", "tables", and ids that stay below the sign of an int |
| `OneEntry` | `TableKept` | none: also when there are more names than entries |
| `TableKeepsScopes` | the part of `ImplementsScopes` that is `ScopesSpec` | "own names" |
| `DeclaredRead`, and both together in `ScopesImplemented` | `DeclaredIsRead`, `ImplementsScopes` | "few names", and `2 * MaxShells < CharMod`; both rules for `ImplementsScopes` |
| `CurPathIsKept` | `CurPathKept` | "kept", "exists" |
| `LineIsKept`, `EditorImplemented` | `LineKept`, `ImplementsEditor` | "room", "some", "few", and `/.history` empty at the start |
| `ProgramsHaveTheirStreams` | `StreamsRight` | "plain"; the property speaks of programs on whose way no untested call has failed |
| `ShellWaitsForJobs` | `ShellWaits` | "cd"; whichever calls fail |

Every hypothesis excludes one of the counterexamples above, and TLC's runs satisfy
them.

Scheduler, `EnvSchedProofs`. `TypeOK` is not inductive. That `count` stays natural
needs a priority of at least 1 for whatever `TAILQ_FIRST` returns, and since the links
may be stale, for whatever any forward pointer leads to. `StructInv` adds just that:
every forward pointer leads to a slot that has been given a priority (`PointersIn`), a
slot in use has one (`LiveRanked`), and the current environment is in use
(`CurenvLive`), which in turn needs an exact free list. `BlockingInv` adds the two
properties of the blocking protocol, which support each other: destroying only
runnable environments gives back slots whose receive flag is clear, because receivers
are blocked.

Run queue, also in `EnvSchedProofs`. The invariant (`RunInv`) says that there is a sequence of
distinct environments which the links spell out in both directions (`Spells`), that its
members are the runnable ones (`Spelled`), that the current environment, if there is
one, is its first (`HeadRuns`), that none runs before the first timer interrupt
(`BootFirst`), and that the kernel stops only on an empty queue (`IdlePanic`). Insertion
at either end and removal are lemmas about a queue that spells a sequence
(`InsertTailSpells`, `InsertHeadSpells`, `RemoveSpells`); every handler is a composition
of them. That the walk of the links meets the same sequence (`WalkSpells`) is an induction over its length.
It is done by `SetInduction`: a set of naturals with 0 and the successor of each of its members has
all of them, since otherwise the successor would map a finite initial part of it
injectively into less than itself. For the refinement, every step of `EnvSched` is shown
to be one of `RoundRobin` on the sequence the queue spells, or none.

Memory, `PmapProofs`. `RefCountExact` counts table entries, so each change of a table is
reduced to setting one entry (`SetEntry`), which changes the counts of the old page and
of the new by one; `page_insert` sets up to two. `FramesInv` needs that free pages are
counted by nothing and that a dead slot maps nothing. The TLB part (`InsertTlb`) rests
on it: an ASID belongs to one live slot, and every change of an entry is followed by
`tlb_invalidate` before anything else can be loaded.

IPC, `IpcLibProofs`. `WholeInv`: fields of a receiver change only while it is blocked, so
between its wake-up and its last read they are those of one message. `OnceInv` adds that
a message that is over is *past*, below the number its sender will use next.

Pipes. `PipeRefsProofs`: wherever an Fd page is mapped in an environment that runs, the
buffer is mapped beside it, and a buffer without one is what a `close` or `dup` in
progress is about (`LiveSound`); a child under construction has what its parent has, up
to the page `fork` has reached (`ChildHas`); an end that a forking environment has is
shared with its child alone (`OwnersApart`, the only part that needs the hypothesis). A
reading of `_pipe_is_closed` stays true as long as its environment is not switched
(`Snapshot`), which is what the loop over `env_runs` tests. `PipeBufProofs`: the
positions are the counts of bytes modulo `PosMod`, the distance of the counts is at most
a buffer, and the bytes in between are in their cells; the rest is arithmetic modulo two
numbers of which one divides the other.

Mapped files, also in `PipeBufProofs`. A read finds what a write left because both go to
the server's block. `FileInv` says why: whoever has the file open has the same
descriptor, and is alone with it inside a call (`OneOpen`, which is what "one" and "alone"
are for); between calls a process maps just the blocks of the pages that the size needs,
and inside `open` and `ftruncate` those up to the page the loop has reached
(`FileMapped`); every page of the file has a block and no block is at two places
(`FileBlocks`, which needs "space"); and bytes written are inside the size and in their
block (`WrittenInside`). Since a block has one place, copying to a page leaves the bytes
of the others. A write that is to extend the file ends at the size it has asked for
(`Extends`), which is why it never shrinks it. For a file that is cut, `file_set_size`
keeps one block more than the size needs in some cases, and `PageInside` shows that
it never keeps one less. Positions are split into page and place with `DivideIs` and
`DivideMonotone`, for any page size.

Programs, `ProgramProofs`. `spawn`: what the child has been given, and whether `spawn` has a
descriptor more than the failing `open`s have left, is a function of the place `spawn` is
at, and only a slot that is the child's is under construction.

`fork`: `ForkSafe` speaks of pages that may be written without a fault, which says
nothing yet of the page a step is about. `SafeInv` adds what the code knows at each
place: `duppage` holds the bits of the page `fork` is at, and the stack is writable by
then (`LoopStep`); `cow_entry` is about a page that may not be written, and holds a page
at `UCOW` that nobody else has (`CowStep`, `UcowPrivate`); a child has one parent, which
runs it only when its handler is set (`OneParent`, `Handlers`). `cow_entry` on the stack may
come between any two steps of `fork`, so each part is shown for all actions at any place
of it. For `CopiesMemory`, `CopyInv` says that a child under construction has its parent's
pages up to the one `fork` is at (`ChildCopied`). They stay the parent's because the
parent, inside `fork`, stores to its stack alone, whose contents `ForkMemory` leaves open
(`Scratch`), and every other page but the library's is copy-on-write from the moment it
is shared. A page is at the same address wherever it is mapped (`SamePlace`),
library pages are writable and one for all (`LibraryPerm`, `LibraryMapped`,
`LibraryOne`), and the page at `UCOW` remains a copy until it is mapped (`CopyMade`). The
atomic copy of `ForkMemory` is the step in which the child becomes runnable; every other
step is a store, an exit, or changes no memory that somebody reads.

The loader: `Loading` says that the first `elf_i` bytes of the segment at work are in
memory and that the next one begins a page, unless there is none. The rule about first
pages is what establishes the latter, so a page that is mapped later has no byte of this
segment yet, and the rule that segments share no page keeps it off the others
(`PagesApart`). Addresses are split into page and offset with `DivIs` and `DivMonotone`,
for any page size.

File server, `FsServProofs`. An entry with a descriptor is open on the descriptor's file
(`FdsSound`); a client that asks on a descriptor still has it (`CallsSound`); the client
that is served waits (`ServesAsker`). The two rules act through counts: entries in use and
clients about to open a file are together no more than `MAXOPEN` (`RoomLeft`), so
`open_alloc` always finds an entry, and its id is its index plus `MAXOPEN` for every use,
of which there are no more than calls (`IdsCount`); so `id % MAXOPEN` is the index, and no
id is negative.

Shell, `ShellProofs`. Jobs: as long as a process has not lost anything (`tab.lost`), its
streams follow from its command and its place in `parsecmd` (`Streams`, with `Base` for
what a command reads before its redirections), which is inductive with the types. What
`open`, `dup`, `pipe`, `fork` and `close` do to a table are lemmas (`OpensFacts`,
`DupsFacts`, `PipesFacts`, `CopiesFacts`, `CloseFacts`): each result has lost something or
has the descriptor where the code wants it, and a number that was free is neither 0
nor 1 as long as both are open (`StreamsOpen`). Waiting is about all processes:
`FrontInv` says that at most one has the rest of the line before it; `ProgramsAwaited`,
`ListAwaited` and `PipesAwaited` say who waits for a program, for a command before `;` and
for the right side of a pipe, and that the one that waits was made earlier. So the
least of the processes of a line is awaited by none of them, which leaves the first, for
which the shell waits (`FirstInLine`).

Variables: `TableKept` is inductive. With one valid entry per name, the first that the
loops find is the only one, so what a scope has for a name is what that entry says
(`ScopedFacts`), and `declare` and `unset` change one variable of one scope. An entry is
filed under a char; below half of `CharMod` the char is the identifier.

Current path: `PathInv` says of every `cd` that has confirmed a path that the path is
still a directory's when it sets it (`Confirmed`). Creation takes no path away, and removal
spares what is in use by the rule; that a string and its components belong together needs
facts about `Components` for the root and the empty path alone.

Line and history: `LineInv` says that the cells before and behind the buffer are intact
and that the line in it has no terminator before its end (`BufferSound`), and that the
offsets cut the file into commands, each ended by a newline and short enough for the
buffer (`OffsetsSound`). So what `gethis` reads ends with the zero it stores, and `strlen`
finds that zero and nothing left from an older, longer line (`GethisIs`, `ShownSound`).
Entering a command adds one piece behind the others and leaves those what they were
(`FileGrows`, `EnterSound`). For the refinement, the line and the commands after a key are
compared place by place with what `EditLine` says, by lemmas about sequences that are
cut, joined, lengthened and shortened at a position (`Sliced`, `Joined`, `Inserted`,
`Removed`).

Each of these invariants was checked with TLC on an instance before it was proved.

Only model-checked:

- liveness, which is out of this prover's reach: `FairTurns`, `CallsEnd`, `ReceiverMet`,
  `RequestsAnswered`, `LineEnds`;
- what an algorithm computes from all its data, which needs induction over the data:
  `PrintsRight`, `ImageServes`, `RequestsMeanArgs` (a fold over the components of a path)
  and the path walks of `FsBlocks`;
- `ServesSoundly`, `FreeSlotEmpty` and `SoundAfterFailure`: what is reached is a recursion
  over pointers on a disk, and so are the loops of `fs.c` over the blocks of a file and the
  names of a path, each of which would have to be shown to keep them by induction.

## Not modelled

Trap frames, register saving and boot memory detection; the device registers of
console, clock and IDE disk (a block write is one step); string functions; the
tokenizer and the expansion of `$` in `sh.c`, which are sequential text handling;
which key `sys_cgetc` returns;
`stat` and `fstat`, which only copy; the utilities other than `declare` and `unset`,
which are loops over the file interface; the host tools other than `fsformat`. The
wrap of `mkenvid` after 2^21 environments (`kern/env.c:99`) is cut off by `MaxIds`.
`PipeBuf` has a single reader and a single writer: with two of a kind, neither the
store nor the increment (`user/lib/pipe.c:204`) is protected. `ShellJobs` begins when the
shell has forked for the line (`user/sh.c:618` tests that fork), takes `<` before `>`, and
has of `fork`'s untested mappings those of the descriptor table: a child without its
code, its stack or the buffer of a pipe is not modelled there (`ForkCow` has `duppage`'s).

## Plan

The modules are written, and what could be proved of the kernel, the library, the server's
table and the shell is proved. What is left is to prove what TLC checks of `FsBlocks`: that
no block has two owners, from the bitmap and the pointers of live entries, without the
walk of paths; then the order of writes that `SoundAfterFailure` depends on.
