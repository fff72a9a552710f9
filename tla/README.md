# A TLA+ verification project for the Concurrent Computing OS

The repository is a small ARM operating system: a kernel (`kernel/`), the device
libraries under it (`device/`) and the user programs above it (`user/`). This
directory holds TLA+ models of its parts, TLC configurations that check them on
small instances, and TLAPS proofs of what matters most for instances of any
size. `PROJECT.json` lists components, runs, mutants, findings, hazards and
theorems, and maps every modelling definition to the lines it stands for.

## 1. Inventory

| Part | State it keeps | Operations | Interacts with |
|---|---|---|---|
| Process table, scheduler (`hilevel.c`) | `pcb[]`, `pcballoc`, `current`, `current_runtime`, the stacks on the heap | fork, exit, kill, nice, yield, exec, timer interrupt | everything: each call comes from `current` and may change it |
| Semaphores (`hilevel.c`) | `sem[]`, `pcb[].waiting`, status WAITING | sem_init, sem_post, sem_wait | takes processes out of the scheduler's rotation and puts them back |
| Pipes (`pipe.c`) | ring buffer, two cursors, `full` | reset, read, write | reached through descriptors |
| Descriptors (`hilevel.c`, `file.h`) | `pcb[].fdt`, `openft[]`, `pipes[]` | open, close, pipe, fd_swap, read, write; copied by fork, closed by exit | pipes, file system, UART |
| CWFS2 (`fs2.c`) | header block, inode, directory and data blocks; one cached block of each kind | format, load, create, find, rm, ls, read, write | disk driver; called by open, read, write, cd, ls, rm, mkdir |
| Disk driver (`disk.c`), emulator (`disk.py`) | none; the image, a request or reply half read | read block, write block, size of the disk, with retries | each other, over UART2, character by character |
| Aging scheduler (`hilevel.c`, compiled out) | `pcb[].age` | timer interrupt | replaces `schedule` |
| Programs (`user/`) | their own | philosophers, semtest, shell, console, cat, wc, P1..P5 | system calls only |
| Libraries, entry code, devices | none of interest | call stubs, register save and restore, byte I/O | |
| CWFS1, vfs (`fs.c`, `vfs._c`) | superseded, not called | | |

What is hard here. User processes interleave at every timer tick, and between a
process's two system calls any other process may have made any number of them.
The handlers themselves are atomic: interrupts are masked in SVC and IRQ mode.
PCBs, stacks, file entries and pipes are allocated, shared and reused, with
several exits that forget part of the clean-up. Processes block on semaphores
while others are killed. Files are changed by several disk writes, and the power
may fail between any two, behind three one-block caches. Several descriptors,
each with a cursor of its own, change one file. A disk request crosses a serial
line whose FIFOs fill, and the host may refuse it any number of times.

What makes each part correct: one existing process executes, PCBs and stacks
have one owner, nobody runnable is passed over (scheduler); no lost wakeup, no
unit counted twice, whoever waits stops (semaphores); FIFO order (pipes); an
entry lives as long as a descriptor refers to it (descriptors); everyone eats
(philosophers); a lookup finds what create stored, blocks are not shared, reads
return what was written (file system); a call that reports success has had its
whole effect, and no reply is taken for another's (disk).

## 2. Modules

| Module | Models | Status |
|---|---|---|
| `Process` | process table, weighted round robin | checked, proved |
| `Semaphore` (extends `Process`) | semaphores on the process table | checked, proved |
| `Philosophers` (extends `Semaphore`) | `user/philosophers.c` on that kernel | checked, proved |
| `BoundedFifo` | what a pipe promises | abstract specification |
| `Pipe` (refines `BoundedFifo`) | the ring buffer | checked, proved |
| `Files` (extends `Process`) | descriptor tables | checked, proved |
| `FileTree` | what the file system promises | abstract specification |
| `FS2` (refines `FileTree`) | the CWFS2 volume: directories, inodes, caches | checked, proved in part |
| `FileContents` | what open, read, write and close promise | abstract specification |
| `FS2Data` (extends `FS2`, refines `FileContents`) | the contents of files, and the calls on open entries | checked |
| `BlockDevice` | what the disk driver promises the file system | abstract specification |
| `Disk` (refines `BlockDevice`) | driver, serial line and disk emulator | checked, proved |
| `MC...` | small instances for TLC | |
| `ProcessProofs`, `SemaphoreProofs`, `PhilosophersProofs`, `PipeProofs`, `FilesProofs`, `FS2Proofs`, `DiskProofs` | theorems about the module of that name | |
| `LeastElement` | the induction those proofs use | proved |

State corresponds field by field: `pcb[i].status` is `status[i]`, `pcb[i].fdt[d]`
is `fdt[i][d]`, and so on. `pcballoc`, a bit mask, is the set of its one bits;
the subtraction that clears a bit is `ClearBit`, borrow included, and `MCProcess`
assumes (TLC evaluates it) that it is subtraction modulo the word. `heap` is the
set of stack areas malloc has given out. A scan of the table ("first runnable
entry after `current`") is the element of a set at the least distance `Dist`.
Every system call and every timer interrupt is one action, made by whoever is
`current`.

`FS2` keeps the volume, disk and memory together, in one record `vol`. Each
function of `fs2.c` that takes the volume is an operator from volume to volume,
and the stretches between two of its early returns are operators of their own,
which leave a volume with a failed outcome alone. A directory or a region table is
walked by the block it reaches rather than by the cursors `i` and `j`. `tree` is
an auxiliary variable: the paths that exist for a reader of `vol` who compares
whole names and looks at every entry, which is what the refinement of `FileTree`
is about. `out` is the last call with its arguments and result, so the refinement
also says that calls report what they did, and that a listing fails only where the
path does not exist or the caller's buffer is too small for its names. `log` is the list of the disk writes of the call
in progress; `CreateAtomic` replays every prefix of it on the disk before the call
and restarts from there.

`FS2Data` adds the table of open files to that volume. A transfer over several
blocks is a loop over its blocks (`read_block`, `write_bytes`), with the amount
done before each of them as a function of the block. `content` and `room` are
auxiliary: the bytes a reader of `vol` finds block by block, and the size each
file can surely grow to with the regions and blocks it has and the volume has
left. A descriptor is the slot of its entry; that descriptors and entries
correspond is the subject of `Files`.

`Disk` has one variable for each end's unfinished work (`tx`, `got`; `line`,
`ack`) and one for each direction of the line. A request is written and a reply
read one character per step; numbers are turned into hexadecimal digits, capital
by the driver and small by the emulator, and back. That a call makes the same
request up to `DISK_RETRY` times is `Retry` and `GiveUp`; `refused` is a history
variable that the abstract device counts refusals with.

Each module has several specifications over the same actions, from any program
at all to programs that keep a discipline the code relies on:

* `Process`: `Spec` is any call with any argument and any outcome of malloc;
  `OrderlySpec` leaves out a process that kills itself and a fork that finds no
  memory, and `FairOrderlySpec` adds the timer's fairness.
* `Semaphore`: in `MutexSpec` the boot program (the shell) stays and never waits,
  and quantities are 1, as in every program of the repository; `UnitsSpec` has
  any quantities; `AnyoneSpec` is any program, with ids out of range and a boot
  program that waits, exits and is killed like any other.
* `FS2`: `FirstBootSpec` begins with the start that formats a disk of zeros,
  `Spec` with the start after it, which gives the inodes the region they lack.
  Otherwise the constants choose which paths and sizes occur.
* `FS2Data`: in `DataSpec` a write ends in the block it begins in or where a block
  ends, in `AnyWriteSpec` anywhere. In both, files are created by open and never
  removed.
* `Files`: in `FilesSpec` some process keeps each end of a pipe; in `CloseSpec`
  ends may be closed for good. In both, processes are killed and opens refused;
  the history variable `lost` counts the references killed processes held.

Undefined behaviour: `pipe_read` and `pipe_write` start their counter without a
value, and `fs2_add_dir_entry` two of its cursors; the repository's build (`-O`)
starts such a register at 0, and that is modelled. The
word beyond `sem[]` that an invalid id reads goes either way (`SemWaitInvalid`).

## 3. Runs

Passing runs:

| Run | Bounds | Shows |
|---|---|---|
| `process` | 3 PCBs and stacks, priorities 0..1 | `TypeOK`, `OneExecuting`, `PidIsIndex`, `StackOwnership`, `NoOvertaking`, `RunnableRuns` |
| `semaphore` | 4 PCBs, 2 semaphores, 3-valued words | `NoLostWakeup`, `InitSets`, `OneExecuting`, `SemTypeOK` |
| `pipe` | ring of 3, writes and reads of 0..4 | `RingOK`, `ImplementsFifo`, and `StepIsLoop`: the closed forms are the loops |
| `philosophers` | 4 philosophers and a spawner | `ForksConserved`, `NotAllWaiting`, `EveryoneEats` |
| `files` | 2 PCBs, 2 descriptors, 4 entries, 1 pipe, 1 stream, `MaxLost` = 2 | `RefCounts`, `NoFreedEntry`, `EndsLinked`, `FilesTypeOK` |
| `fs2` | 3 creations over 6 paths of depth up to 2, two inodes and five entries to a block | `ImplementsTree`, `NothingReused`, `CacheSaved`, `RegionsDisjoint`, `LinkedOnce`, `CreateAtomic` |
| `fs2_data` | 2 entries over 2 files, blocks of 2 bytes, 2 regions to a file, 2 free blocks, sizes up to 5 | `ImplementsContents` |
| `disk` | 2 blocks of 2 bytes, words of 2 bytes, FIFOs of 2 characters, 3 attempts, an address off the disk | `ImplementsDevice`, `InStep`, `CallsReturn` |

Why the bounds are enough. Three PCBs give a current process and two that can
compete for a place in the rotation, with a slot that is freed and reused; four
PCBs give two waiters, a poster and the boot program. Three-valued semaphore
words overflow within a few posts. A ring of three with calls of up to four
characters wraps in every position and exceeds the capacity. Four philosophers
have neighbours and non-neighbours. Tables of two descriptors and four entries
fill up, so the refusals happen too. With two inodes to a block a third file
needs a second region, and parent and child are in different blocks or in the
same one; a third name is too long and a path ends in a slash, so refused
creations happen. In `fs2` directories stay within `UNL` entries and within one
block, names have two characters and are not prefixes of each other, and the
volume does not fill: outside these limits the code does not keep a tree (below).
In `fs2_data` writes of one and three bytes, the latter from the middle of a block
over the next one, meet files that run out of regions and a volume that runs out
of blocks, so short writes happen; readers and writers of one file overtake each
other. In `disk` every request and every reply is longer than the FIFO, so each
side waits for the other within a request; the bytes 0 and 0xAB have digits and
letters; and a request is refused fewer times than `DISK_RETRY`, as often, and
because of its address.
The theorems of section 4 do not depend on
the bounds.

Deadlock is not checked where the boot program may exit: when the last process
ends, the kernel halts by design (`halt`). It is checked in the semaphore and
philosophers runs.

Fairness. `process` assumes `WF(Tick)`: timer 1 is periodic and user mode
never masks interrupts. (A read from a UART descriptor would busy-wait in the
handler; the shell does its input in user mode.) `philosophers` assumes in
addition strong fairness of each process's steps: a philosopher that is given the
processor again and again reaches its next call, as `eat` is a finite loop and
its time slices add up. `disk` assumes weak fairness of the driver, which polls
the line in a loop, and of the emulator, an endless loop that the host runs: with
the emulator stopped the driver waits for ever, as it has no timeout.

Runs that end in a violation, each a disagreement between the code and a line of
the repository (quoted in `PROJECT.json`, "findings"):

| Run | What the code does |
|---|---|
| `semaphore_lost_wakeup` | two posts of 1 do not wake a wait for 2 |
| `files_pipe_close` | closing an end leaves the other end's descriptors on freed memory |
| `fs2_format` | files created in the session that formats the disk are gone after a restart |
| `fs2_write_tail` | the last, partial block of a write repeats the beginning of the buffer |

One more disagreement is with a comment and has no run of its own, as `FileTree`
states the code's side of it. Above `fs2_create` one reads (`fs2.c` 746-747):
"Returns true if the file already exists, or if it was successfully created. False
otherwise." The code (753-756) sets `FS2_UNEXPECTED_FILE` and returns false for a
path that exists. `FS2` has this in `check_new`, `FileTree` in `Creatable`: a
creation of a path that exists changes nothing and reports FALSE. The run `fs2`
reaches the case whenever a path is created twice, so what `ImplementsTree` shows
there is the code's contract; against the comment's it would fail at the second
creation of any path. The programs see the code's answer: mkfile and mkdir pass it
on (`hilevel.c` 838 and 842), and open asks `fs2_isftype` before it creates.

The disciplines of the passing specifications leave out further cases in which
the code does what nobody would want; the actions show them step by step. A fork
that finds no memory leaves a phantom PCB with its parent's pid (`ForkNoMem` of
`Spec`). Exit returns to its caller when all other processes wait (`Exit` of
`AnyoneSpec`). A process that kills itself goes on executing on a freed stack (`Kill(current)` of
`Spec`); if it then exits, the subtraction from `pcballoc` borrows, and clears and
sets bits of other processes (`ClearBit`). Once the boot program has exited, PCB 0 is reused and fork returns 0 to
the parent (`ForkOk`). A wait that finds nobody else to run returns without the
units (`SemWaitBlocked` through `next`). Lowering a semaphore with sem_init posts
a difference that wraps around and satisfies any waiter (`SemInit` in
`UnitsSpec`). A process terminated for a bad semaphore id may go on executing
(`SemWaitInvalid`). Pipes are never reused (`PipeFull`), a refused open keeps
its entry (`OpenRefused`), and the references of a killed process are never given
up (`lost`). In `FS2`, a name finds any entry that begins with it; a
parent directory with a one-character name in the root is taken for the root; a
file at or beyond position 32 of its directory cannot be removed (`UNL`);
`rm d/` of an empty directory removes its own "." instead; entries in the last
block of a directory are not found; the second removal from a directory of several
blocks takes the last entry from the stale general cache (`remove_entry`), so it may
put an entry just removed back and lose a newer one; and a creation reports success when the
directory or the disk had no room for its entry (`fs2_find_in_dir_r`,
`fs2_create`, `fs2_rm`, `fs2_add_dir_entry`; other values of the constants reach them).
A power failure inside a creation leaves the directories as before or after it,
but the header, written last, may still give out an inode and blocks that are in
use. Inside a removal it can leave a directory that is still linked and has lost
its block (`rm_cached` saves the cleared inode first, where parent and child are
in different blocks of inodes). After a read that failed, `cache_iblock` has the
new index with the old inodes. A path that is removed and made again under an
open entry leaves the entry's cursor beyond the end of the file, and a write there
stores its bytes in the first block of a new region. A write of no bytes gives
the file a region of no blocks.

Some of these cases passing runs do meet, with properties that allow them: refused
opens, pipes used up and references of killed processes (`files`), and creations cut
short (`fs2`). The others no passing run meets. The hazards of `PROJECT.json` name a
property for such a case only where it, or a theorem, still says something there.

Every property of a passing run has a mutant in `PROJECT.json`: a plausible bug
in one mapped definition that makes TLC report that property. The mutated forms
stand next to the definitions they mutate, named `<definition>_<bug>`.

## 4. Proofs

All constants are arbitrary within the named assumptions (`ProcessAssumption`,
`SemaphoreAssumption`, `PhilosophersAssumption`, `PipeAssumption`,
`FilesAssumption`, `FS2Assumption`, `DiskAssumption`). Three of them say more than
that a size is a size. There are at most as many philosophers as semaphores, and a PCB for each
besides the spawner's, as `philosophers.c` takes for granted. And every address,
and the number and length of the blocks, fits in a word with its sign bit clear:
the emulator reads and writes words as signed ones (`struct`, `'<l'`). And the
volume is one that `fs2_format_volume` accepts (it has room for the header, a region
of inodes and one of the root directory) on a disk it fits on, the modulus of
`fs2_unlink` is at most the number of entries in a block (32 and 128), and paths are
finite sequences.

`LeastElement`. A loop of the code is a recursive function in its model, and what
it computes is proved by looking at the first iteration that goes wrong: a set of
naturals that is not empty has a least element (`LeastOf`), hence a set that
holds 0 and is closed under successor up to n holds all of `0..n` (`UpTo`). A
recursive function meets its own equation because its finite runs exist and
agree (`LoopRuns`).

`ProcessProofs`. `TypeCorrect` is inductive by itself, for `Spec`. The other
theorems are about `OrderlySpec` and rest on `OrderlyInv`: besides types,
`PidIsIndex` and `StackOwnership` it says that the current process exists and
executes unless the kernel has halted, that all other existing processes can
run, and that a halted kernel has no process. `OneExecuting` alone is not
inductive: `next` relies on every other entry being runnable to move on after an
exit, and `context_switch` loads `pcb[i].pid`, so the uniqueness of the executing
process needs `PidIsIndex`. `RoundRobin` follows from the definition of the scan
and the lemma `DistShrinks`: the entry chosen is the first after `current`, so
whatever stays runnable gets strictly closer.

`SemaphoreProofs`. `MutexInv` adds waiters: everyone who waits waits for exactly
one unit of a semaphore that has none, and the boot program never waits, so
`next` always finds somebody. From it `MutexTypes`, `MutexNoLostWakeup`,
`MutexOneExecuting` and `MutexInitSets` follow; the last because a semaphore that
somebody waits for is 0, so the difference posted to it does not wrap.

`PhilosophersProofs`. The table runs on the kernel of `Semaphore`, and `PhilInv`
adds to `MutexInv` that philosopher p has been told the number p - 1 of its left
fork (`Seated`: the numbers pass through fork one after the other), that whoever
waits does so for the fork its program point says (`WaitsForFork`), and that
every fork that has been laid is on the table or in exactly one hand
(`OnePlace`). `EveryForkInOnePlace` is its consequence `ForksConserved`. For
`SomebodyCanEat`, which excludes deadlock, take the highest-numbered fork that
anybody waits for: it is not on the table, so somebody holds it, and a holder who
waits has its first fork and waits for the second, which is the higher one by the
test in `phil_thinker` (`ForkOrder`); so this holder does not wait.

`FilesProofs`. `CountsAreExact` is the heart: an entry's `open_count` is the number
of descriptors, over all existing processes, that refer to it, plus those that
killed processes took with them. It is inductive only together with four facts.
A descriptor finds an entry that has been set up (`Descriptors`), or a close would
count down something else; nothing in the table has been freed (`AllLive`); a free
slot is forgotten by the killed too (`NullClean`), or its next use would begin with
a wrong count; and the two ends of a pipe point at each other (`Linked`), as a
close of one end writes to the other. `Linked` in turn needs the counts: an end
is cleared only when nobody has it any more. Exit closes all descriptors of a
process in a loop in which the same entry may occur several times;
`DropAllEffect` says what the loop comes to (`Less`), by induction over the
descriptors. `FilesTypes`, `DescriptorsFindEntries` and `EndsStayLinked` follow.

`PipeProofs`. `RingWellFormed` is an inductive invariant of the cursors. For
`PipeIsFifo` the queue is `Contents`, the slots from `reader` on; the two step
lemmas show that a read drops a prefix of it and a write appends one, over the
wrap of either cursor. The actions of `Pipe` state what a whole call does in closed
form; `StepsAreLoops` shows that this is what the loops of `pipe_read` and
`pipe_write` arrive at, character by character, from every ring the pipe can be
in: by induction over the iterations, from what one round does to the closed form
(`ReadRound`, `WriteRound`).

`FS2Proofs`. `VolumeStaysSound` is the inductive invariant, from which
`RegionsNeverOverlap` and `NumbersNotReused` follow. Nothing in it keeps away from
the limits outside which the code keeps no tree: the volume may be full, the
directories large, the names anything. It has four parts.

* Owners. There is a map from blocks to regions such that every block of every region
  is below `next_block` and belongs to that region alone (`Mine`). `RegionsDisjoint`
  by itself says nothing of an inode's second version: an inode may differ on the
  disk and in the cache, and the one not in use now comes back with the next load
  or save. So both versions own their blocks (`DiskOwn`, `ICOK`), which allows a
  version to have fewer regions than the map gives to its inode: a creation that
  is cut off, or a removal that clears regions, loses blocks but shares none.
* Places. Every inode below `next_inode` has a block in the inode table
  (`HasTable`), different inodes have different places, the cached block of inodes
  goes back to where it came from, and every entry of a directory, in the cache or on the
  disk, names an inode below `next_inode` (`IsDBlock`), so a lookup never leads to an
  inode without a place.
* Inside a creation the new inode is in the cache before it is on the disk
  (`Pending`): `VInv` has a number for each, and they are equal between calls. A
  creation that gets no block for its inode leaves an index in the cache with
  address 0, and a save would then overwrite the header. It does not happen, as every
  call that saves the cache has walked a path before, which loads a block that
  exists (`Warm`).
* The header on the disk is the one in memory, or the one the first dump started from,
  which takes a region for the root's block in memory only (`HdrSaved`,
  `DumpFresh`). That is why no number goes back at a restart.

The loops of `fs2.c` and of the dump are recursive functions; each is one case of
`Round`, so that what a loop keeps is proved from what one round keeps
(`RoundsExist`, `RoundsAre`, `UpTo`). The first two starts, from a disk of zeros, are
computed rather than assumed (`FormatDone`, `SecondStart`).

`DiskProofs`. First the texts: hexadecimal digits written by either side are read
back as the same number by the other (the driver's capital ones by Python's
parser, the emulator's small ones by `xtoi`), words survive `struct`, and a
request splits into the fields it was made of. Then `DiskInv` follows a call along
the line. Either what the emulator has read, what is on the line and what the
driver has still to put make up the request (`Asking`); or what the driver has got,
what is on the line and what the emulator has still to send make up a reply that
has exactly the length the driver will find it to have, and whose result is true of
the image (`Answered`). Nothing is anywhere between two calls, which is
`NothingBetweenCalls`: no character of one reply is left to be taken for the next,
whatever was refused and tried again. `DiskIsBlockDevice` is the refinement of
`BlockDevice`: a call that returns success has had its whole effect, and one that
returns a failure was refused `DISK_RETRY` times.

Only model-checked:

* Liveness (`RunnableRuns`, `EveryoneEats`, `CallsReturn`): fairness and ENABLED
  are beyond the prover.
* Of `FS2`: `ImplementsTree`, `CacheSaved`, `LinkedOnce`, `CreateAtomic`; of
  `FS2Data`: `ImplementsContents`. They hold within the limits listed in section 3
  (directories within `UNL` entries and one block, names that are no prefixes of each
  other, a volume that does not fill), and the configurations choose values within
  them. Outside, the code breaks them: the removal of a file at position `UNL` of its
  directory clears its inode in the cache, does not find the entry and returns without
  saving, against `CacheSaved`; a directory of several blocks may get a
  removed entry back, against `ImplementsTree`. With the code's own constants
  (`UNL` 32, `DPB` 128) a theorem would need hypotheses on the histories of
  directories, not on the constants.

## 5. Not modelled

Register contexts and exec (they change no table), what processes print, the
superseded CWFS1 and vfs, the registers of timer, interrupt controller and other
devices, call stubs and number formatting. The aging scheduler is compiled out
(`SCHEDULE_AGES` is false); `next` does not reset the age of the process it
chooses, so ages have no bound. Of `Files`: reads and writes of the UART, which
are I/O, and malloc failures inside `do_pipe`; reads and writes of pipes and files
are in `Pipe` and `FS2Data`. Of `FS2`: permissions (the code's tests of them are
constant), working directories (a string put in front of a path), and requests
that fail for an address on the disk. Of `Disk`: a line that loses characters (it
is a local socket), and addresses that are negative as a signed word, on which
the emulator ends.

## 6. Plan

1. The limits within which the file system keeps a tree as a specification of its own
   (a `Spec` whose creations stop at `UNL` entries and while blocks are left), and
   `CacheSaved`, then `LinkedOnce`, as theorems about it; `VolumeStaysSound` gives
   the places and owners they need.
2. The same invariant for `FS2Data`, whose writes take regions of files.
3. `FS2` with failing requests, and with several processes' working directories.
