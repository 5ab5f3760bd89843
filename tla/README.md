# A TLA+ model of the rum kernel

rum is a small 32-bit x86 kernel with preemptive user processes, console
sessions, a FAT16 file system on an ATA disk, and a recovery shell.  This
directory holds TLA+ modules that model its parts, TLC configurations that check
them on small instances, and proofs that TLAPS checks for every instance.

    tlc -config MCConsole.cfg MCConsole      # and the other .cfg files below
    tlapm ConsoleProofs.tla

`PROJECT.json` lists the components, the runs, the line ranges each definition
translates, the mutations of the code each property is known to notice, the
hazards, and the theorems.

## The system

| Part | Code | State | Operations | Interacts with |
| --- | --- | --- | --- | --- |
| Console sessions | `kernel/process/session.c` | a pool of sessions (root, owner, members, counts), a member record per process, the active session | attach, grant, cancel, request exit, member exit, detach | called by tasks with interrupts off |
| Tasks | `kernel/process/task.c` | a table of slots with state, parent, wait, deadline; the current task and its slice | create, schedule, wait, signal, terminate, reap, tick | everything |
| Launching | `process.c`, `elf.c` | a process under construction | load, publish, mark, wait, collect | tasks, files, paging |
| System calls | `syscall.c`, `handles.c` | a handle table per process | run, spawn, wait, terminate, read, sleep, files | tasks, files, keyboard |
| Supervisor | `kernel/core/init.c` | restart count | start the shell, restart it, fall back to recovery | tasks, keyboard |
| Timer, interrupts | `hal/pc/*.c`, `arch/i386/interrupts.s` | the tick counter, masks | tick, dispatch, return to user mode | tasks |
| Keyboard | `drivers/input/*.c` | decoder, ring of 128 characters | interrupt, read, discard | console, tasks |
| File system | `kernel/fs/*.c` | mount, retained objects, references; FAT cache, pins | open, close, read, write, replace, mkdir, remove, chdir | block layer, heap |
| Storage | `kernel/io/block.c`, `drivers/storage/ata.c` | busy, online | read, write, flush | file system |
| Memory | `kernel/mm/*.c`, `arch/i386/paging.c` | page bitmaps, heap block list, address spaces, stacks | allocate, free, map, unmap | tasks, loader |
| Recovery shell, Snake | `kernel/recovery/*.c` | a line, a game | receive, tick | boot task |

What makes it hard: interrupt handlers run between any two steps of the kernel
code that has interrupts enabled; Ctrl+C may cancel a process anywhere in a
launch, a wait or a read; the console changes hands between processes that may
exit in any order, through counted pointers into records that are reused; a
failed consistency check stops the machine; the disk may lose power between any
two writes.

## Modules

### Console

`Console.tla` models `session.c` completely.  A `Member` is the console part of a
process record and a `Session` an entry of the static pool; null pointers are
`NoMember` and `NoSession`.  All functions run with interrupts disabled, so each
is one action.  `Attach` contains `console_mark_shell`, which the kernel calls
in the same critical section.  `MemberExit(m, D)` contains the cancellation of
the descendants `D` that `terminate_current` does just before it.  The walk of
`previous()` along the `restore` links is `Chain`, a function from positions, and
`Previous`, the first usable launcher on it.

The counts in the code are counters that are incremented and decremented.
They are variables here too, changed where the code changes them, so that
`ReferencesExact` really compares two things: the counter and the pointers.

### Tasks

`Tasks.tla` extends `Console` with `task.c` and what drives it: `process.c`, the
process system calls, the supervisor and the recovery loop of `init.c`, the timer
and the keyboard interrupt.  Slot 0 is boot, slot 1 idle, the rest are the
`Member`s.  `pc[t]` says where a task continues; the labels are the points of the
code at which interrupts are enabled, plus `user` for user mode and `uret` for the
return path with interrupts disabled.

| Label | Code |
| --- | --- |
| `supervise`, `recover`, `rest` | `userspace_session`, `recovery_session`, its wait |
| `construct`, `mark` | `start_process` after its first check, `task_mark_shell_command` |
| `look`, `scan`, `wait`, `collect` | the loop of `task_wait_child` (observing the event, looking at the children), its wait, `task_collect_child` |
| `read`, `take`, `rwait` | the loop of `stream_read` (observing the event, draining the queue), its wait |
| `snake`, `swait` | the game loop of `console_action`, its wait |
| `sleep` | `task_sleep` |
| `closing` | `terminate_current`, while the handles are closed |
| `sysret`, `uret` | the end of `syscall_dispatch`, `task_on_user_return` |

`schedule()` is in two parts.  The step that gives the CPU up ends with the switch
(`switched`), and the resumed task's first step, `Resume`, reaps the records that
nobody will collect; interrupts are disabled in between.

What is abstracted:

* Ids are slots.  An id in the code is never reused, and `ParentPresent` shows
  that a slot is not reused while a parent link names it, so both identify the
  same process.
* Event sequence numbers.  `event[t]` is the event whose current sequence `t` has
  observed; a signal resets it.  Blocking with `event[t] = "none"` is exactly the
  comparison that fails in `wait_common`.
* A deadline is the number of ticks left.  A sleep other than 0 lasts at least two
  ticks (`timer_duration_ticks` adds one), so `MaxSleep` is at least 2.
* Observing an event and looking at what it announces are separate steps in a
  read and in a wait for a child.  A turn of the game loop is one step, followed by
  the wait; an interrupt may come between the two.
* The game is the flag `game` (`snake_active`).  A turn that reads characters may
  end it; the board is left out.
* A new session takes the first free entry of the pool, as `available()` does;
  `Console` leaves the choice open.
* The keyboard queue is its length.  A read takes any positive number of
  characters.
* Loading a program is one step that fails or succeeds.
* A program may make any call at any time; `Calls` limits the calls in a run.
* The three-failure window of the supervisor is a free choice, so both outcomes
  are explored after every exit of the shell.

### Block, Store and Fat16

`Block.tla` is one disk behind `block.c` and `ata.c`.  `disk` is what a read
returns and `media[a]` the set of contents sector `a` may have after a power
loss.  A write adds to that set, a failed write may have happened, and only a
successful flush settles it.  An error that the drive reports leaves it in use.  A
timeout or a fault takes it offline until the next boot, and a write that timed out
stays in `late`: the drive may still carry it out at any time (`LateWrite`).

`Fat16.tla` extends it with the write path, mount and audit of the FAT16 backend.
A call checks its arguments and prepares a script, the sequence of sector writes
and flushes the code issues (`op.script`); each request is an action that may fail,
and the power may fail between any two:

| Actions | Code |
| --- | --- |
| `WriteFile`, `Replace`, `Truncate`, `Mkdir`, `RemoveNode`, `FlushVolume` | the checks and planning before the first request |
| `Rewrite`, `PersistFat`, `Publish`, `ZeroCluster` | the order of the requests: new chain, both FAT copies with a flush after each, entry, flush, freeing |
| `PutSector`, `CopyContents`, `WriteEntry` | `write_sector` for FAT or zeroed storage, for file contents, and for a directory entry |
| `FlushDevice`, `PublishFat`, `Commit`, `Return` | `flush_device`, replacing the cached FAT, `*committed`, the successful return |
| `Mount`, `MountFails`, `Unmount` | `mount_volume`, `fat16_unmount` |
| `Retain`, `Release`, `Browse` | the pins of open objects, and lookups and file reads as far as they move the cached sector |
| `LateCompletion` | none: the drive completes a write that timed out |

`Store.tla` is the abstract specification: a tree of files and directories in
which a change happens at once or not at all, and `pending`, the trees a power
loss may leave.  The refinement mapping is carried by two history variables:
`tree` is the tree that `disk` describes and `trees` those that its `Outcomes`
describe; each action that changes the disk recomputes them.  A tree is read by the
first FAT copy unless only the second one is intact.  `expected` and `clean` are
history variables too: the tree the call in progress is to leave, and whether no
call has faulted the volume and the power has stayed on.

What is abstracted:

* A cluster and the root directory are one sector each; a FAT copy has several.
* A sector is written whole or not at all, and the drive honours a flush it
  reports as successful.  `docs/fat16.md` assumes the second too, and says that a
  torn sector can damage a volume; that damage is outside this model.
* Names, attributes and the boot sector's fields are reduced to what decides
  control: kind, read-only, long-name prefix, volume label, dot entries, deleted
  and end markers.  The audit's refusals of reserved attribute bits and of a high
  cluster word are left out.
* `FAT16_WRITE_ENTRY_LIMIT`, the busy flags and host repair are not modelled.
* A flush of a read-only mount and a truncate to the present size succeed
  without a request, so `SuccessIsDurable` claims nothing for them.

## Runs

| Run | Configuration | What it shows |
| --- | --- | --- |
| console | `MCConsole.cfg`: 4 members, 4 sessions | `session.c` under every order of its calls |
| lifecycle | `MCTasks.cfg`: 4 process slots, 4 sessions, launching, waiting, terminating, session exit | the process tree and the console together, with Ctrl+C anywhere |
| input | `MCTasksInput.cfg`: 3 process slots, slice 2, queue 2, sleeps of 2 and 3 ticks, all calls | waits and interrupts |
| liveness | `MCTasksLive.cfg`: 3 process slots, run, spawn, wait, terminate, read, Snake, sleep | what must happen eventually |
| volume | `MCFat16.cfg`: 6 clusters, six volumes, one mutation, one pin | each mutation, with a failure or power loss at every request |
| volume_sequence | `MCFat16Seq.cfg`: one volume, two mutations | a mutation after an earlier one succeeded, failed or was cut short |

**console.**  `ConsoleInv` is the inductive invariant described below.
`ReferencesExact` and `SessionReferencesExact` compare the counters with the
pointers.  `ExitedIsDetachable`: the reaper never meets a record it cannot
release.  `ClosedIsInert` and `CommandOfShell`: a closed session has no authority,
and a command's authority over its shell does not outlive the shell.
`PoolSuffices`: a free process record never meets an exhausted pool.  `ChainsEnd`
and `NeverStranded`: the way back from the owner ends, and the active session has
an owner unless its root is cancelled.  `OwnerMoves`: within a session the keyboard
changes hands only by a launch, to the child, or by an exit, to the first usable
launcher behind the owner, or to nobody when the session closes; the process that
exits is the owner or, when the owner is cancelled, one on its way back.

**lifecycle.**  `NeverHalts` collects the checks whose failure stops the machine.
`ParentPresent`, `OrphansReapedPromptly`, `ShellNeverCancelled`, `LauncherWaits`,
`PromptHasSlot` and `SupervisorCanRestart` are stated at the end of `Tasks.tla`.
`ConsoleSpec` as a property says that the tasks use the console only in ways that
its own specification allows, so what is proved of `ConsoleSpec` holds here.

**input.**  `NoLostWakeup` is the central one: a blocked task's condition is false.
`GameHasPlayer`: however a player leaves, by a key, by Ctrl+C or with its session, it
ends the one game, so that the next can start.
`CancelledStaysInKernel`, and the type invariant `TasksTypeOK`, which also relates
the task states to the console's `live` flags.

**liveness.**  `ReadyRuns`, `CancelledExits`, `OrphansFreed`, `SleepersWake`.

**volume, volume_sequence.**  `CacheCoherent`: the one cached sector is what the
disk holds.  `VolumeSound`: on every disk a power loss may leave, one of the two FAT
copies describes a sound volume, so a volume that mounts (its copies agree) is
sound.  It includes what a write that timed out does later, and holds only because
the driver sends nothing after it: with a drive that stays in use, the late write
can land in a cluster that a second call has given to something else.
`AuditStaysTrue`: the tree is audited once a mount, before the first mutation, and
the verdict stays true until a call faults the volume.  `SuccessIsDurable`: what a
call reported as done survives power loss, as read by the rule above (the first FAT
copy unless only the second is intact).  Where the copies differ the kernel does not
mount the volume until a host tool has repaired it.  `NoLeakWhenClean`: as long as nothing failed, exactly the
clusters with an owner are allocated.  `PinnedKeepsName`: no step renames or
deletes the entry of an object that stays open.  `Refinement`: the volume
implements `Store`; at each request the tree changes as a whole or not at all.

Bounds of the volume.  The six volumes are: a file and a directory without a free
slot, so that it must grow; stale bytes behind the end marker, and a bad cluster; a
read-only file with a long name beside a reusable slot; two files that share a
cluster, which the audit must refuse; a volume label, which it accepts; and a dot
entry in the root, which it refuses.  A FAT sector holds 4 entries, so the 6
clusters need two FAT sectors and one change may touch both; a data sector holds 2
bytes, so the sizes 0, 1 and 3 are no cluster, a part of one and more than one.
Two calls in a row are the shortest sequence that reuses clusters an earlier call
freed or lost; that run has no pins and therefore no writes through open files.  No
fairness is assumed and no liveness is claimed: the power may fail in every state.

Bounds of the other runs.  Four records are the smallest number with a shell, its command, the
command's child and an independent background job, and with a session that is
being cleaned up while the next one starts.  Three are enough for the properties
of waits: a parent, a child and a bystander.  A slice of 2 and a queue of 2
contain the used-up and the full case and the case in between.  Sleeps of 2 and 3
ticks let two sleepers expire together, in either order, and across a slice.  In the
console run sessions are interchangeable and form a symmetry set.  In `Tasks`
neither they nor the member slots are (the allocators and the scheduler order them).

Fairness.  `WF_vars(Kernel)`: the CPU executes the current task's kernel code.
`SF_vars(Tick)`: the timer interrupts periodically, and a pending interrupt is
taken when interrupts are enabled; it is strong because kernel code enables and
disables interrupts all the time.  `SF_vars(Rests)`: the recovery loop and the game
loop wait for an event that every tick signals, so a tick between observing it and
going to sleep sends them round again.  A turn without a key takes far less than the
10 ms of a tick (one that saves the best score may take longer), so not every
attempt is forestalled.  This is an assumption about execution
time, which no code enforces: a loop that a tick hit in every single turn would
never sleep.  Nothing is assumed of programs, which may loop
for ever, nor of the keyboard.

Deadlock is checked in the Tasks runs: somebody can always take a step.

## Proofs

`ConsoleProofs.tla` proves, for every finite set of members and every pool with at
least as many sessions, `ConsoleSpec => []ConsoleInv` and its consequences
`ReferencesExact`, `ExitedIsDetachable` and `PoolSuffices`.

Assumptions: the sets are finite, the null pointers are not in them
(`MemberAssumption`, `SessionAssumption`), and the pool has a session per record
(`session.c:5-6`).

The inductive invariant is `ConsoleInv /\ Ranked`.  Exact reference counts alone
are not inductive: when a member exits, `LeaveSession` lowers the count of what it
returned to, and that needs the links to lead to attached members of the same
session (`NoDanglingPointer`, `MembershipMutual`).  `Ranked` says that the
`restore` links are well-founded: some rank decreases along them.  It excludes the
cycles that would make a launcher its own successor.  The counting lemmas at the
start of the module say how the number of pointers to a record changes when one
entry of a function changes.

Only model-checked: `OwnerMoves`, `ChainsEnd`, `NeverStranded`, everything about
`Tasks` and `Fat16`, and all liveness, which is out of reach of the prover.

## Plan

1. `Tasks`: prove `CancelledStaysInKernel`, `ParentPresent` and the refinement of
   `Console`; add kernel workers and the restart window.
2. `Timer` (wrap of the tick counter, conversion of durations) and `Keyboard`
   (ring and decoder) as small modules with reference definitions.
3. `Block`: two callers and the busy flag; prove the safety of the `Fat16` write
   order, starting with `CacheCoherent` and `PinnedKeepsName`.
4. `Fs` (objects, references, working directories) and `Handles`.
5. `Pmm`, `Heap` (exact tiling), `Paging` (every frame has one owner, rollback).
6. `Path`, `Snake`, `Pic` as far as they have something to say.

## Not modelled

Descriptor tables, register contents and the assembly of the context switch;
text output, serial line and diagnostics; the ELF validator; user programs, which
`Tasks` replaces by arbitrary behaviour; build scripts.  The remaining parts are in
the plan above and in `PROJECT.json` with their reasons.
