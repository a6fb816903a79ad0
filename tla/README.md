# Verification of the LRT2x4 router firmware

TLA+ models of the firmware's own concurrent code, the TLC runs that check them
on small instances and the TLAPS proofs that hold for every instance. The
repository is a GPL release: most of its 26 000 files are the Linux kernel and
third-party packages. What is modelled is the vendor's own logic that many
processes, many cores, or software and hardware share.

Paths below are relative to `src/`; `P/` stands for
`linux/embedded_rootfs/pkg_addon/` and `S/` for
`P/vendor/web_ui_Data/Model_sbin/RV0XX_CRAMFS/`.

## 1. Inventory

| Part | Source | State it keeps | Operations | Talks to |
|---|---|---|---|---|
| Configuration database | `P/nku/kd_sys.c` | lock file `/tmp/test.txt`, scratch file `/tmp/stemp`, `/tmp/splitDB/<category>`, `/tmp/category_list` | `nk_sysconfig` with -w -m -n -d -p -a (-t, -b) | every daemon links it; files are the only shared state |
| Batch update, splitDB | `P/nku/kd_sys.c` | `/tmp/kd_batch`, `/tmp/kd_batch_backup`, the image `/tmp/nk_sysconfig` | `kd_batch`, `kdBatchUpdateDB`, `Batch_config`, `BatchGet_config_m`, `splitDB` | the database's lock file and category files |
| Saving to flash | `P/nku/flash.c` | `/tmp/new_one`, `/tmp/nk_sysconfig`, `/etc/flash/etc/nk_sysconfig[.temp]` | `kd_updateFlash`, `MergeToRAM` | reads the database files, uses its lock file, `system("cp; mv")` |
| Boot, mirror, factory reset | `S/rc`, `S/configd.sh`, `P/nku/flash.c` | `/etc/flash/etc`, `/etc/flash/mirror`, use_mirror_flag | the start of rc, the loop of configd.sh, `kd_eraseFlash` | the flash, across power losses |
| Command entry | `P/nku/util.c` | none | `kd_doCommand` | calls `nk_sysconfig`, sends a datagram to webBoot |
| Network service detection | `P/nsd/nsd.c`, `check_io.c` | test, attempts, NSDOK, the counters of the last check | the loop of `main`, `is_interface_busy` | database, webBoot (UDP), nk_ipsecd (FIFO) |
| Recursive spinlock | `executive/cvmx-spinlock.h` | `value`, `core_num` | `rec_init`, `rec_lock`, `rec_unlock` | cores through memory |
| Reader/writer lock | `executive/cvmx-rwlock.h` | `lock`, `write_req`, `write_comp` | read/write lock and unlock | cores through memory |
| Barrier | `executive/cvmx-coremask.c` | table of `coremask`, `checkin`, `exit` | `cvmx_coremask_barrier_sync` | cores through memory |
| Application start | `executive/cvmx-app-init-linux.c` | `core_mask`, `pending_fork`, `mask_lock` | `main` up to `appmain` | fork, affinity, the barrier |
| Boot memory | `executive/cvmx-bootmem.c`, `cvmx-bootmem-shared.c` | free list inside the free memory, named blocks | alloc by range, address and name; free, find, available_mem | cores through memory |
| Zones | `executive/cvmx-zone.c` | free list inside the elements, `lock` | create, alloc, free | cores through memory |
| Timer wheel | `executive/cvmx-tim.h`, `.c` | buckets, chunks | setup, start, stop, add, delete, shutdown | timer hardware, FPA pool |
| Packet output | `executive/cvmx-pko.h`, `.c` | command buffers, address and index in a FAU register | configure, send, shutdown | packet output hardware, FPA pool, tag unit |
| Event log | `executive/cvmx-log.c` | ring of buffers | | not modelled |
| Everything else | kernel, packages, drivers, `.o` files | | | not modelled, see section 8 |

What is hard about them:

* the database is shared by unrelated processes with no server: an `O_EXCL`
  lock file, one scratch file for all edits, and `rename` decide everything,
  while scripts send SIGTERM and SIGKILL to those processes; `nk_sysconfig`
  ignores SIGTERM, batch, split and merge do not, and nobody can ignore SIGKILL;
* saving takes that lock and gives it back at the wrong moments, and any daemon
  may save while another does;
* power can be lost between any two file operations of a save, a boot or the
  making of a mirror, and the next boot decides from what it finds;
* nsd is killed and restarted at any time, its notices can be lost, and the shell
  it started for one outlives it;
* the executive's locks are lock-free code with wrapping counters and several
  separate memory accesses, and its allocators keep their lists inside the memory
  they hand out;
* the timer and output units read what software writes with no lock between
  them, only agreements about time or about a doorbell.

What makes each part correct is stated with its module's properties (section 4
names them); PROJECT.json's `hazards` name the lines where each could go wrong.

## 2. Modules

```
DbFile --- SysConfig --- FlashDB --- MCFlashDB        ConfigStore  <- SysConfig
               |  \----- BatchDB --- MCBatchDB
               |-- MCSysConfig
SysConfig_proofs: SysConfig, BatchDB, FlashDB
BootFlash --- BootFlash_proofs
Nsd --- MCNsd, Nsd_proofs            NsdLoad, proved in Nsd_proofs
CvmxBarrier --- AppStart --- MCAppStart, AppStart_proofs
CvmxRwlock --- CvmxLocks --- CvmxRwlock_proofs        WriterPreference <- CvmxRwlock
CvmxRecSpinlock, an instance in CvmxLocks
CvmxBootmem --- MCBootmem, CvmxBootmem_proofs         MemoryPool   <- CvmxBootmem
CvmxZone, proved in CvmxBootmem_proofs                ElementPool  <- CvmxZone
CvmxTim --- MCTim, CvmxTim_proofs
CvmxPko --- CvmxPko_proofs                            PacketFifo   <- CvmxPko
```

A line is EXTENDS; a component "proved in" another's module is an instance there;
`A <- M` is an abstract specification that `M` instantiates
and is shown to implement. `FlashDB` and `BatchDB` run the save and the batch
routines beside the commands of `SysConfig`; `AppStart` runs the start of an
application in front of the barrier it uses. Operators whose name ends in a word
after an underscore and whose comment starts with "faulty:" are wrong variants
of the definition that follows them. They are used to see that a property
notices the mistake and are not part of any specification.

## 3. How the modules correspond to the code

### DbFile, SysConfig, ConfigStore

A file is a sequence of lines; a line is a header or an entry. `DbFile` has the
searches (`find_category`, `find_item` called n times, `find_last_item`,
`move_to_item` with `find_postion`) and what each edit leaves in `/tmp/stemp`.
Character-level scanning and the doubled square brackets are abstracted; empty
lines are not, because they matter: `remove_item` of the last line writes its
newline once more, and `find_postion` then reads the next entry as `"\nitem"` and
does not find it, while `find_item`, which reads words, does. `gap` of a line says
that empty lines follow it; other copies drop them (`Closed`, `Tight`). A list
category stands for those that both `nk_set_configuration` and
`nk_delete_setting` treat as ID lists (STATIC_ROUTE, PORT_FORWARDING, ...); the
other pairs that add instead of replace (DNS, RANGE, IPS, RS, MAC) take the same
path with another item name. A quirk that is kept: built without
`CONFIG_NK_USE_ORIGINAL_DB`, `find_item` does not stop at the next header, while
`move_to_item` does.

`SysConfig` splits a command where another process can get in between:

| Action | Code |
|---|---|
| `Start` | `kd_doCommand` enters `nk_sysconfig`, signals 1..18 ignored |
| `Acquire`, `Unlock` | `open(O_CREAT\|O_EXCL)` succeeds; `unlink`, handlers restored |
| `PrintSetting`, `PrintNoFlag` | `nk_print_setting` under -p and, without the lock, -a |
| `EditNoFile`, `EditNothing` | the early returns and the paths that rename although nothing was written |
| `EditOpen`, `EditClose`, `Rename` | `fopen(stemp, "w+")`, `fclose`, `rename` |
| `NewCategory`, `AppendCategory`, `AppendList` | `nk_new_setting` for a new category |
| `Terminate`, `Sigkill`, `Respawn` | SIGTERM of a process that does not ignore it, SIGKILL (`killall -9 dnsmasq`) of one inside `nk_sysconfig`, and the restart |

A stream follows the file and not its name: `fd[p]` is moved by `Rename`, and
`fclose` writes over the start of whatever the stream refers to (`Overlay`).
This is what lets `FlashDB` show what happens once the lock no longer protects.

`left` is a history variable: where a process was killed with the lock file in
place. Nobody gets in after that, so what is said of the files goes on holding.

`ConfigStore` is what users rely on: each command acts at one instant on its
category as it is then, with the effect its routine has when nobody else runs
(`CommandEffect`, `CommandAnswer`), or, if its process is killed, with that effect
or none. It says nothing of what the effect should be: the empty lines make
deletes miss entries, whoever runs alone too.

### FlashDB

`kd_updateFlash`: optional time stamp (a command of `SysConfig`), then
`MergeToRAM` — acquire, release at once, open `/tmp/new_one`, read the
categories one by one, append the checksum, `rename`, unlink the lock file
again — then `cp` in two steps and `mv`. Any process of `Savers` may call it at
any time (`BeginSave`); `overlapped` is a history variable: a save began before
another was over. `MergeFail` is any of its `fopen`s failing. `Kill` ends a
process at any step and leaves its files and lock; the shell of
`system("cp ...; mv ...")` goes on without it. The checksum is a marker line at
the end of a complete image; its value is abstracted.

### BatchDB

`Collect` is `kd_batch` appending a line; `BatchUpdate` to `BatchRemove` are
`kdBatchUpdateDB`: wait for the lock, open `/tmp/kd_batch_backup`, write the
header, the batch and the category's other lines, unlink the lock file, and only
then rename and remove. Any number of processes may do so at once: they share
`/tmp/kd_batch` and `/tmp/kd_batch_backup`, and `bfd` says which file the stream
of each refers to after the other's rename. `Batch_config` is what is written;
`BatchGet*` is `BatchGet_config_m`. `Split*` is `splitDB`, which cuts the image
into one file per section and writes `/tmp/category_list` last; its trailer is
the checksum line. `Killed` ends a process wherever it is, `BatchCrash` and
`BatchGetCrash` are `fclose(NULL)` after a failing `fopen`, `SplitFail` and
`SplitStop` are splitDB's early returns, the first of which keeps the lock file.
Two history variables: `orphaned`, the lock file was left behind, and `late`,
somebody took the lock file between a batch's unlink of it and its rename.

### BootFlash

The startup configuration is a directory with `nk_sysconfig` and two files of
EasyAccess. The `Choose*` actions are the four ways rc can go (startup, recover
half-moved files, adopt the mirror, factory); `MoveFile`, `Factory*` and
`Recovered`/`Adopted` are its file operations one by one. `Save` to `CopyConfs`
are `kd_updateFlash` (the merge is one step here, FlashDB has the rest);
`Look`, `TarOpen`, `TarWrite`, `TarMove` are configd.sh; `Erase*` is
`kd_eraseFlash`. `PowerLoss` may come between any two. A configuration is the
number of its save and the number of the save whose CONFIG_TIME_STAMP it has:
daemons save without changing the stamp, which matters to configd.sh. An
`mv` within one file system is one step; files half written are `Part`.
`CopyShort` is a full flash and belongs to `FullSpec` only.

### Nsd, NsdLoad

One action for each path of the loop; `up` is the set of tests that would
succeed now and may change at any step. `conf` holds what `main` reads at its
start; whether the port is the 6to4 port is read at each failure and so chosen
there. webBoot's socket buffer has room for `MaxInbox` datagrams and drops the
rest. `tried` and `unsaid` are history variables: the attempts of this round,
and whom the last change of NSDOK has not reached. A kill while nsd waits for its
`echo` leaves that shell in its open of the FIFO; it writes whenever nk_ipsecd next
reads (`LeftShellWrites`), and `teller` says who wrote last. At most `MaxShells` of
each text wait at a time. NSDOK is taken to be 0 or 1 and RETRYCOUNT not
negative. The 3G branches (`CONFIG_NK_SUPPORT_USB_3G`) are not compiled in this
build. `NsdLoad` is `is_interface_busy`: 64-bit counters,
kept in 32 bits, multiplied and divided in the widths of the C expressions, with
a clock that can be set back.

### CvmxRecSpinlock, CvmxRwlock, CvmxLocks, CvmxBarrier, AppStart

One access to shared memory per step, an `ll`/`sc` pair or an atomic add being
one step. Sequential consistency is assumed: the `sync` instructions are taken
to do their work. In `read_lock` the two volatile loads of the comparison are
separate steps, left operand first. `Invalid` stands for the numbers
`core + 0x80`. `cvmx_spinlock_rec_init` does not write `core_num`, so that it
starts with any core's number or none; `leftover` remembers it until the first
store and `slipped` that it has let its core in beside the holder. `CvmxLocks`
puts both locks on the same cores; a behaviour uses one of them. The barrier's spinlock is one Boolean.

`AppStart` is `main`: the parent counts the CPUs of its affinity mask, forks for
all but the last, each process sets its affinity, enters itself in `core_mask`
under `mask_lock`, counts `pending_fork` down, spins until it is zero and calls
the barrier with the mask it then reads. A failing `fork` or
`sched_setaffinity` exits. The application's own barriers follow.

### CvmxBootmem, MemoryPool

`next` and `size` are the two words at the start of each free block; users
overwrite them (`Junk`). Each iteration of a walk is a step, so the walk of
`octeon_phy_mem_list_available_mem`, which takes no lock, can be overtaken
(`SumLost`). Addresses are computed modulo `Word`. `ents` and `owned` are history
variables: the free blocks and those handed out; `cuts` are the free blocks that
begin where a call cut an entry above its maximum and then took nothing
(section 4). The code takes `address_max` as exclusive, its comment (line 93)
says inclusive; the model follows the code. `MemoryPool` lets one whole block pass
between the pool and its users in each step.

### CvmxZone, ElementPool

Both creators thread the list through the elements and leave `lock` as the memory
had it (`StaleLocks`). `list` is a history variable. `ElementPool` moves one
element from the zone to one core or back per step.

### CvmxTim

The hardware is modelled from how the code uses it: it visits a bucket per
period, makes work of its entries, clears `num_entries` and frees the chunks.
Software reads the clock in one step and writes the bucket in a later one, at
most `MaxDelay` cycles apart (`DelayAssumption`: a bucket less than two ticks, the
two buckets that the code leaves for it). Time is relative so that the wheel turns
for ever. One software thread per ring, as the header requires. `wrapped` is a
history variable: a time was accepted whose bucket is a whole turn ahead
(`Wraps`), which the check at cvmx-tim.h:210 lets pass.

### CvmxPko, PacketFifo

One queue with `use_locking` 1. `Prepare` switches the tag, `Reserve` is the
fetch-and-add once the tag is there, `WriteCommand`, `AllocAhead`, `NewBuffer` and
`NoBuffer` are the cases of `cvmx_pko_send_packet_finish`, then the doorbell and
the end of the tag. `Transmit` is the hardware: it reads two words, follows the
pointer at the end of a buffer and frees the buffer it left. `Shutdown` comes when
the cores have stopped sending, which is the application's part; it waits for
nothing, frees the buffer in the FAU register and leaves the register as it is.
`lost` are the buffers of commands that were still queued, `doubled` says that a
repeated shutdown freed the same buffer again. That disabling the queue forgets
what was rung is assumed of the hardware.

## 4. Runs

| Run | Instance | Distinct states | Shows |
|---|---|---|---|
| sysconfig | 2 processes, 2 categories, 10 commands, files of up to 3 lines + 1 edit, both signals | 334 436 | exclusion, one owner of the scratch file, rename installs one's own edit, files intact, merge + split loses nothing, every command linearizable, lock always given back or left by a SIGKILL |
| merge_steal | 3 processes, nobody killed | violation | the first finding |
| flash | 2 processes that save, nobody killed | violation | the second finding |
| batch | 2 processes with batches and commands, 1 of them imports; kills, failing opens | 2 710 017 | `LockDiscipline`, `FilesKept`, `SplitComplete` |
| nsd | 5 settings, buffer of 2, 1 shell of each text left behind | 937 040 | who has heard of what, fail needs all attempts, detection |
| boot | 2 saves, 2 looks before a mirror, power lost anywhere | 170 923 | `BootsSaved`, `MirrorWhole`, `MirrorFollows` |
| barrier | 3 CPUs, failing forks and affinity calls, 3 overlapping masks, table of 2, exit modulo 2, 3 rounds | 11 004 | no early exit, exit value never missed, `StartSound` (same mask, all or none, pending exact, one entry per mask), opens, all start |
| locks | 3 cores; rwlock: counters modulo 3; spinlock: depth 2, `core_num` with any number at first | 117 685 | both locks' exclusion, a reader bars writers, refinement of `WriterPreference`, who starves, level counting, re-entry never blocks, `RecLeftoverShortLived` |
| rwlock_wait | 2 cores | violation | the third finding |
| bootmem | 2 cores, 13 requests, 2 pieces of memory with 6 headers, 2 descriptors for 3 names | 477 386 | `FreeListSound`, `AnswersRight`, `PoolServed` (refinement, and the lock comes free) |
| tim | 4 buckets of 2 cycles, 2 entries, 2 chunks of 2, times up to a whole turn | 1 888 168 | `WheelSound`, `DeleteHitsEntry`, `FiresWhenDue` |
| pko | 2 cores, 2 packets, 3 buffers for 2 commands each | 38 502 | `QueueSound`, `FifoServed` (refinement, and every send ends) |

Why the bounds are enough. Two processes suffice for sysconfig because all
shared state is guarded by one lock, and the theorems cover any number; the
list category reaches two entries, so first, second and missing ordinals occur,
as do an empty file, an absent one, a name listed twice, and a -d, -n, -d of a last
line, whose second delete finds nothing. Commands stop
starting when a file is longer than `MaxLines`. In batch a batch of one line
meets files with and without the item, and the image has a category twice and a
trailer; batches of both processes and the import overlap, and the late rename
meets every kind of step. In boot the factory's configuration and two saves let
the startup, its copy in the making and the mirror all differ. In locks, `Wrap` =
number of cores is the tightest value for which tickets stay distinct, far below
2^32, and one nested level is all that a deeper one repeats. In barrier a core
polls while others complete the next round, and 2 is the smallest modulus for
which `exit` and `target` can differ; the table overflows. In nsd the three
notices of one failure exceed the buffer, and a shell left by a kill writes after
the next nsd's. In bootmem the requests take blocks from the front, the middle and
the end of an entry, free them between two, one or no free neighbours, cut an
entry in vain and run out of memory and of descriptors.
In tim a bucket gets a second chunk when both entries and a deleted one fall in
it, the pool runs empty, and the wheel turns any number of times; a state in which
a wrapping time was accepted is checked and not explored further
(`CONSTRAINT NoWrap`), because nothing is claimed after it. In pko a third
buffer is needed for one ahead of each core and one in the chain, and then the
pool is empty.

`CHECK_DEADLOCK FALSE` in barrier and batch only: a core may wait for a partner
that never calls or a fork that failed, or sit in `assert(0)`; a lock file left by
a dead process keeps everyone waiting.

### Findings

`MergeToRAM`'s final `unlink` (flash.c:216) removes the lock of a running
command, under the heading "//protect merge process" (flash.c:137); two commands
then share `/tmp/stemp`, and a category file gets the text of another. Three
processes and no crash suffice (run merge_steal).

Under the same heading two saves are not kept apart either: the lock file is
given back (flash.c:149) before `/tmp/new_one` is opened. The DHCP daemon
(udhcp/dhcpd.c:155), pppd (ipcp.c:2417) and rp-pppoe (discovery.c:533) all call
`kd_updateFlash`. One's rename installs what the other has just emptied, and
`/tmp/nk_sysconfig` has no end and no checksum (run flash).

A writer that takes its ticket after a reader's comparison (cvmx-rwlock.h:102) and
before its add (:105) waits while the reader is given the lock; the comments say
"When a writer is waiting, no readers are given the lock until all writers are
done" (cvmx-rwlock.h:66) and the same of pending write locks (:127). What does
hold is `WriterPreference`: no reader passes a writer that had its ticket at the
comparison (run rwlock_wait against `PreferenceKept` of run locks).

### Where the promises end

The properties hold of every behaviour of the code that is modelled. Where the code
breaks a promise the property says so, by a history variable or a disjunct, and says
that nothing else breaks it. Each of these can be seen by adding the named property to the run's
configuration.

| Where | What | To see it |
|---|---|---|
| kd_sys.c:1363, :580 | a delete of the last line leaves an empty line, and the next delete of an entry after it finds nothing: -d, -n, -d of the same item leaves the item | sysconfig, the trace of its three requests on `wan`; `Linearizable` speaks of the effect a command has alone |
| godnsmasq:31 | `killall -9 dnsmasq` in the middle of a command leaves the lock file and everyone waits until a reboot | `left` in `LockReleased`, `OneOwner` |
| flash.c:966 | on a full flash `cp` fails part way and `; mv` installs the part; rc takes it although there is a mirror | boot, `SPECIFICATION FullSpec`, property `MirrorAdopted` alone |
| flash.c:1006 | the erase leaves the mirror; power lost in the next boot after the `mkdir` makes the boot after that adopt it | boot, property `ResetHolds` |
| configd.sh:39 | what is packed is whatever `nk_sysconfig` is there after the comparison of time stamps, also a save of a minute ago | boot, property `MirrorSettled` |
| kd_sys.c:4711 | `kdBatchUpdateDB` renames after it has given up the lock: an edit or a section split in between is lost, and between the two steps of an `nk_new_setting` the file gets a second header | batch, `CategoryFilesIntact`; `late` in `FilesKept` and `SplitComplete` |
| kd_sys.c:5032 | splitDB returns with the lock file in place when a file cannot be opened; everyone then waits until a reboot | `SplitFail` of BatchDB; `LockDiscipline` counts it under `orphaned` |
| cvmx-spinlock.h:322 | `cvmx_spinlock_rec_init` leaves `core_num`; if it is a core's number (0 in zeroed memory) that core is taken for the owner until the first holder has stored its own | `slipped` in `RecExclusion`; `RecLeftoverShortLived` says when |
| cvmx-bootmem-shared.c:213 | when the aligned base is above `address_max` the difference wraps, the entry is cut in two and nothing is allocated; a later request that needs both parts fails | bootmem, property `SplitMeansFound`; `cuts` in `Coalesced`, `FailsOnlyWhenFull` |
| cvmx-bootmem-shared.c:93 | `address_max` is "inclusive" in the comment and exclusive in the code | `FailsOnlyWhenFull` |
| cvmx-bootmem-shared.c:440 | `available_mem` walks the list without "spinlock to control access to list" | bootmem, property `WalkProtected` |
| cvmx-tim.h:210, cvmx-tim.c:127 | when the longest time fills a power of two of buckets exactly, or ticks are no multiple of a bucket, the rounding adds no bucket and the last accepted time is a full turn ahead, although "Make sure the specified time won't wrap our bucket list" (cvmx-tim.h:209): the entry fires at once, and a delete may then write to a freed chunk | tim, `INVARIANT NoWrap`; `wrapped` in the properties |
| cvmx-pko.c:163 | a shutdown with commands queued frees only the last buffer of the chain, against "Shutdown and free resources" (cvmx-pko.h:181) | `lost` in `QueueSound` |
| cvmx-pko.c:165 | the register keeps the address of the freed buffer, and a second shutdown frees it again | `doubled` in `QueueSound` |
| cvmx-zone.c:75 | the creators do not set `lock`: in memory that held 1 there the first alloc spins for ever | `StaleLocks` of CvmxZone with 1; the theorems hold, nothing moves |
| cvmx-zone.c:66 | `mem_ptr & ~(sizeof(void *) - 1)` is nonzero for every address from a pointer's size up, so real regions are refused, aligned or not | `BadAlignment` of CvmxZone |
| check_io.c:43 | 32 bits of a 64-bit counter are kept: after 4 GB an idle WAN looks busy, and with CHECKIO a dead line is not detected | `rx >= Word` in `BusyNeedsTraffic` of NsdLoad |
| nsd.c:198 | a small bandwidth times the busy rate comes out as a limit of 0, and any WAN is busy | `RxLimit = 0` in `BusyNeedsTraffic` |
| nsd.c:364, :431 | the `echo` of a killed nsd waits for nk_ipsecd and then writes its old link state | `teller` in `IpsecdMatchesDb` |

## 5. Fairness

* SysConfig: weak fairness of each process's steps inside `nk_sysconfig` — it
  ignores the signals that could stop it, but for SIGKILL, which is a step of its
  own, and waits only for the lock file. No
  fairness of `Acquire` against others is claimed: a process may starve in the
  spin loop, and only `LockReleased` is stated.
* Boot: weak fairness of rc, of the copy and of configd.sh: while there is power
  they run. `MirrorFollows` assumes that the router is eventually left on and
  not reset; saves are bounded.
* Locks: weak fairness of each core's steps inside a call
  (cores run). The rwlock adds that holders release.
* Barrier and start: weak fairness of the parent's loop and of each process's
  steps. Calls are bounded, so that the last one to want either lock finds it
  free; without the bound a core could starve at a plain spinlock.
* Nsd: weak fairness of the loop, of webBoot reading its socket and of the
  restart. Both detection properties assume that nsd is eventually left running
  and that nk_ipsecd has its FIFO open, because the code blocks otherwise.
* Boot memory: weak fairness of the steps of a core that holds the lock. That a
  core gets the lock is not claimed.
* Packet output: weak fairness of the hardware and of each core's steps; strong
  fairness of `Reserve`, because the tag unit serves switches in the order they
  were asked for.
* Batch and tim state safety only; for batch a killed process or an early
  return can keep the lock for good.

## 6. Proofs

All in the `_proofs` modules, by TLAPS, for all values of the constants that
satisfy the named assumptions. The inductive invariants of the
components that have a run were also checked by TLC on its instance.

**SysConfig_proofs**, the commands. `InductiveInv` is the conjunction of `TypeOK`,
`MutualExclusion`, `RenameInstallsOwnEdit`, `CategoryFilesIntact` and
`OneOwner`. The first four are not inductive alone: exclusion needs that the
lock file exists exactly while someone is in the critical section
or after one was killed there (`LockHeld`), which needs that signals are ignored
there and that nobody gets past an abandoned lock file; the rename needs that
`/tmp/stemp` is empty between `fopen` and `fclose`, that the stream still
refers to it, and that no scratch file exists when nobody is editing or was killed
doing so (`ScratchOwned`). `EditWF` shows that each edit of a well-formed category file
is well-formed; it rests on lemmas about the searches and about inserting,
replacing and removing lines. `Invariance` then goes action by action.
Theorems: `TypeCorrect`, `Exclusion`, `ScratchHasOneOwner`, `RenameIsOwn`,
`FilesIntact`.

`Atomic` is the refinement: `Spec` implements `ConfigStore`. A
command takes effect at the read (-p, -a), at the rename (edits), when the
section is appended (-n of a new category), or when it finds nothing to do. What
makes this an instant is `CommandKept`: what a command is about to install is
its edit of the file *as it is now*, because nobody has changed the file since
it was read. A SIGKILL is an `Abort` before that instant and a stutter after it.

**SysConfig_proofs**, batches and imports. `LockIsKept`: a step of a process
enters the critical section, stays where it is, leaves it, or abandons the lock
file, and each of the four keeps `LockDiscipline`, given that after an
abandoned lock nobody is in the section (nobody can get in, so nobody ever
unlinks that file) and that a process in a batch or a split is in no command.
`SplitIsComplete`: up to the line that splitDB has reached, what the image makes
of each category (`SplitUpTo`) is in its file or in the stream being written,
and its name is among the names (`SplitSoFar`). Others leave the files alone
because they do not have the lock. The exception is the rename of
`kdBatchUpdateDB`, after its unlink: while `late` is "no" nobody is in the critical
section when it happens.

**SysConfig_proofs**, saving. `NothingIsLost` (of `SaveLosesNothing`): for every
listed category the section that `MergeToRAM` wrote last is the one `splitDB`
keeps. The image is a concatenation over the list, so the proof finds the last
place of the name in the list and shows that everything after it belongs to other
categories; that commands keep the list and the files in step is `ListInv`.
`ImagesStayComplete` (of `ImagesKept`): until a save begins before another is over,
the images in RAM and flash end in the checksum wherever a process is killed.
`ImageInv` says that one process at most is in `kd_updateFlash` or has left its
shell there, and that `/tmp/new_one` and the .temp are empty until they are
flushed. It needs nothing of the commands: it holds while their lock is being
stolen.

**CvmxRwlock_proofs.** The lock word counts announced readers and the flag; the
inductive invariant pairs it with the exclusion of writers and is proved with
the cardinality lemmas for adding and removing one core. Theorems:
`RwExclusion`, `RwWordCounts` (any wrap-around), `RwReaderBarsWriters`.

`RwPreference` is the refinement of `WriterPreference`: a queue of writers that
later readers wait for. The queue is read off the tickets: the k-th waiter is
the one whose ticket is k - 1 steps after `write_comp`, modulo the width
(behind the holder, if there is one). `TicketsKept` says that the tickets that are out follow one another
from `write_comp` to `write_req` without gap or repetition, and `ReadersKept`
that a reader has seen a `write_req` beyond the tickets of all writers it has to
wait for. Tickets are distinct only if there are as many as cores
(`EnoughTickets`, the theorem's hypothesis; the code has 2^32). It is tight: with
fewer, two writers get the same ticket.

The same module proves the recursive spinlock, from any initial `core_num`.
`RecInv` is the types and the depths (`RecBase`) and, until the number left by the
init has let somebody in (`slipped`), one owner whose levels are the word's value,
where `core_num` names a core only while that core is inside or the number is
still the leftover one (`LevelsHeld`). Theorems: `Counting` (of `RecLevelsCounted`),
`RecExcludes` and the action property `RecLeftoverIsShortLived`.

**CvmxBootmem_proofs**, boot memory. For any memory, cores and requests with
power-of-two alignments (`AlignAssumption`) whose aligned addresses stay below
`Word` (`AddressAssumption`). `ListInv`: the list is threaded by address through
the free blocks, headers fit, list and blocks handed out partition the memory,
and each place in a walk or a split says which entry it is at and what has been
passed. `FreeListAlwaysSound` adds that two entries touch only at a cut made above
its call's maximum (`Touching`); `AnswersAlwaysRight` that what a search
has passed would not have done (`Searched`) and what a walk has added up
(`Summed`). `BootmemIsPool` is the safety half of `PoolServed`: the
free cells are those of the arena that nobody holds (`FreeIsRest`), so that each
step moves one whole block or nothing.

**CvmxBootmem_proofs**, zones. For any number of cores and elements and any stale lock.
The inductive invariant is `TypeOK`, `Exclusion`, `ListThreaded` (the words in
the free elements spell the history variable `list`), `ElementsShared` (each
element is on the list once or with one core), and two strengthenings: what a
core that is taking or giving back an element knows of it, and that nothing is
on the list or with a core before the zone is made. `ListThreaded` needs
`ElementsShared`, because users write over the first word of what they hold, and
both need `Exclusion`, because pop and push read the head in one step and write
it in a later one. Theorems: `ZoneShared`, and `ZoneIsPool`: `Spec` implements
`ElementPool` — every step of the cores is a step of the abstract pool or leaves
it unchanged.

**Nsd_proofs.** For any settings, any number of attempts and any size of
webBoot's buffer. The inductive invariant is `TypeOK`, `HeardMatchesDb`,
`CopiesAgree` (nsd's own NSDOK is always the database's, between rounds or not)
and `RoundKept` (where nsd is in its round says which attempts have failed: all
of the tests before the current one, none after it). The lemmas say what the last
notice in the buffer is after one is added, dropped or delivered. Theorems:
`HeardIsDb`, `IpsecdIsDb`, and the action property `FailNeedsAll`.

**Nsd_proofs**, the load. `LoadNeverDividesByZero` for any setting of the clock, and
`LoadBusyNeedsTraffic` for any limits and any counters that fit 64 bits. The second
needs that what is kept is the counter of the last check modulo `Word` and that the
history variable `idle` says when it has not moved.

**AppStart_proofs.** For any CPUs, coremasks, size of the table and width of
`exit`. `BarrierInv` of the barrier alone: its spinlock excludes, a core inside
has the slot of its coremask, entries are claimed from the front and never full,
whoever is checked in waits for the next value of `exit` and whoever is inside
and no longer checked in sees the one it waits for (`WaitsKept`), and all cores
of a coremask have called equally often but for those checked in, who are one
call ahead (`RoundsKept`). The last two give `ExitNotMissed` and `NoEarlyExit`,
neither of which is inductive: both speak of rounds, and what keeps cores from
drifting apart by two rounds is that the entry empties only when it is full.
`StartInv` adds the start: which CPUs have no process yet, that whoever got past
`pending_fork` finds all CPUs in the mask, and that nobody calls the barrier
before. Theorems: `BarrierCorrect` (the barrier, whoever calls it),
`NobodyEarly`, `NobodyMissed` and `SoundStart` (in front of it the start).

**BootFlash_proofs.** For any number of saves and of looks before a mirror.
`BootInv` says, besides the types, what each place in rc, in the save and in
configd.sh implies about the flash: with both EasyAccess files there the startup
file is the one saved last or about to be replaced by the mirror; without them
the router has never been up (`StartupKept`); a finished archive is whole
(`MirrorKept`). It has to hold at every place because a power loss starts rc
anywhere. The part before the first reset is what is claimed: `ResetHolds` is
false (section 4). Theorems: `MirrorIsWhole` and the action property
`BootsTheSaved`.

**CvmxTim_proofs.** For any wheel, chunks and work entries, until a time that wraps
is accepted (`WheelUp`). `WheelInv` has three parts.
`Timed`: the bucket of an entry that is being added, may still be deleted or is
being deleted is so many cycles away (`Rest`) that what is left of `MaxDelay`
cannot use them up. This is where the two buckets forward of
`cvmx_tim_add_entry` and the two ticks of the commit time come in, and
`CallAhead` draws the conclusion: that bucket is not the current one. `Chains`:
there are chains `ch[b][0..k[b]-1]` of distinct chunks that the `next` words
spell, `num_entries + chunk_remainder` is `Entries * k[b]`, and a chunk is in
the pool or in one chain. The `next` word of the last chunk is nobody's, which is
why the lengths are part of the invariant and not read off the memory. `Placed`:
an entry that is set and not being added has exactly one place in the chains, in
the bucket `(Current + due) % NumBuckets`, and a usable delete_info names it.
`TickWheel` shows that the clock moves and no entry changes its bucket, `ListIs`
that what software and hardware read of a bucket is its chain. Theorems:
`WheelAlwaysSound`, `DeleteAlwaysHits` and the action property
`EntriesFireWhenDue`.

**CvmxPko_proofs.** For any cores, packets and finite pool. The invariant is
a chain of buffers from the one the hardware reads to the one in the register
(`Chained`), whose lengths agree: `hw.idx + (bell + Unrung) = m * Used + Written`
for `m` links; who holds the tag is the only one that writes (`Turns`), and every
buffer is in the pool, in the chain, with one core or among the `lost` (`Parts`;
`Closed` says the same of a queue that is shut down, whose register still names
a freed buffer), until a repeated shutdown has freed one twice. Theorems:
`QueueAlwaysSound`, and `QueueIsFifo`, the safety half of `FifoServed`.

CvmxZone and NsdLoad have no TLC run: everything stated of them is proved, and
what the proofs assume of the constants (`ZoneConstants`, `LoadConstants`) is a
hypothesis of each theorem. `TypeCorrect`, `RwWordCounts` and `BarrierCorrect`
are not listed as properties of a run either.

Only model-checked:

* all liveness (`LockReleased`, `RecReentryNeverBlocks`, `WritersServed`,
  `ReadersServed`, `BarrierOpens`, `AllStart`, `DownDetected`, `UpDetected`,
  `MirrorFollows`), because TLAPS does not do fairness; `PoolServed` and
  `FifoServed` include it;
* `FilesKept`, which compares selections of lines (`SelectSeq`, of which the proof
  system's library has no definition).

TLAPS cannot instantiate the library's induction theorems. Where a fact about a
recursive function or a fold is needed it is proved from the least counterexample
(`LeastNat`): that following the links gives the chain (`HopIs`, `ChunkIs`), that
a concatenation exists and has the lines of its parts (`FlattenExists`,
`FlatLines`), what a sum over the list is (`SumIs`).

## 7. Plan

Done: sections 2–6. Next, in this order:

1. liveness of the timer wheel (an entry that is not deleted fires) and of a batch
   nobody kills;
2. several nsd processes over one `SysConfig`;
3. several queues per port in packet output; the event log.

## 8. Not modelled

Kernel tree and third-party packages (bind9, dhcp, dnsmasq, iproute2, iptables,
libupnp, mDNSResponder, net-snmp, openvpn, ppp, pptp, ipsec, zebra, EasyAccess
and others) are not this program's logic. They and the vendor's tables of register
fields are nearly all of the repository's lines, which is why the modelled share of
the whole tree is small. webBoot, nk_ipsecd, the web server and the switch
daemons ship as objects and appear only as the environment of nsd. The
executive's other drivers (FPA, SPI, interrupts, TWSI, flash) are register
sequences for hardware whose behaviour is not in the repository; cvmx-malloc is
dlmalloc; cvmx-log is a debugging aid. The remaining files of nku format what the
kernel reports. Of the database: `-t` and `-b`, which use other files, and the
`sysconfig()` of the former one-file database, which bypasses the lock when the
parameter starts with a dash. Of the flash: `kd_updateFlash_factory`. Of boot
memory: the N32 clamp, the version check and the truncation of names. Of the start:
the mapping of shared memory. Limits of what is modelled: weak-memory effects
beyond the barriers, values that contain blanks (`find_item` reads words), the
number of open descriptors, cores that still send while packet output is shut
down, calls of `cvmx_tim_stop` and `cvmx_tim_start` on their own. In BootFlash the
copy of the EasyAccess files (flash.c:974) is one step, although `cp` writes them
in place.
