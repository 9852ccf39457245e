# A TLA+ model of DZFile

DZFile keeps user files in a directory (`data_dir`) and compresses them behind
the users' backs: a daemon, the walker, turns a file `x` that has not been
modified for a while into a hidden HDF5 file `.x.DZF` of compressed blocks and
then punches `x` (truncates it to nothing and back to its length).  A library
routes the reads of its clients to the hidden file.  These modules model the
walker, the library and the tools that share the directory; TLC checks them on
small instances and TLAPS proves the main safety properties of the walker, its
thread pool, the readers, the library's clients and `dzfile-put` for instances
of every size.

## 1. The system

| Component | State | Operations | Talks to |
|---|---|---|---|
| Conversion (`dzfile-intern.cc`, `dzfile-walker.cc`) | user file, `.x.DZF.tmp`, `.x.DZF`, descriptors | `process_file`, `convert2h5` | HDF5, file system |
| Walker (`dzfile-walker.cc`) | position in the pass, policy | scan, enqueue, exit | the pool, the directory |
| Thread pool (`threadPool.hh`) | `tasks`, `stop`, mutex, condition variable | loop of a thread, `enqueue`, destructor | the walker |
| Readers (`dzfile-intern.cc`, `dzfile-api.c`, `dzfile-get.c`) | offset, count, decompressed block | `h5fd_pread`, `dzfile_pread(v)`, `dzfile_get` | HDF5, zlib/zstd |
| Library (`dzfile-api.c`, `sparsehash-map.cc`) | `h5fdmap`, descriptors | open, creat, close, read, write, unlink, truncate | file system, database, ZeroMQ |
| Database (`dz-sqlite-ifce.c`) | tables `filemeta`, `space` | insert, counters | the library, all processes |
| `dzfile-put` | `total_bytes`, file position, record locks | `main`, `dzfile_put`, `dzfile_lockw` | the library, other puts |
| Life cycle | `priv` | `dzfile_init`, `dzfile_fini` | all programs |
| Notification queue | ZeroMQ socket | `dz_openmq`, `dz_notifymq` | whoever listens outside |

Nothing coordinates the processes but the names in the directory.  What is
hard is therefore: two threads of the pool on the same file (every pass of the
scan queues every old file again); clients that have a file open, or open,
unlink and re-create it, while it is converted; a process that ends between
two of the steps; calls whose failure is ignored, and looks for the hidden file
whose failure is taken for "not there"; and arithmetic on offsets at the ends
of blocks and files.  `PROJECT.json` lists these hazards at their lines.

What makes each part correct:

- *conversion*: what is served of a file is what was written (`Lossless`);
  content is destroyed only behind a published replacement;
- *walker*: what the policy allows is compressed in the end; the scan goes on;
- *pool*: each task is run once, in order, no wakeup is lost, the destructor
  returns;
- *readers*: a read answers as `pread(2)` would on the original;
- *library*: descriptors serve the file they were opened for; names come and
  go in pairs; the database agrees with the directory;
- *put*: copies to the same name do not mix, each process ends, and one whose
  `dzfile_put` reports a failure has written nothing;
- *life cycle and database*: whatever fails on the way, files have their rows
  and bytes are counted once.

## 2. Modules

| Module | Models | Checked by | Proofs |
|---|---|---|---|
| `Convert` | `process_file` and `convert2h5` of all threads | `MCConvert` | `ConvertProofs` |
| `Walker` (extends `Convert`) | the scan, the queue, exit and restart | `MCWalker` | `WalkerProofs` |
| `TaskQueue` | abstract: what a pool promises | | |
| `ThreadPool` | the class, implements `TaskQueue` | `MCThreadPool` | `ThreadPoolProofs` |
| `H5Pread` | blocks of one file, and reads of them | `MCH5Pread` | `H5PreadProofs` |
| `DzStore` | clients of the library next to the walker | `MCDzStore` | `DzStoreProofs` |
| `Put` | the copies and locks of concurrent `dzfile-put` | `MCPut`, through `PutTool` | `PutProofs` |
| `PutTool` (extends `Put`) | the whole program, the life cycle of the library, the database | `MCPut` | `PutToolProofs` |
| `FoldFacts` | nothing: lemmas on sums and concatenations written as folds | | used by `H5PreadProofs`, `PutToolProofs` |

**Convert.**  A content is a sequence of `H5_BUFSIZE` blocks.  `src`, `tmp` and
`hid` are the three files of a name.  An HDF5 file has its blocks, the thread
that holds it open, and `sound`: whether `H5Fopen` would accept it, which it
does once it was closed properly.  Every call on a name is an action named
after it (`stat_h5name`, `open_path`, `hdf5_open_tmp`, `rename_h5`,
`truncate_0`, ...); `Faults` says which calls may fail on their own, and what
the code does then is a branch of the action.  `findhiddenFile` answers 1, 0, 2
(a directory, `HidDirs`) or -1 (its `stat` or `malloc` failed), and
`process_file` goes on for all but 1; `convert2h5` takes a failing `stat` for a
missing file.  The read, compression and write of one block are
one action: the temporary file has a single writer (`OwnTmp`, proved), and the
position of the descriptor is shared only by its number, which the model keeps
(`fdfile`, `fdpos`).  `early_out` is the jump to `out:` with `srcfd`
unassigned; `StackFds` is what the stack may hold.  `Exit` is `exit(1)` of the
main thread, after which HDF5's exit handler closes its files, `Crash` a
signal.  `data`, `overlap`, `missed` and `unseen` are ghosts: what was written,
the files two threads have ever worked on at once, the threads whose
`findhiddenFile` has just failed, and the files whose hidden name such a thread
then failed to look for in `convert2h5` too.  `Exposed` is `overlap` and
`unseen`.

**Walker.**  `scan_opendir`, `scan_entry`, `scan_end` are the main thread;
`take` hands the oldest name to an idle thread, `work` is a step of `Convert`.
`readdir` returns what was there at `opendir`.  `aged` abstracts
`now - st_mtime > mtime_period`; a truncate makes a file young again.  Each
action of `Walker` takes an action of `Convert` or leaves its variables alone,
so that it implements `Convert!Spec` by construction.

**ThreadPool.**  One action between any two points where another thread can
look: taking the mutex, the predicate, pop, run; `wait` releases and blocks in
one step and may wake up spuriously.  The abstract `TaskQueue` is instantiated
with the concrete variables.

**H5Pread.**  `convert_read` cuts the content into blocks, while a client
writes a byte anywhere in the file or behind it, at any time
(`dzfile_write`).  The ghost `late` has the places written where `convert2h5`
had read already, or after it had found the end: what the truncates then
destroy.  `h5fd_pread` is one turn of the read loop with its three conversions
to int (`ToInt`: the number of the block, its place, and what is left of
`count`) and its unsigned comparison; the ghost `turn` changes with every turn
that copies, so that a turn that copies nothing is a step too.  `compress_data` and `decompress_data`
dispatch on the word that `getAlgorithm` reads from the string dataset of the
hidden file, which may be missing, too long or of another build; the
algorithms themselves only give back what they were given, or fail.
`dzfile_preadv` and `dzfile_get` are the callers.  `library_fail` is a failing
call of HDF5, zstd or `malloc`; the open of `dzfile_get`'s destination and its
`pwrite` may fail, and a `pwrite` may be short, which nobody looks at: `fault`
is the ghost that says that one of these has happened, and `dzfile_get` returns
0 in any case.  Reading outside of the
decompressed block gives `Noise` or ends the process.

**DzStore.**  Clients are processes with a descriptor table and an `h5fdmap`
each; a descriptor refers to an inode, and `inodes` says how many files were
ever created.  Every step of `dzfile_open`, `dzfile_creat`, `dzfile_unlink`,
`dzfile_truncate`, `dzfile_ftruncate`, `dzfile_write`, `dzfile_writev` that
others can see is an action; with `CallsFail` any of its system calls may fail,
`findhiddenFile` with -1, which `dzfile_open` and `dzfile_creat` refuse and
`dzfile_unlink` and `dzfile_truncate` take for "not compressed"; transactions
may fail and are not looked at, as in the code.  A descriptor of `dzfile_creat`
is write-only (`Readable`).  The walker is its four visible steps, the first of
them also on a file whose hidden file it failed to see.  `itruth`, `cut`,
`missed` and the field `of` of a hidden file are ghosts: what was written to an
inode, the inodes whose hidden file was unlinked, those whose hidden file
somebody failed to look for, and the inode a hidden file was made from.
`PreadOwn` is `PreadTruth` without the inodes in `cut` and `missed` (`Broken`).

**Put.**  Processes with record locks on the regions of one destination.  A
source is a sequence of units, `BUFLEN` of them a buffer, and a write may write
fewer than it was given.  `total` is `total_bytes`, the place in the source and
of the region that `dzfile_lockw` locks; `pos` is the file position, where
`dzfile_write` writes.  After a short write they differ, as in the code.

**PutTool.**  `main` around that copy: `dzfile_init` with each call in it that
may fail, `dzfile_open` of the destination with its row and `filenum`, the
counter that each `dzfile_write` updates, `dzfile_stat` and `dzfile_fini`.  The
exit status is 0 (`exited`) or -1 (`failed`), which `main` also returns when
the `dzfile_stat` at its end fails, after whatever was copied; `ret` is what
`dzfile_put` returned.  `unlooked` is a ghost: an `lstat` of the missing
destination failed with another error than `ENOENT`, so that no row was
inserted.  The rows and counters are shared by the processes, `priv`, the return value and
the place in `main` are each one's own.  `TSpec` implements `Put!Spec` with
the variables they share.

Actions keep the names of the functions or calls they model; `PROJECT.json`
maps each definition to its lines.  Definitions marked "Mutant" change an
action the way a plausible bug would and are used by no specification.

## 3. Runs

### Runs that pass

| Run | Instance | Shows |
|---|---|---|
| `convert_pool` | 1 file of 2 blocks, 2 threads, all faults, stale numbers {1, 2}, 2 crashes | `PublishBeforeDestroy`, `OwnTmp`, `PublishedOnce` under everything that may go wrong |
| `convert_isolated` | 2 files of 2 blocks, a directory in the place of one hidden file, 2 threads, all faults but `close`, `truncate`, `exit` | files outside `Exposed` are lossless (`IsolatedLossless`); files that no two threads share keep their length (`SizeKept`) |
| `walker_live` | 1 file, 2 threads, queue of 2, failing `opendir`, exit, 1 kill | the file is compressed in the end, or the process ended (`CompressedOrExited`); a scan that ends the process over a name that has gone does so for the temporary name of a file that is published (`ExitPublished`; no `stat` fails here, which would end the process as well) |
| `pool` | 3 threads, 4 tasks, 1 spurious wakeup | mutual exclusion, no lost wakeup (`WorkConserving`), refines `TaskQueue` (`PoolIsQueue`), tasks run (`AllRun`), the destructor returns (`Joins`) |
| `pread` | blocks of 4, lengths 0-8, 1 write of a client anywhere at any time, an incompressible block, offsets 0-9 and one whose block's number overflows, vectors, a count that is 0 as an int, 4 algorithms and an unreadable name of one, failing library calls and `pwrite`s | `AllStored`: blocks skip and repeat nothing; `ReadExact`, `ReadInside`, `GetCopies`: what a read answers; `CopyInside`: no copy from outside of the block; `TurnMoves`, `ReadEnds`: no read goes on for ever, within `CountFits` |
| `store_clients` | 2 clients, 1 file, 5 calls, failing system calls, 1 kill or failed transaction, `Exclusive` | `MapOpen`, `HiddenHasFile`, `FilenumRows`, `PreadOwn` |
| `put` | 2 puts of 0 to 5 units over nothing, an empty, a longer or a compressed file; all faults, short writes, 1 failed transaction, 1 kill | the program implements `Put!Spec`; `OneWriter`, `WriteLocked`, `PutCopied`: copies do not mix; `BytesCounted`, `CreatedRow`: the database; `FailureIsClean`: a failing `dzfile_put` has written nothing; `ToolEnds` |

### Runs that find a disagreement

Each one checks a property the repository states and TLC finds a behaviour of
the code against it; `findings` in `PROJECT.json` has the quotes.

| Run | What happens |
|---|---|
| `convert_race` | two threads on one file publish zeros over its content |
| `convert_crash` | crash after the truncate, before `H5Fclose` |
| `walker_stale` | a left-over temporary file blocks its file for ever |
| `pread_eof` | read fails at the end of a file of full blocks |
| `store_rawfd` | a descriptor opened before the conversion reads zeros |

### Other disagreements met while modelling

The models contain these too; a change of one constant, or of the property in
the cfg, makes TLC show them.

- A single thread loses a file when two looks fail: `findhiddenFile` returns -1
  and `process_file` goes on (`dzfile-walker.cc:129`), the `stat` of
  `convert2h5` fails and it goes on too (`dzfile-intern.cc:293`), so that the
  punched file is converted again and zeros are renamed over its hidden file.
  `Lossless` in `convert_race.cfg` with one worker and `Faults = {"stat"}`.
  One failing look does no harm: `unseen` needs both.
- `dzfile_unlink` and `dzfile_truncate` take the -1 of `findhiddenFile` for "not
  compressed" (`dzfile-api.c:512`, `341`): the first leaves a hidden file
  without its user file, the second a hidden file that serves the old content.
  `HiddenHasFile` and `PreadOwn` in `store_clients.cfg` without `missed`.
- The second `truncate`, or the process, fails after the first: the file has no
  length any more (`dzfile-intern.cc:391`).  `SizeKept` in
  `convert_isolated.cfg` with `Faults = {"truncate"}`.
- `H5Fclose` fails after the user file was truncated, and the failure is
  ignored (`dzfile-intern.cc:404`): `NothingLost` in `convert_crash.cfg` with
  `Faults = {"close"}`, `MaxCrashes = 0`.
- `srcfd` is closed without having been assigned (`dzfile-intern.cc:401`):
  another thread then reads a different file through the number.
  `IsolatedLossless` in `convert_isolated.cfg` with `StackFds = {1}`.
- `stat` of a name that vanished since `readdir` ends the walker by `exit(1)`
  (`dzfile-walker.cc:287`), which is why `CompressedOrExited` has its second
  half; so does any other failure of it (`ExitPublished` with `"stat"` in
  `Faults`).
- What a client writes behind the read position of `convert2h5`, or after its
  last read, is not stored, and the truncates destroy it
  (`dzfile-intern.cc:380`): `AllStored` in `pread.cfg` without `late`.
- Reads: a block whose compressed form fills the buffer, a file compressed
  with zlib, an offset at which `blocknum * H5_BUFSIZE` overflows, a file that
  grew during its conversion and so has a short block in the middle.  `Regular`
  and `Sound` in `H5Pread` name these cases; without those hypotheses
  `ReadInside` or `ReadExact` fails in `pread.cfg`, for the overflow with
  `BufSize = 2` and `IntHalf = 4`.  A read behind the end, inside the last
  block, returns memory that is not of the file (`dzfile-intern.cc:496`,
  `validbytes` negative); `CopyInside` says that it takes such an offset.
- Such a read with a `count` of 4 GiB never returns: what is left of `count` is
  0 as an int (`dzfile-intern.cc:497`), so that each turn copies nothing.
  `TurnMoves` and `ReadEnds` in `pread.cfg` without `want < 2 * IntHalf`.
- `dzfile_get` does not look at the open of its destination nor at a short
  `pwrite`, and returns 0 whatever went wrong (`dzfile-get.c:103`, `114`, `132`):
  `GetCopies` in `pread.cfg` without `fault`.
- An empty buffer among the buffers of `dzfile_preadv` ends the call as the end
  of the file does (`dzfile-api.c:446`): the buffers behind it stay unread.
  `ReadExact` says what is promised then, for `count = 0`; with `want` in place
  of `Len(out)` it fails in `pread.cfg` on the buffers `<<2, 0, 3>>`.
- `dzfile_open` opens the hidden file and then the user file by name: when
  another client unlinks and creates the file in between, the descriptor serves
  the old content; when it comes between the two unlinks of `dzfile_unlink`, it
  serves zeros; a `dzfile_unlink` killed there leaves a file of zeros.
  `PreadTruth` in `store_clients.cfg`, with `CallsFail = FALSE` as well.
- `dzfile_unlink` looks for the hidden file once; a rename of the walker after
  that leaves a hidden file alone, and the next `dzfile_open` of it aborts on
  the deleted key -1.  `HiddenHasFile` in `store_rawfd.cfg`.
- `dzfile_read` and `dzfile_readv` do not look into the hash map
  (`dzfile-api.c:306`) and read the zeros of a compressed file, which is what
  `dzfile-cat` prints of one (`dzfile-cat.c:104`).
- A row is inserted for a name that is then not created (`dzfile-api.c:267`);
  two processes that find the same name missing insert two rows and count the
  file twice (`dzfile-api.c:265`).  An `lstat` that fails with another error
  than `ENOENT` inserts none, and the `open` may create the file all the same:
  `CreatedRow` in `put.cfg` without `unlooked`.
- `dzfile_unlink` calls `stat` after the `unlink` (`dzfile-api.c:530`): it
  returns -1, or subtracts the size of a file somebody has created since.
  `diskbytes` is subtracted from and never added to; `dzfile_writev` and
  `dzfile_pwritev` count their bytes twice (`dzfile-api.c:426`), against
  `dzfile.h:35-36`.
- `dzfile_creat` of a compressed file returns `EEXIST`, a positive number, and
  not -1 (`dzfile-api.c:176`).  `dzfile_init` returns 0 when `data_path` is no
  directory, without a database (`dzfile-api.c:73`).
- `dzfile_put` returns 0 whatever ended its loop (`dzfile-put.c:209`), so the
  exit status of an incomplete copy is that of a whole one; after a short write
  the rest of the copy is shifted (`dzfile-put.c:188`); a put over a longer
  file leaves its tail (`dzfile-put.c:162`).  In `PutTool`, `main = "exited"`
  does not imply `total = Len(source)` or `pos = total`.  And an exit status of
  -1 does not mean that nothing was written, since the `dzfile_stat` after the
  copy may fail (`dzfile-put.c:307`): `FailureIsClean` in `put.cfg` for every
  process in `failed`.
- `main` of `dzfile-put` calls `dzfile_fini` after a `dzfile_init` that failed
  before it set `priv`, which `dzfile_fini` dereferences (`dzfile-api.c:113`):
  the process crashes, with nothing written (`FailureIsClean`).
- A pool with `nbthread` 0, what a configuration without the key gives, runs
  nothing (`dzfile-walker.cc:268`); `PoolAssumption` excludes it.

### Bounds

- Two threads are enough for a race on a file, and with a second file for the
  descriptor numbers to change hands; a third thread repeats the roles.
  `MaxBlocks` only cuts runs in which a shared descriptor is read again and
  again.  `MaxCrashes` 1: after a crash the process starts from any directory
  the first part of a behaviour can leave; `convert_pool`, with one file and
  the most ways to fail, has a second crash on top of what the first one left.
- Two different blocks per file tell lost, repeated and swapped ones apart.
- `MaxQueue` 2: the code's queue has no bound; two entries make the same file
  reach both threads, and a full queue delays the scan as a slow one would.
- In `H5Pread` the scaling keeps `BUFLEN` a divisor of `H5_BUFSIZE` and that a
  divisor of 2^31, as in the code; lengths up to two blocks meet every boundary
  case, and 2^31 becomes 8, two blocks, so that overflow is within reach: an
  offset of 64 has a block number that wraps around, and a count of 16, which
  stands for 4 GiB, is 0 as an int.  One write of a client can fall before,
  into and behind the block that is read next, in each state of the conversion.
- `MaxOps` 5 calls are enough to create, write, compress, open, unlink and
  re-create a file, and to read it (`dzfile_close` and the walker do not
  count).  `MaxInodes` 2 is the re-creation.
- Two puts are one that copies and one that waits for the region or takes it
  first; the proofs cover any number.  Five units in buffers of two are two
  full buffers and one that is not; an old content of six is longer than any
  copy.

### Fairness

Weak fairness of the scan and of each thread (the kernel schedules them), of
the ageing of files (time passes), of the owner of the pool, of a reader that
has been called, and of each process of `dzfile-put`: it runs on, and polls
often enough to notice a region that stays free.  A process that waits is not
promised that `F_GETLK` fails (`copy_lockfail` is outside of `main_put`), so
`ToolEnds` does rest on the locks being dropped.  None of it is needed by a safety property.
`Walker` assumes strong fairness nowhere: a mutex or a queue slot is never
needed by a starving thread in the runs that claim progress.  That an operator
restarts the walker is assumed by `walker_stale` only, to show that restarting
does not help.

Symmetry is used in safety runs only.

## 4. Proofs

All theorems hold for every value of the constants that satisfies the named
assumptions (`ConvertAssumption`, `WalkerAssumption`, `PoolAssumption`, `PreadAssumption`,
`StoreAssumption`, `PutAssumption`, `ToolAssumption`), which type the constants
and keep the null values apart.  Two of them say more.  `PreadAssumption`
asks that `BufSize` is at least 2, divides `IntHalf` and is smaller than it (a
block of 2^31 bytes would make `validbytes` negative; `H5_BUFSIZE` is a far
smaller power of two), that `BufLen` divides `BufSize`, and that a vector of `preadv` has at
least one buffer (which may be empty); `ToolAssumption` that the processes are
finitely many, without which the sum in `BytesCounted` means nothing.

- **ConvertProofs.**  `TypeCorrect` proves `TypeOK /\ OwnTmp`
  (`ConvertTypeCorrect` is its first half): neither is
  inductive without the other, since an action of a thread reads the blocks of
  a temporary file that `OwnTmp` says is there.  `PublishBeforeDestroyTheorem`
  uses `PublishInv`: a thread past the rename has its hidden file there, and a
  file whose content changed has one; failures, exits and crashes never remove
  a name.  `PublishedOnceTheorem` is about the files outside `Exposed`: one
  outside `overlap` has at most one thread, and between the look that answered
  "not there" (`findhiddenFile` if the thread is not in `missed`, otherwise the
  `stat` of `convert2h5`) and the rename it has no hidden file.  Where both
  looks failed the file is in `unseen`, and the theorem is silent, as the code
  then does replace what it published.  `IsolatedLosslessTheorem`, about the
  same files, assumes `Quiet` (no stale descriptor numbers, no
  crash, no failing `H5Fclose`): `LosslessInv` says that the descriptor of a
  thread is its own and open on its file, and that the blocks of the temporary
  file are a prefix of the content as long as the read position.  The
  cases of section 3 show that each part of `Quiet` is needed.
  `SizeKeptTheorem` assumes that no truncate fails and that the process does
  not end, and uses `Sized`: the length is away from what was written only
  between the two truncates, and then `stsize` of the one thread on that file
  knows it.
- **WalkerProofs.**  Each step of the walker is, by how `Walker` is written, a
  step of `Convert` or leaves its variables alone (the lemma
  `WalkerImplementsConvert`); so the theorems carry over (`WalkerPublishes`),
  and with one thread `overlap` stays empty: only the files in `unseen` can
  lose anything (`SingleThreadLossless`, which no run checks: `convert_race`
  needs the second thread).  `ExitPublishedTheorem` assumes that `stat` does not
  fail by itself.  `Buffered` says of each hidden or temporary name the scan
  still has to visit that it is there, or is the temporary name of a file whose
  hidden file is there; with `OwnTmp`, only a rename takes a name away.
- **ThreadPoolProofs.**  `PoolInv` joins types, the mutex, the fact that the
  queued, running and finished tasks are distinct and all at most `next`, and
  where the owner is.  From it, each step maps to a step of `TaskQueue` or a
  stutter (`PoolImplementsQueue`).  `PoolConservesWork` counts the awake
  threads against the queue.
- **DzStoreProofs.**  `StoreTypeCorrect`, `StoreMapOpen` and
  `StoreFilenumRows` hold with and without `Exclusive`; `MapOpen` is inductive
  with the types, and the difference of rows and `filenum` is the number of
  processes in `Inserting`, which each step changes by one member.
  `StoreHiddenHasFile` and `StorePreadOwn` assume `Exclusive` and rest on
  `StoreInv`.  `CallInv`: between its look for the hidden file and its end, a
  call finds what it found, since the walker is elsewhere.  `InodeInv`: no two
  names share an inode, and those not yet created are nowhere.  `HiddenInv`:
  a hidden file was made from the inode its name has now and holds what
  clients wrote to it, and every descriptor of that inode is in the hash map.
  `WalkerInv`: what the walker has read is still what the file holds.
  `DataInv`: only a file with a hidden file is punched.  `MapInv`: a hash map
  entry is the hidden file of its descriptor's inode.  Each part but the first
  speaks only of inodes outside `Broken`: those in `cut`, whose removal has
  begun, and those in `missed`, whose hidden file a `dzfile_unlink`,
  `dzfile_truncate` or the walker failed to look for.
- **PutProofs.**  `LockInv`: the locks of different processes are disjoint, and
  a process has locked all it has counted and, when it writes, its region;
  hence whoever has written holds the first unit, which is why region locks
  serialise whole copies (`PutSerial`), and why a write behind its region,
  after a short one, is still to a locked place (`PutWritesLocked`).
  `CopyInv`: without a short write the destination begins with what a writing
  process has copied (`PutWhole`).
- **PutToolProofs.**  `ToolImplementsPut`: every step of the program is a step
  of `Put` or leaves its variables alone, so the theorems about `Put` carry
  over (`ToolSerial`).  `RowInv`: whoever reaches the `open` has inserted a row,
  found the file, or seen a transaction or the `lstat` fail (`ToolCreatesRow`).
  `CleanInv`: a process without `priv`, or whose `dzfile_put` returned -1, has
  not copied anything (`ToolFailsClean`).  `CountInv` is `BytesCounted` over sums the prover can
  reason about (`ToolBytesCounted`): a step of a process changes one summand
  of each sum, `pos` and what is `Uncounted`, and `CountKeep` says by how much
  they may then differ; the rest of the sums is untouched.  It needs `PutInv`
  and `ToolInv`: that a write is at most a buffer, and that only a process at
  its counter has something to count.
- **H5PreadProofs.**  Four invariants, each on top of those before it.
  `TypeInv` adds to `TypeOK` the types of the buffers and that nobody reads
  before the conversion is done (`PreadTypeCorrect`).  `StoreInv` says that the
  blocks together are the content up to the read position, and, as long as no
  block in the middle is short, that block i holds the bytes from
  `(i - 1) * BufSize`.  `LateInv` says that what is stored and what the clients
  wrote agree but for the places in `late` (`ConvertStoresAll`): a client may
  write anywhere at any time, and those are the bytes the code loses.
  `ReadInv` is about regular files: `Progress` says that what the
  call has is the content from `start` to `curoff`, that a `preadv` still asks
  for all that is missing unless the file is at its end, and that `dzfile_get`
  is at a multiple of `BufLen` or at the end.  The arithmetic is in two lemmas:
  `BlockAt` (no conversion to int wraps around, `validbytes` is what is left of
  the block, and it is 0 only at the end of the file) and `NoBlock` (a dataset
  is missing only at the end of a file whose last block is full).  From these
  follow `PreadExact`, `PreadInside`, `GetCopiesAll` and `PreadCopiesInside`:
  none of `ReadExact`, `ReadInside`, `GetCopies` and `CopyInside` is inductive,
  since they say nothing of a call that has not returned.  `GetCopiesAll` needs
  the multiple of `BufLen`: the read that fails begins at the end of the file,
  and so loses nothing.  It and `PreadInside` speak of calls without `fault`.
  `PreadTurnMoves` needs `CountInv`, that what is left of a call is less than it
  was asked for: for a call of less than 4 GiB it holds in every file, regular
  or not, and for longer ones in a regular file from an offset inside of it.
- **FoldFacts.**  `MapThenSumSet`, `FoldSeq` and `FlattenSeq` of the community
  modules are defined by recursive functions that are chosen.  The lemmas show
  that the chosen function exists and is unique, and from that what a sum or a
  concatenation does when a summand changes, an element comes or goes, or a
  sequence gets longer.  The library's induction theorems take the statement as
  an operator and cannot be used here, so each induction is a minimal
  counterexample: a smallest set (`MinimalSubset`) or number (`LeastNat`) for
  which the statement fails, and a smaller one for which it fails too.

Every invariant and action property that a run checks is stated by a theorem,
but those of the runs that find a disagreement, which are false.  Only
model-checked is liveness, which needs fairness: `CompressedOrExited`,
`AllRun`, `Joins`, `ReadEnds` and `ToolEnds`.  `TurnMoves` is what `ReadEnds`
rests on beside fairness: within `CountFits`, `curoff` grows, stays below the
end of the blocks while it grows, and stands still for one turn only.

## 5. Assumptions and omissions

- HDF5 is a threadsafe build; it refuses to create a file the process has open,
  and to open one another process is writing (its file locking).
- `Exclusive` in `DzStore` is an assumption on the environment, not something
  the code ensures: that walker and clients keep off each other's files.  The
  run without it, `store_rawfd`, shows what happens otherwise.
- Lengths inside a block are in `H5Pread`, partial buffers of `dzfile-put` in
  `Put`, and not in the other modules.
- Clients are single-threaded processes, as every program of the repository
  is: `dblock`, which `get_space_entry` unlocks twice
  (`dz-sqlite-ifce.c:266`), has no second owner.
- ZeroMQ accepts every message: its queue, the limit of it and the receiver are
  outside of the repository.  `data_path` is the directory that the set-up
  script makes.
- Sub-directories of `data_dir`, names of `.dzs`, and clients that bypass the
  library are left out.  A directory called `.x.DZF` is in `Convert` and
  `Walker`, not in `DzStore`.
- `H5Pread` has a client's writes next to the conversion but not its
  `ftruncate`, no negative offsets, and takes the source of `dzfile_get` for
  opened.  The hidden name that `convert2h5` allocates once more is there
  whenever it gets that far: without it the function returns at its top, which
  is a conversion that did not begin.

Not modelled, and why:

- the library's wrappers of one system call (`dzfile_lseek`, `dzfile_mkdir`,
  `dzfile_sync`, ...), the filter of `dzfile_readdir`, `dzfile_dstat` and
  `get_space_entry`: they keep and change no state;
- `dzfile-ls`, `dzfile-cat`, `dzfile-info`, `dzfile-convert`: options and
  printing around calls that are modelled; `dzfile-convert` is a thread of
  `Convert` in another process, to which `convert_race` applies;
- the notification queue (above), logging, configuration parsing;
- the FPGA and ISA-L back ends: driver code of one device that only a test
  program calls, and a back end that is not built; the set-up scripts.

## 6. Plan

Done, in this order: `Convert`, `Walker`, `ThreadPool` over `TaskQueue`,
`H5Pread`, `DzStore`, `Put` and its locks, `PutTool` with the life cycle and
the database, and the proofs above, those with folds and division last.

What could come next: threads inside a client, which would bring `dblock` and
the hash map without a lock into reach; reading the `space` table by
`dzfile_dstat` once somebody says what it should show; and a walker with
sub-directories.
