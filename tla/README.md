# Donkey file system: TLA+ models and proofs

Donkey (`dkfs`) is a small inode-based file system, mounted through FUSE by
`mtdk` and created by `mkdk`. This directory holds its verification project:
models of the free-space allocator, of the content and the extended attributes
of files, of the mounted file system and of `format`, the configurations that
check them with TLC, and TLAPS proofs about the allocator, `format`, the
mounted file system, `readdir` and extended attributes.

## The system

| Part | Source | State | Operations |
|---|---|---|---|
| Free-space allocator | `dkfs/src/lib.rs` (`allocate_*`, `free_*`, `flush_sb`) | super block in memory and on the device; a list of free extents stored in the free space, one per region (inodes, data blocks) | allocate a unit, free a unit, flush the super block |
| Donkey | `dkfs/src/lib.rs`, `file.rs` | `opened_files`, `opened_dirs`, two close lists, inode table and directory content on the device | `mknod`, `mkdir`, `link`, `unlink`, `open`, `open_dir`, closing what is on the lists, `Drop` |
| DkFile: block tree | `file.rs` | inode with direct and tree pointers, position, dirty flag, `ptr_cache` with one pointer block per height | read, write, `update_size`, `flush`, `destroy` |
| DkFile: extended attributes | `file.rs`, `ops.rs` | a map in memory, one data block on the device, found through `inode.xattr_ptr` | `read_xattr`, `write_xattr`, get, set, list, remove |
| readdir | `ops.rs`, `file.rs` | a `DkDirHandle` keeps a snapshot of the entries | list from an offset, with the attributes of every entry |
| Format | `lib.rs`, `block.rs`, `device.rs` | the super block in memory and on the device | `format`, `create_root`, `open`; positions of inodes and blocks |
| DkDir | `file.rs` | entries, dirty flag, a file handle | `flush`, `read_fully`, add and remove an entry |
| Handle | `ops.rs` | none of its own | the library's operations, compositions of Donkey's |
| mtdk | `mtdk/src/main.rs` | `file_fh`, `dir_fh`: the handles of open file descriptions | one handler per FUSE call |
| Devices, blocks, conversions, mkdk | `device.rs`, `block.rs`, `replies.rs`, `dk2fuse.rs`, `fuse2dk.rs`, `mkdk` | none, or pure I/O | |

How they interact: the kernel calls a handler of mtdk; the handler calls one
operation of Handle, which opens inodes and directories through Donkey and
drops the handles when it returns. Dropping a handle puts the inode number on a
close list. Nothing is closed at that moment: the next `open` or `open_dir`
works the lists off first, and only then is an inode without handles written,
or, if it has no link left, destroyed. Everything runs on one thread.

What is hard here is not concurrency. It is

* the order of device writes in the allocator: a crash or a failed write can
  fall between any two, and the lists in memory and on the device share nodes;
* the long protocol of caches, reference counts and close lists: an inode's
  link count or a directory's content may be in the cache, on the device or
  both, and is moved from one to the other in the middle of unrelated calls;
* the pointer cache of a file: a pointer block is in memory, on the device or in
  both with different content, and is written back when another takes its place;
* full disks and exhausted inodes, where one step of several fails: attributes
  get their block when the file is closed, during a call for something else;
* `format`'s u64 arithmetic on devices of any size, and its interruption.

What makes the parts correct: the allocator never hands out a unit twice and
never loses one; link counts equal the number of directory entries; unlinked
inodes live exactly until their last handle is released and are then
reclaimed; nothing dirty is left behind; every block of a file has one place in
its tree; what `format` leaves fits the device, with its regions apart; and
users never notice any of it.

## Modules

| Module | What it is |
|---|---|
| `FreeList` | the allocator for one region, one step per device write |
| `Allocator` | what its callers rely on: a set of free units |
| `FreeListProofs` | TLAPS proofs: the invariants of `FreeList`, that it implements `Allocator`, and that its counters cannot wrap, also when a list is lost |
| `Donkey` | the operations of struct `Donkey`, `DkFile`, `DkDir` and the handles' `Drop`, as operators from state to state |
| `Handle` | the operations of `ops.rs`, composed of Donkey's |
| `DonkeyFuse` | the mounted file system: one action per FUSE handler, and remounting |
| `FileSystem` | what users rely on: a file system without cache or device |
| `InductionProofs` | induction and folds over finite sets, in a form that takes no predicate as parameter |
| `DonkeyProofs` | TLAPS proofs about the tree of a file system and about the operators of `Donkey`: what each method keeps and what it does to the tree |
| `DonkeyFuseProofs` | TLAPS proofs: the invariants of `DonkeyFuse`, and reclaiming at release |
| `FileSystemProofs` | TLAPS proofs: exact link counts, and that `DonkeyFuse` implements `FileSystem` |
| `ReadDir` | a listing that goes on while `DonkeyFuse`'s calls happen |
| `ReadDirProofs` | TLAPS proofs: a listing is complete, and fails only over a reclaimed inode |
| `DkFile` | the content of one file: pointers, `ptr_cache`, flushing |
| `PlainFile` | what its users rely on: a map from positions to values |
| `Xattr` | extended attributes of several files, the close list as a stack, full disks |
| `Attributes` | what their users rely on: one map per file |
| `XattrProofs` | TLAPS proofs: the invariants of `Xattr`, and that it implements `Attributes` |
| `Layout` | the arithmetic of positions and sizes on a device |
| `Format` | `format` and `open`, one step per device write |
| `FormatProofs` | TLAPS proofs about `Format` |
| `MCFreeList`, `MCDonkeyFuse`, `MCReadDir`, `MCDkFile`, `MCXattr`, `MCFormat` | TLC instances |

Definitions marked "Mutant" are variants of the definition that follows them,
each with a plausible mistake. No specification uses them; they show that the
property they are listed with in `PROJECT.json` can fail.

### FreeList

`node[u]` is what the device holds at the start of unit `u` (a free-list node or
other data), `disk` and `sb` are the list head and counter of the super block on
the device and in memory, `op` is the call in progress, and `owned` are the
units that callers hold. `allocate_inode`/`allocate_db` is `Allocate`,
`AllocateFromFree`, `FinishAllocate`; `free_inode`/`free_db` is `Free`,
`PushNode`, `FinishFree`. `DeviceError` ends a call at one of the steps in
`Faults`, as the `?` operator does. `Crash` restarts from the super block on the
device. `chain` and `dchain` are auxiliary: the extents of the two lists, so that
"well-formed list" needs no recursion.

The search reads the node of the unit it is at, whatever that unit holds; other bytes decode
as any node (`ReadNode`). `TakeFrom` follows the program only while the remaining
extent starts inside the region, which the code does not check: a list that is lost may
lead it further.

Sizes are counted in units. That is exact: `format` and `free_*` only create
extents of whole units (the device size is a multiple of the block size), and a
unit is larger than a node, so an extent is split exactly when a unit is left.

`owned` is what the file system in memory would give back; `Crash` keeps it. That
the inodes on the device agree with it after a crash is not claimed.

### Donkey, Handle, DonkeyFuse

The state is one record `dk` (see `Donkey`): free inodes, number of free
blocks, inode table, directory content, the two caches, the two close lists and
the number of handles. `Rc::strong_count` is `FileRefs` and `DirRefs`. An operation
is an operator from state to state that makes the same calls in the same order
as the code, handles cloned and dropped included. `DonkeyFuse` makes each handler
one step, which is faithful because the session is single-threaded.

Abstractions:

* a node is a directory or not; symbolic links and devices are files, and the target of
  a link is content of one block, which a failed `symlink` leaves out: `FileSystem!Symlink`
  makes a file of size 0 or 1. Of the mode only the set-id bits are kept, which `open`
  clears and `chmod` sets;
* content is empty or one block; truncation is to size 0. Directory content is
  kept, file content is not;
* an allocation takes any free inode: that is `Allocator`, which
  `FreeListProofs` shows the free list to implement;
* `close_dir_list` without earlier duplicates and `close_file_list` as a set:
  popping an inode that is closed or has handles does nothing, and closing one
  file does not affect another;
* a device that does not fail; extended attributes and `readdir` are in modules
  of their own.

The guards of the actions that are not in the code are the kernel's (external):
directories are alive, names exist or not as the call requires, `rename` does not
move a directory below itself, inode numbers come from a link or an open handle.

`rename` in `FileSystem` is the one the code implements, with the `..` it leaves
behind, so that the refinement runs pass; whether it is right is a question of
its own (`move_directory`).

### ReadDir

`ReadDir` extends `DonkeyFuse` with `list`, one listing of the root: the handle's
snapshot of the entries, the offset, the names listed so far. `StartListing` is
`opendir`, `FuseReaddir` the handler of mtdk, `EndListing` `releasedir`;
`LibraryReaddir` is a user of the library who takes `Room` entries at a time. The
handler calls `getattr` for every entry, which works off the close lists, so the
entries may be reclaimed while it runs. What the slot of a reclaimed inode
decodes as depends on the number in its free-list node: an error or, when the
mode has no file type, a panic; both are allowed.

### DkFile and PlainFile

The state `f` is the device's blocks, the free list, the inode on the device, and,
when the file is in `opened_files`, the inode in memory, `ptr_cache` and the
dirty flag. `locate`, `locate_alloc`, `free_file_db`, `clear_pointers_rec`,
`update_size`, `dk_read` and `dk_write` are operators that make the same calls in
the same order, write-backs of evicted pointer blocks included. `StartFlush`,
`FlushPtrs` and `FlushInode` make a flush one step per device write; `Crash` may
come between.

Abstractions: positions and sizes count cells, `BS` to a block; one file; the
free list is a stack whose changes reach the device at once (that is `FreeList`'s
subject); the device does not fail, but its blocks run out. `sane` turns false
where the program would go on with a block decoded as something it is not, or
with a block freed twice; nothing is claimed after that.

`PlainFile` is a map from positions to values with a durable copy that a flush
makes. Cells that nobody wrote may hold anything, since allocated blocks are not
cleared, and a read may end before one, since a hole ends a read.

`ColdSpec`, which the run `file` checks, restricts the program in two ways that
the further divergences below explain: a file is shrunk and destroyed only while no
pointer block is cached, and in behaviours with crashes nothing is freed.

### Xattr and Attributes

The record `x` holds the free blocks in memory and on the device, blocks, the
inode table, the directory's entries, `opened_files`, the kernel's handles, and
`close_file_list` as the stack with duplicates that it is: unlike in `Donkey`, it
matters here in which order files are closed, because closing one fails when
there is no block for its attributes, and the rest of the list, and the call that
wanted it worked off, is left where it was. `n` in the actions is the number of
device writes after which the process dies, or `Lives`; the field `left` counts them
down while a call runs, and a write that comes when it is 0 does not happen. So a call
is one step that may end after any prefix of its writes.

Abstractions: one directory holds the names and never fails; files have no data;
a key takes one byte and a value as many as its number says; `mknod`'s inode is
one of `Ino`, as in `Donkey`. `ParentOpen` says whether the directory may be, or may not be, in
`opened_dirs` when a call looks a name up; if it is, the first file list that the call
works off is that of `link` or `unlink`, after the entry has changed. The model stops (`lossy`) once
link counts and names have parted: after a call that failed there, and when a mount
in which a call failed ends with link counts that were not written. `LinksFollowNames`
speaks of the step that leads there too.

`Attributes` gives every file a map, and a second one that a restart returns to.
A failing call changes nothing; a flush that succeeds has saved the file; and
without failures an unmount, or the release of a file's last handle, has saved
it too.

### Layout and Format

`Layout` has `format`'s formulas, `Inode::ptr` and `Inode::ino`, and the bounds
check of `Device`, in u64 arithmetic that wraps (`Word`), as in a release build. A
debug build panics where this one wraps. `Format` is `format` and `create_root`, one
step per device write, each of which fails when it is out of bounds; `Stop`
ends the process anywhere, and `Open` mounts what is there. Serialized blocks are
records, their lengths constants (`SuperBlockLen`, ...). `at` holds what is at the
few places that `format` writes.

## Runs

| Run | Configuration | What it shows |
|---|---|---|
| `free_list` | 4 units, crashes, errors while allocating | both lists are well-formed at every step and agree with their counters, nothing is handed out twice, the search never goes past the head, every call returns, `Allocator` is implemented |
| `free_list_head` | 3 units, errors also when a freed node is written | violation: the head is not a free node |
| `mount` | 3 inodes, 1 name, all calls | no wrap-around, nothing stranded in a cache, every block accounted for, `FileSystem` is implemented |
| `tree` | 3 inodes, 2 names, no chmod, truncate or write | link counts, no leaks, reclaiming at release, `FileSystem` is implemented |
| `files` | 2 files, 2 handles per file, 2 blocks, no subdirectories | on a full disk: every block accounted for and `FileSystem` is implemented; a failed write changes nothing for users, a failed symlink leaves an empty one |
| `move_directory` | as `tree` | violation: link counts after moving a directory |
| `full_disk` | 1 block | violation: a directory's content is lost |
| `listing` | as `tree`, a reply has room for the whole directory | a listing is the directory as it was opened, and fails only over an inode that was reclaimed |
| `file` | direct blocks and trees of height 1 and 2, 2 cells a block, 5 blocks, crashes | no block has two places or is lost, `PlainFile` is implemented |
| `file_shrink` | 2 direct blocks and a tree of height 1 | violation: shrinking loses blocks that are still wanted |
| `xattr` | 2 files, 2 keys, 1 block, crashes | no attributes' block is shared or lost, link counts part from names only where the program reports an error, `Attributes` is implemented |
| `format` | 42 lengths around the boundaries, 10 ratios | `format` fails only on a device that is too small, and what it leaves, interrupted or not, is sound |

Bounds. `Count = 4` units gives lists of up to four extents in any order and
extents that are split several times. Three inodes are the root and two others:
enough for a directory in a directory, a file in a directory, a move
between directories and a rename over a node, with inodes reused after they are
freed. Two names per directory give hard links and renames in place.
`MaxHandles` bounds the open handles per inode and kind; one shows everything but two
handles on one file, which `files` has. With `Blocks = 3` every inode can have its
block; `files` has one fewer. Link counts are bounded by the names.

`file` has one direct pointer, two pointers to a block and trees of height 1 and 2,
the first is block 0, the trees lead to blocks 1, 2 and to 3 to 6. A write of two
cells at position 1 crosses from the middle of the direct block into the tree of
height 1, one at 6 fills a block of the tree of height 2. Together they need six
blocks, pointer blocks included, so that with five the second one runs out half-way.
The size 7 cuts in the middle of a block. Two heights show eviction and write-back
at each level; a third one would only repeat the middle case, except for one thing,
listed as a hazard.

`xattr` has one block for two files, so one of the two cannot be closed; `Room` is
enough for every set of attributes. `MaxClosing = 2` bounds the close list between
calls: it is worked off by nearly every call, so it is longer only after several
failures in a row. `MaxWrites = 7` exceeds the device writes of any call, and a crash
happens after any number of them. Files and keys are symmetric. The view leaves out
the last reply and `inode.blocks`, which no step reads.

`format` checks every device of up to 20 blocks, with lengths that are and are not
whole blocks, and ratios from 1 to 65536 bytes, so that tables of no inode, tables
that end with or within a block, and tables larger than the device occur. `Word` is
2^30 there, since TLC's numbers have 32 bits; the proofs are for any
`Word` above 2^20, of which 2^64 is one.

The runs of `DonkeyFuse` and `ReadDir` use the view `Observed`, which leaves out
what no step reads again: entries of a close list for inodes that are not cached or
have handles, and what the device holds of something whose cached version is dirty.
`free_list_head` leaves out the auxiliary chains.

`crashes`, in `DkFile` and `Xattr`, is chosen once: a behaviour either may crash, and
then frees no block, or may free, and then does not crash. Freeing and crashing
together loses data (see below), and would hide everything else.

Deadlock is checked in every passing run but `listing`, which ends with a panic, and
`xattr`, which stops at `lossy`.

Fairness. Only `free_list` has a liveness property, `CallsReturn`, under weak
fairness of the steps inside a call: the code of a call runs on unless the
process dies or the device fails, and both of these also end the call. No
fairness is assumed of callers, errors or crashes. In the other modules a call is a
step, or is cut off by a crash; there is no thread or event that something could
wait for, and so nothing that could be owed eventually: an unlinked file is
reclaimed when somebody makes the next call, which `ReleaseReclaims` and `NoLeak`
state as safety.

## Findings

Each has a run that ends with TLC's counterexample.

* `free_*` moves the list head before it writes the node (`lib.rs:438`). If that
  write fails the head designates a unit that is in use.
* `rename` of a directory to another parent does not touch `..` (`ops.rs:285`), so
  both parents' link counts are wrong; removing the old parent leaves its inode
  allocated until the moved directory is removed too.
* On a full disk `mkdir` succeeds; the new directory's content is lost when it is
  closed, because dropping the `BufWriter` ignores the error (`file.rs:517`).
* `free_file_db` frees all twelve direct blocks when a file shrinks to any size
  below twelve blocks (`file.rs:390`), the ones still wanted included.

### Further divergences

TLC shows these as well, with the configurations named; `tlc -config X.cfg`
on the module that the name starts with. The passing runs stay clear of them where
they would hide everything else, as the last column says.

| Configuration, property | What the code does | In the passing runs |
|---|---|---|
| `MCDonkeyFuseSync`, `NeverPanics` | `fsyncdir` with `datasync = false` borrows the Donkey twice and panics (`ops.rs:253`) | `datasync` only |
| `MCDonkeyFuseSymlink`, `SymlinkHasTarget` | on a full disk `symlink` fails after it has linked the node and leaves an empty link, so that a second attempt finds the name taken (`ops.rs:315`, `330`) | `FileSystem` allows it |
| `MCReadDirGone`, `NeverPanics` | `readdir` takes the slot of a reclaimed inode for an inode and panics on its mode (`main.rs:535`) | allowed to fail there |
| `MCReadDirFull`, `ListingNeverFails` | a directory that does not fit one reply is never listed: the full reply is not sent (`main.rs:542`) | everything fits |
| `MCReadDirPages`, `ListingComplete` | `Handle::readdir` skips the offset twice and leaves entries out (`ops.rs:85`) | one page |
| `MCDkFileDangling`, `FreedIsCleared` | a cleared pointer inside a pointer block is not written back, so a partly cleared tree points to free blocks (`file.rs:435`) | no such size |
| `MCDkFileTruncate`, `EmptyHasNoBlocks` | pointer blocks only in `ptr_cache` are not looked at when a file is cut to size 0 (`file.rs:430`) | shrunk with an empty cache |
| `MCDkFileUnlink`, `DestroyReleases` | the same when a file is destroyed | the same |
| `MCDkFileStale`, `FreeIntact` | a freed pointer block stays in `ptr_cache` and is written over the free list's node later (`file.rs:387`) | the same |
| `MCDkFileFailed`, `DestroyReleases` | a failed first write leaves pointer blocks in a file of size 0, which `destroy` does not release (`file.rs:372`) | blocks suffice for a first write |
| `MCDkFileHole`, `NothingOnlyAtEnd` | a hole looks like the end of the file (`file.rs:341`) | `PlainFile` allows it |
| `MCDkFileFar`, `LevelFound` | an offset beyond the last tree reaches `unreachable!()` (`file.rs:154`) | positions below it |
| `MCXattrLink`, `NlinkCountsNames` | `link` and `unlink` change the directory and then close other files; if that fails the link count stays as it was (`lib.rs:375`, `384`) | it happens, and `LinksFollowNames` says that nothing else does |
| `MCXattrLost`, `LostOnlyWithMessage` | an inode whose closing failed once is on no list and is forgotten at unmount without a message (`lib.rs:232`, `464`) | `Attributes` allows it after an error |
| `MCXattrBlocks`, `BlocksCounted` | `inode.blocks` is not counted down with the attributes' block (`file.rs:112`) | left out of the view |
| `MCXattrLarge`, `ImplementsAttributes` | attributes longer than a block are written over the next one (`file.rs:127`, `device.rs:46`) | they fit |
| `MCXattrBuffer`, `EnoughIsAnswered` | a buffer larger than the answer gets `ERANGE`, a smaller one gets the answer (`main.rs:642`, `670`) | `Attributes` promises the exact size only |
| `MCFormatAgain`, `MountedHasList` | a device in use that is formatted again and interrupted mounts, with a list head that is no node (`lib.rs:126`) | new devices |

## Proofs

`FreeListProofs` proves, for any number of units and with crashes anywhere:

* `TypeCorrect`, `ListsSafe`, `CountersExact`, `UnitsSafe`, `SearchStopsAtHead`:
  `Spec` implies the invariants `TypeOK`, `ListsWellFormed`, `SpaceAccounted`,
  `NoDoubleUse`, `HeadHasRoom`;
* `Refinement`: `Spec => ImplementsAllocator`.

`CountersExact` says that the used and free units of the super block add up. A unit taken by
a call whose `flush_sb` then failed counts as used, and nobody holds it.

All are under `AllocFaultsOnly`: the device may fail in the steps of an
allocation, not in those of `free_*`. It is needed: `free_list_head` shows what a
failure in `free_*` does. The other assumptions are that a region has at least one
unit and that `Data` is not a node.

The invariant `Inv` adds two facts to the invariants the run checks. One is
`SharedNodes`: the
super block in memory can run ahead of the one on the device (a `flush_sb` that
failed) while the two lists share nodes in the free space; a node of the device's
list that lies in the free space of the list in memory is a node of that list
too, so that splitting an extent never overwrites a node that a crash would
return to. The other, `CallInProgress`, ties `op` to the lists: which unit the call
in progress holds and where it is. The argument is local: an allocation changes
only the last extent of `chain`, a free appends one, so lemmas on sequences
of extents (`TakeWhole`, `TakeFront`, `PutFront`, `Untouched`) and one on
cardinalities (`Counting`) carry each action's step lemma.

The last section of `FreeListProofs` proves `CounterNeverWraps`, `Spec => []CounterCoversOwned`, under a
weaker assumption, `FreesAreFlushed`: also the write of a freed node may fail, after
which the lists are lost and none of the invariants above holds. So the argument does
without lists. `CounterInv` compares the number of units that callers hold with the
counter: in memory it may be one ahead or behind while a call is between changing the
counter and returning; on the device, which a crash returns to, it is never below.

`FormatProofs` proves, for every device length and every ratio of bytes per inode:

* `TypeCorrect`: `FormatSpec => []TypeOK`, sizes and counts stay `u64`, also when the
  computed ones wrap and when the process ends anywhere;
* `FailsOnlyTooSmall`: `format` fails only if the device has no room for an inode,
  the table and a data block;
* `FormatIsSound`: what it leaves is laid out soundly (`FormattedIsSound`);
* `InterruptedIsSound`: so is a new device whose formatting was interrupted and
  whose root can be read.

The assumptions are that a ratio is positive, which `format` divides by, and that a
device is shorter than 2^55 bytes (`Lens`, 1/512 of `Word`): a table of one inode per
byte then does not make the position after the table itself wrap. The differences
in `db_count` and `FreeBytes` do wrap when the table does not fit, and the
proof has to show that this is noticed: the invariant says that the position of the
first data block is where no write fits. The rest of the invariant says which places
have been written, and with what, at each step.

`DonkeyFuseProofs` proves, for any number of inodes, blocks, names and handles, and
also on a full disk:

* `TypeCorrect`, `NothingStrandedAlways`, `NoLeakAlways`, `BlocksAccountedAlways`:
  `Spec` implies `TypeOK`, `NothingStranded`, `NoLeak` and `BlocksAccounted`;
* `ReleaseReclaimsAlways`: `Spec => ReleaseReclaims`.

The assumptions are that inodes and names are finite sets, that `.` and `..` are not
among the names of the calls, and that `Nil` is none of the values it is compared with.

The hard part is that nearly every call works the close lists off on its way, which
writes, destroys and frees inodes that have nothing to do with the call, in the
middle of it. `TypeOK` is far from inductive: a link count does not wrap because entries
and links agree over caches and device, an inode is not opened when it is free because
some entry leads to it, and that entry's directory is not reclaimed because something
leads to it in turn. The invariant `Inv` consists of

* `Coherent`: for each inode (`Sound`), what its slot on the device, the two caches,
  the close lists and the handles say about it fits together, and blocks add up
  (`Accounted`);
* `Kept`: what is cached has a handle or is on its close list;
* `Sane`, of the tree as users see it (`Tree`, a function from inode numbers to
  nodes): a node has at least as many links as entries leading to it (`Covered`), names
  lead neither to their own directory nor to the root (`Proper`), and the root is
  linked;
* the bound on handles.

`Sane` bounds the entries by the links and does not equate them, because equality is
false on a full disk: there a directory that is closed loses its entries (`full_disk`)
and the links they stood for stay counted. What a close list does to the tree is the
relation `Calm`: nodes without a link disappear, and, without enough blocks,
directories lose their entries. Between the steps of a call one more fact is carried:
a node is `Held` by an entry or a link, even if one given entry, the one the call may
remove, is left aside. That is why a directory with a name outlives the call that
removes something from it.

`DonkeyProofs` shows for each method of `Donkey` what it keeps and what it does to the
tree; `DonkeyFuseProofs` does so for the operations of `Handle` and for the handlers, with
the kernel's guards, and then takes the steps together. The close lists are worked off
by folds over a set and over a list. Library theorems about folds and induction have a
predicate as parameter, which none of the provers can instantiate; `InductionProofs`
therefore proves, from well-foundedness of `<`, an induction over the subsets of a finite
set in which the predicate is the set of subsets that have it.

`FileSystemProofs` proves, for any number of inodes, names and handles:

* `NlinkCountsEntriesAlways`: `Spec => []NlinkCountsEntries`;
* `Refinement`: `Spec => ImplementsFileSystem`.

Both are under `EnoughBlocks`, a block for each inode, without which they are false for
the reason above (`full_disk` has fewer; `mount` and `tree` have as many, and `files`,
with fewer, has no subdirectories). The strengthening is `Precise`: `Exact`, that links and entries
are equal for every node, and `Shaped`: files have no entries, a directory that can be
reached has `.` and `..`, one that cannot has neither, and a directory has one name. The
shape is needed because `rmdir` removes three entries when the directory has two
entries left; that these are the two it means is not checked by the code.

The refinement mapping shows the tree without the nodes that have neither links nor
handles. Working off a close list is invisible in it (`ShownCalm`), so each call has to be
compared with `FileSystem` only for what it does itself (`MknodSim` to `ReleasedirSim`):
an inode that is allocated while it is still cached counts as free (`Vacate`), and
the size that `symlink` sets last may as well be set first (`SizeFirst`).

`ReadDirProofs` proves, for any number of inodes, names and handles and a reply of any
size, also on a full disk:

* `ListingTypeCorrect`: `ReadDirSpec => []TypeOK`;
* `ListingCompleteAlways`: `ReadDirSpec => []ListingComplete`;
* `FailsOnlyIfReclaimedAlways`: `ReadDirSpec => FailsOnlyIfReclaimed`, which speaks of
  directories that fit one reply: a larger one fails for another reason
  (`MCReadDirFull`).

The assumptions are those of `DonkeyFuseProofs`, and that `NameOrder` has each name
once. The invariant `ListInv` is `Inv` of the mount, the type of `list`, and
`Progress`: the listing is at its start, with nothing reported, or at its end, with
all of its snapshot; there is no state in between, since a reply that is not the last
is never sent. That the mount's invariant survives is the larger part, and
not implied by `DonkeyFuseProofs`: the `getattr` of each entry opens an inode that may
have been unlinked since, and works off the close lists in the middle of the listing.
Reading one from a slot that is free ends the listing (see `MCReadDirGone` for how the
code does); any other is opened, and dropping the handle leads back to what was there;
what the entries before it did to the tree is `Calm`, so an inode gone then is gone at
the end, which is what `FailsOnlyIfReclaimed` says. The loop over the entries is a fold,
and the induction over its length is again that of `InductionProofs`.

`XattrProofs` proves, for any number of files, blocks, keys, values, names and handles,
close lists of any length, full disks, and crashes between any two writes:

* `XattrTypeOK`, `BlocksOwnedAlways`: `Spec` implies `TypeOK` and `BlocksOwned`;
* `LinksFollowNamesAlways`: `Spec => LinksFollowNames`;
* `AttributesRefinement`: `Spec => ImplementsAttributes`.

They are under one hypothesis, without which they are false: `AttributesFit`, every map
of attributes fits a block (`MCXattrLarge` has one that does not and shows the
block behind it overwritten). The run `xattr` satisfies it. Whether a directory is open
already is left open, as it is in the run. The other assumptions, of the module
itself, are that bounds and sizes are numbers and that `Nil` is no inode in memory.

The invariant `Inv` has to hold after every prefix of a call's writes, so it comes in
layers:

* `Disk`, which also a crash leaves: a block that an inode on the device leads to
  holds attributes that are not empty, is not free and belongs to no other inode. It needs
  the order in which `flush` works: the block is taken from the free list first, then
  written, then the inode (`AttributesWritten`);
* `Live`, of a process that has not died: the free lists in memory and on the device
  agree, what is cached and clean is what the device has (`Cached`), link counts are the
  number of names, and without crashes no block is lost. Within `link` and `unlink` a link
  count is the number of names that there were before: `Disk` and `Live` have that number
  as a parameter, `names`;
* `Kept`: as long as no call has failed, what is cached has a handle or is on the close
  list. After a failure it is false (`MCXattrLost`).

Once link counts and names have parted (`lossy`) only the part about the blocks remains
of it. `LinksFollowNames` is about the step before: a call that has changed the directory
and fails leaves the link count of every file as it was (`FollowsOf` and the handlers'
lemmas), and an unmount loses a count only after a failure.

For the refinement each operator has a relation for what it does to the attributes of
every file: in `Calm` they stay, are saved, or are reclaimed with a file that has neither names
nor handles. `CloseOK` shows that of closing one file, `TurnOK` and `CloseListOK` of the
list, of any length and in whatever order, up to the first failure. Each handler is
then a step of `Attributes` (`SetxattrOK` to `UnmountOK`).

Only model-checked:

* `CallsReturn`, since liveness is out of the prover's reach;
* `DkFile`: `TypeOK`, `TreeSound`, `BlocksCounted` and the refinement of
  `PlainFile`. The trees are recursive in their height; the module declares
  recursive operators, which the SMT backend does not know, and what they compute would
  need an induction over data that the provers cannot do;
* the further divergences, whose properties are false.

Leaves that need more than the provers' default time name the prover and a limit
(`SMTT(30)`, `ZenonT(60)`).

## Not modelled

* Devices beyond their bounds check, and bincode: pure I/O. What a block is decoded
  as, when it holds something else, is in the models that read it.
* A device that fails, except in `FreeList` and, for its bounds, `Format`.
* Conversions between FUSE and library types: no state.
* Command lines, logging, the daemon (`mkdk`, `mtdk`'s start-up), `statfs`.
* The end of a session while handles are open: `DonkeyFuse` holds the library's
  `Handle` and the open handles in one struct (`main.rs:94`), whose fields are dropped
  in that order. Remounting is modelled with all handles released.
* `mkdir` and `mknod` allocate an inode before they work off the close lists
  (`lib.rs:363`) and may report `Exhausted` though the close lists would give one
  back; `FileSystem` lets any call fail, so it does not tell.
* A crash between freeing a block and writing the inode that points to it
  (`file.rs:392`, `112`); nothing in the code promises anything then.
* Several files that share one device's data blocks: `DkFile` has one file; that two
  callers never get one block is `FreeList`'s `NoDoubleUse`.

## Plan

1. Proofs: the pointers of `DkFile`, for trees of a fixed height, once its recursion is
   written as functions of the height.
2. Crashes in `DonkeyFuse`: what a restart finds when the caches were not written.
3. A property about spurious `Exhausted` errors.
