# TLA+ models of btrfs-progs `check` and `restore`

This directory holds TLA+ models of the offline checker (`btrfs check`) and the
restore tool (`btrfs restore`) of btrfs-progs. The source is
`src/unnamed/part_000` and `src/cmds-restore.c`. `part_000` is `cmds-check.c`
(lines 1–4222) followed by `ctree.c` (lines 4223–7177). Each model is written
from the C code, and `PROJECT.json` maps every definition to the lines it
translates.

## The system

`btrfs check` reads an unmounted filesystem image and runs several phases in turn
(`cmd_check`):

1. **Extent reconciliation (C6, `check_extents`).**
   - Every tree block reachable from a root is queued in the order that
     `pick_next_pending` derives from block addresses, then read by `run_next_block`.
   - Node pointers and file extent items are the references the walk *finds*.
   - Extent items and keyed back-reference items of the extent tree are the
     references the extent tree *declares*.
   - Both kinds meet in one `extent_record` per extent, whose back references
     carry the two flags `found_ref` and `found_extent_tree`.
   - `maybe_free_extent_rec` drops a record as soon as it balances.
   - When the walk is over, `check_extent_refs` reports every record still held.
2. **Free-space cache verification (C7, `check_space_cache`).** Cross-checks the
   free-space cache of each block group against the extent tree.
3. **File-system tree walk (C4/C5, `check_fs_roots`).**
   - Walks each fs tree depth first and accumulates inode and directory records.
   - A subtree shared between snapshots is recognised (`enter_shared_node`). Its
     records are merged into each tree that shares it (`merge_inode_recs`).
4. **Checksum verification (C8, `check_csums`).** Checks that every checksum
   range is covered by an extent.
5. **Root reference check (`check_root_refs`).**

With `--repair`, the repairer (C9) rewrites the extent items of broken records.
It uses the tree operations of `ctree.c` (C3). Those operations call back into
the checker through `free_extent_hook`.

`btrfs restore` (C10) picks a tree and a first directory (`cmd_restore`, with
`-r` and `-d`/`find_first_dir`). `search_dir` walks the directory's DIR_INDEX
items: it creates and fills each regular file with `copy_file`, and recurses
into each directory, switching trees at a subvolume or snapshot entry.
`copy_file` copies each extent with `copy_one_extent`, which retries other
mirrors when a read or a decompression fails.

## Modules

| Module | Models | Status |
|---|---|---|
| `ExtentRefs` | C6: `check_extents`, `add_root_to_pending`, `run_next_block`, `pick_next_pending`, `check_block`, `check_owner_ref`, `add_extent_rec`, `add_tree_backref`, `add_data_backref`, `find_*_backref`, `process_extent_item`, `maybe_free_extent_rec`, `all_backpointers_checked`, `check_extent_refs` (without repair) | modelled |
| `MC_ExtentRefs` | the images that `ExtentRefs` is checked on | |
| `LeafCheck` | leaf and node validation: `btrfs_check_leaf`, `btrfs_check_node`, `leaf_space_used`, `btrfs_leaf_free_space`, `btrfs_comp_keys`, the `check_block` dispatch of ctree.c | modelled |
| `MC_LeafCheck` | every small leaf and node under every parent key | |
| `RestoreCopy` | C10 file copy: `copy_file`, `ask_to_continue`, `copy_one_inline`, `copy_one_extent` | partly (C10) |
| `MC_RestoreCopy` | files of up to two extent items over two- or three-mirror disks | |
| `RestoreSpec` | what a restore promises (spec 4.11): files are restored one at a time, and exit 0 means every wanted file not excused was restored | abstract |
| `RestoreDir` | C10 directory walk: `cmd_restore` (opening the device, tree and first directory), `open_fs`, `find_first_dir`, `search_dir`; refines `RestoreSpec` | partly (C10) |
| `MC_RestoreDir` | an fs tree with a subvolume and its snapshot, under every command line and output directory | |
| `TreeWalk` | C3 read-only search and C10 leaf iteration: `btrfs_search_slot` (cow 0, ins_len 0), `generic_bin_search`, `read_node_slot`, restore's `next_leaf`, and the item loop of `copy_file`/`search_dir` | partly (C3), C10 |
| `MC_TreeWalk` | single leaves, level-1 and level-2 trees of up to four leaves, every leaf possibly unreadable, searched for every key | |
| `InodeRecs` | C5 for one unshared fs tree: `process_one_leaf`, `process_inode_item`, `process_dir_item`, `process_inode_ref`/`_extref`, `process_file_extent`, `get_inode_rec`, `add_inode_backref`, `maybe_free_inode_rec`, `check_root_dir`, `check_inode_recs`, the end of `check_fs_root` | partly (C5) |
| `MC_InodeRecs` | a small fs tree with cross-directory hard links, an orphan and five extent layouts, each with one damage | |
| `CsumCheck` | C8: `check_csums`, `check_extent_exists` (with the search step back of `btrfs_search_slot`/`btrfs_prev_leaf`, and `btrfs_comp_keys`) | modelled |
| `MC_CsumCheck` | every layout of small extents under one or two block groups, against every small checksum tree | |

### ExtentRefs

**State:**
- `img`: the image.
- `cache`: the `extent_cache`, a function from extent start to record.
- The queues `pending` (leaves), `nodes` (interior nodes) and `reada` (the
  current batch).
- `seen`, `last`, `err` (the return value of `check_extent_refs`) and `phase`.

**Actions:**
- `StartCheckExtents`: every root is queued by `add_root_to_pending`.
- `run_next_block`: one iteration of the loop in `check_extents`. It has one
  disjunct per way the iteration can end:
  - `ReadFailed`: `read_tree_block` fails.
  - `BadBlock`: `check_block` fails.
  - `Crash`: the `BUG_ON` in `check_owner_ref` fires.
  - `ScanLeaf`: the item loop of a leaf.
  - `ScanNode`: the pointer loop of a node.
- `check_extent_refs`: the verdict.

The bookkeeping helpers are operators on the cache. Each one returns the new
cache, in the order the C code calls them, including the `maybe_free_extent_rec`
at the end of `add_extent_rec` and `check_block`.

**What is abstracted:**
- A block is a record: level, header owner, FULL_BACKREF flag, readable, valid,
  and the child addresses or items.
- Keys are kept only where they decide an outcome: the order of extent-tree
  items, and the (root, owner, offset) triple of a data backref.
- Records are found by their exact start address; the images have no
  overlapping extents.
- Messages and statistics are left out.

**The images (`MC_ExtentRefs`):**
- One filesystem:
  - the tree root;
  - an extent tree (a node over two leaves);
  - fs tree 5 and its snapshot 256, whose root nodes share two leaves;
  - those leaves reference two data extents, one of them twice.
- The extent tree's content is derived from the references the walk finds, so
  the base image is consistent by construction.
- The images range over:
  - every assignment of 4 leaf addresses in a 32 KiB window, which gives every
    read order of `pick_next_pending`;
  - the FULL_BACKREF flag on the snapshot root and on a shared leaf;
  - inline versus keyed back references;
  - every split point of the extent items between the two extent leaves;
  - one damage out of 12: wrong counts, lost refs, wrong sizes, missing or stale
    extent items, an unreadable block, a block failing validation, a wrong owner,
    a pointer cycle, a wrong owner on a root.
- Damaged images fix the relative order of the two shared leaves and of the two
  extent leaves, which keeps the run under a minute.

### LeafCheck

**The validators.** `btrfs_check_leaf` and `btrfs_check_node` are operators
that translate the C conditions in their order:
- the item count against the buffer length;
- the level;
- the free space, computed from the first item's end, the last item's offset
  and the item headers;
- the parent key, compared only when its type is not 0;
- the loop over adjacent pairs, run for C indices `0 .. nritems-3`.

**Keys.** A key is its rank in the `btrfs_comp_keys` order. Rank 0 is the
all-zero key that `rec->parent_key` holds before any pointer has named the block.

**State and action.**
- The state is the block, the parent key, the result, and the `corrupt_blocks`
  entries made by the fail path.
- `check_block` is the dispatch on the level. It is the single action.

**Reference definitions.** `WellFormedLeaf` and `WellFormedNode` state spec 8.1
and 8.2: strictly increasing keys, data packed from the end of the data area
within `LEAF_DATA_SIZE`, the first key equal to the parent key, and 1 to
`NODEPTRS_PER_BLOCK` pointers.

**The blocks (`MC_LeafCheck`).**
- Leaves of up to 3 items over 3 keys, with item sizes 0..2.
- Item data packed except at most one item, displaced by one unit.
- Nodes of up to 4 pointers, with at most 3 per block.
- Owners are the extent tree and an fs tree.
- Parent keys are a NULL pointer, the zero key, or each key.
- Loop bound: with at most 3 items the loop runs at most once. Three items are
  the fewest for which it runs at all, and 4 pointers overflow the node.
- The `nritems * sizeof(item) > len` test cannot fire with these sizes. In a
  real block the free-space test rejects any such count too.

### RestoreCopy

**State.**
- `copy_file`'s position: `slot` and `loops`.
- `copy_one_extent`'s locals: `mirror_num`, `size_left`, `bytenr`, and which
  mirror each unit of `inbuf` came from.
- The items written, whether a write read past `inbuf`, and the return value
  with its cause.

**Actions.**
- `copy_file`: one pass of the item loop.
- `ask_to_continue`: the pass in which the loop guard fires. It ends in one of
  three ways: the answer "y", the answer "n", or a crash at end of input
  (`fgets` returns NULL and its result is dereferenced, line 398).
- `ReadPiece`: the `again` label. It maps one piece, reads it, and retries the
  next mirror on a short read.
- `WriteExtent`: writing or decompressing the whole buffer, with the
  decompression retry.

**The disk and `btrfs_map_block`.**
- The disk is given per mirror as the units that read short and the units whose
  content is damaged.
- `btrfs_map_block` maps at most up to the next `StripeLen` boundary, and fails
  at or past `ChunkEnd`.

**Bounds (`MC_RestoreCopy`).**
- Mapping units of 2 and a chunk of 4 units.
- Extents placed across a mapping boundary (two pieces) and at the chunk end.
- At most one short and one damaged unit per mirror.
- Up to two items per file.
- `LoopMax` is 2 instead of 1024, so the guard fires after two items. The guard
  only counts, so the bound changes nothing else.

**Fairness.** `WF_vars(Next)`. restore is one thread, and its next statement is
always enabled until `copy_file` returns.

### RestoreDir

**State.**
- `img`, `opt`: the image and the command line (`-s`, `-o`, `-i`, `-r`, `-d`,
  `-u`, `-t`, `-f`). The image also says whether the device is mounted, which
  superblock mirrors hold a valid chunk tree and a readable tree root, and
  whether the `-t` and `-f` locations can be read.
- `stack`: the `search_dir` calls in progress, one frame each, with the tree,
  the directory, its path, the slot of the DIR_INDEX item being looked at, and
  its own `loops`.
- `out`: the output directory as a function from paths to "dir" or "file";
  `restored`: the paths `copy_file` filled.
- `pc` (`start`, `open`, `walk`, `done`, `overflow`) and `ret`: the exit value
  of `cmd_restore`.

**Actions.**
- `OpenDevice`: the first part of `cmd_restore`. A mounted device, or `open_fs`
  returning NULL, exits 1. `open_fs` (`OpenMirror`) takes the first mirror from
  `-u` on whose chunk tree reads; with `-t` it reads that tree root, otherwise
  that mirror's own; then the fs tree. A `-f` location that cannot be read
  jumps to `out` with `ret` still 0.
- `cmd_restore`: `-r` reads the named tree (exit 1 if it cannot), `-d` takes the
  first directory with a DIR_INDEX item (exit 1 if none), then the first
  `search_dir` call.
- `search_dir`: one turn of its `while (leaf)` loop on the top frame: the loop
  guard, a leaf boundary (`next_leaf`, a turn of its own), the end of the
  directory (return 0 to the caller), or one entry. A regular file
  (`FileEntry`) is skipped if it exists and `-o` is absent, else opened and
  copied. A directory (`DirEntry`) is made (`mkdir`, EEXIST tolerated) and
  entered by a new frame; a ROOT_ITEM location first skips the snapshot's entry
  for itself, reads the tree, skips snapshots without `-s`, and enters that
  tree's root directory. Every failure (`Fail`) is skipped with `-i` and
  otherwise unwinds all frames with the error.

**What is abstracted.**
- A directory is its DIR_INDEX entries in key order (name, type, location, and
  whether the location is a ROOT_ITEM); a "leaf" element marks a leaf boundary.
- `copy_file` is its result, failing for the `<<tree, inode>>` pairs of
  `img.bad` (RestoreCopy models it). `open` and `mkdir` fail on the paths of
  `img.nowrite`, or when the parent is not a directory.
- The depth of the C stack is `StackMax`; a call past it ends in `"overflow"`.

**Reference.** `Expected` lists the regular files spec 4.11 asks for: those
under the start directory, following directories and readable subvolumes (and
snapshots with `-s`), not a snapshot's entry for itself. `Excused` is why one
may be absent after exit 0: it existed and `-o` is absent, or with `-i` its
path or a directory above it could not be made, or its copy failed.

**Images (`MC_RestoreDir`).** Tree 5's root directory holds the file `a`, the
directory `d` (the file `b` and four symlinks) and the subvolume `sub` (tree
300: the file `c` and the snapshot `snap`, tree 301, with its entry for itself).
Variants: a leaf boundary after `a`; the root directory's items lost (so `-d`
finds `d`); tree 301 unreadable; the copy of `a` or `c` failing; `a` existing
as a file or a directory, or `d` as a file; `d` refused; and the cyclic layout,
a snapshot of tree 5 (302) inside `sub`, whose entry `sub` names tree 300
again. All 48 command lines (`-r` absent, 300 or a missing tree). Images combine at
most two variants (pairwise), which keeps the liveness part of the refinement
check under three minutes. `OpenCases` adds the device variants on the plain
image: mounted or not, five sets of good superblock mirrors, `-t` and `-f`
locations readable or not, under `-u` 0 or 1 and with or without `-t`/`-f`. `LoopMax` is 4,
above the longest run of entries that do not reset `loops`, so the guard only
fires after the last entry.

**Fairness.** `WF_vars(Next)`, as for RestoreCopy.

**Refinement (`RestoreSpec`).** `RestoreSpec` has the variables `want` (the
paths a restore should produce), `excused`, `restored` and `status`. Its
steps restore one wanted path, or exit; an exit may say "ok" only when every
wanted path that is not excused was restored. It asks weak fairness of `Exit`:
a restore ends. `RestoreDir` maps `want` to the paths of `Expected` from the
start root and directory (empty when the tree cannot be read), `excused` to
those of them that are `Excused`, `restored` to itself, and `status` to
"running" before `done`, "ok" or "error" by `ret`, and "crash" on a stack
overflow (no abstract step reaches it, so an overflow is a refinement
failure). Checking `Abstract!Spec` as a property checks both the steps and
the liveness: every walk ends with an exit.

### TreeWalk

**State.** `tree` (root, and per block its level, keys, child pointers, and
the set `ok` of blocks `read_tree_block` can read), the searched `key`, the
`path` (`nodes` and `slots` per level, up to `BTRFS_MAX_LEVEL` 8), the keys
of the `items` read so far, `pc` and `ret`.

**Actions.**
- `Search`: the whole `btrfs_search_slot` without COW (`SearchFrom`): at
  each level `generic_bin_search`, one slot back in a node when the key is
  not found, `read_node_slot`, -EIO for a child that cannot be read; then
  the caller's `while (!leaf)`.
- `ReadItem`: one turn of the caller's loop, reading the item at
  `slots[0]`, or at the leaf's end handing over to `next_leaf`.
- `NextLeaf`: one whole call of restore's `next_leaf` inside
  `do { ... } while (!leaf)`. `LowestHeld` is its first loop, `Climb` the
  walk up to a level with a slot to the right, and `Redescend` the walk down
  the first children. A leaf that cannot be read leaves NULL at level 0, and
  the loop calls `next_leaf` again. A node that cannot be read leaves NULL
  above the leaf, and `read_node_slot(root, NULL, 0)` then reads through
  NULL (`pc = "crash"`).

**What is abstracted.** A key is an integer (only the order of
`btrfs_comp_keys` matters); `check_block` on the search path is taken to
pass (LeafCheck models it); readahead has no effect on state.

**Properties.**
- `WalkReadsInOrder`: the items read are always a prefix of the keys at or
  after the search key in readable leaves under readable nodes. A walk that
  returns 0 has read all of them. -EIO comes only from the search, on a tree
  with an unreadable block. The walk never crashes.
- `WalkAdvances`: every `next_leaf` call that hands a path back moves the
  slots of the path, read from the root down, strictly forward. So the
  do/while and item loops end.

**Runs (not in the run list, which is full).**
- `MC_TreeWalk.cfg` passes: 66284 states in a few seconds.
- `MC_TreeWalk_interior.cfg` (level-2 trees whose node 2 or 3 cannot be read)
  finds `WalkReadsInOrder` violated. `next_leaf` climbs to the root, reads
  the unreadable node as NULL, and dereferences it (cmds-restore.c:198).
  Spec 4.11 asks restore to pass over what it cannot read.

**Bounds.** Leaves of one or two items, keys even and search keys 1..17, so
every search lands on an item, in a gap, before the first or after the last
item. Level-2 trees split four leaves 1+3, 2+2 or 3+1 under the two nodes,
so `next_leaf` both moves within a node and climbs to the root. Every subset
of the leaves may be unreadable, including the first and the last.

### InodeRecs

**State.**
- The items of the tree in key order, and the position of the walk.
- `inode_cache`: a function from inode number to `inode_record`. Its
  `backrefs` list is a sequence, and its error bitmask is a set of flag names.
- `current`, and the error counter and result of `check_inode_recs`.

**Actions.**
- `process_one_leaf`: one item. A higher objectid first closes the current
  record (`checked = 1`, `maybe_free_inode_rec`), then the item goes to its
  handler. Each handler folds the item into the records; the folds through
  `add_inode_backref` and `maybe_free_inode_rec` are part of the same step.
- `FinishWalk`: the end of `check_fs_root`, and the root directory check that
  opens `check_inode_recs`.
- `check_inode_recs`: one iteration of its loop.
- `Return`.

**What is abstracted.**
- The checksum tree is reduced to the bytes of an extent that
  `count_csum_range` finds.
- A leaf boundary changes nothing for an unshared tree, because the records
  live in the active node and not in the leaf.
- Entries that name subvolume roots (`root_cache`) are not in the images.

**Reference.** `Consistent` restates spec 4.5/8.4 over the items alone:
- names agree across dir item, dir index and inode ref;
- link counts, directory sizes and `nbytes` are right;
- extents cover `[0, isize)` for linked files, and checksums are right;
- an orphan item exists for every unlinked inode;
- the root directory has only its `..` ref.

**Images (`MC_InodeRecs`).**
- The root holds file 257 as `a`, directory 258 as `b`, and the empty file 260
  as `d`. 258 holds 257 again as `c`, a link from a directory after the file in
  key order.
- 259 is unlinked, with its orphan item.
- 257 has one of five extent layouts (two regular extents, a hole, prealloc,
  nodatasum, inline), with its second link as an inode ref or an extref.
- Each image is a base tree with one item dropped or one of 15 field damages.

### CsumCheck

**State.**
- `etree`: the extent tree as its items in key order, each a key
  `[obj, type, off]` with the type number of the code (168 extent item,
  178 data ref, 192 block group). A path is a slot into this sequence: at the
  leaf level `btrfs_prev_leaf`/`btrfs_next_leaf` only move to the neighbouring
  item.
- `csums`: the checksum items `[off, size]` in key order.
- `slot`, `offset`, `num_bytes`, `errors`: the locals of `check_csums`; `ret`
  its result.

**Actions.**
- `check_csums`: one checksum item. An item that starts where the run ends
  extends it; otherwise the run is checked with `check_extent_exists` (an
  error counted when it fails) and a new run starts. The length added is
  `size / csum_size * sectorsize`.
- `Finish`: `btrfs_next_leaf` finds no leaf; the function returns `errors`.

**`check_extent_exists`** is a recursive operator. `SearchSlot` is the search
for `(bytenr, EXTENT_ITEM, 0)`, the step back of one item when it is not
found, and the second step back over a block group item. `ExtentWalk` is the
`while (num_bytes)` loop, branch for branch. The split case checks the right
part by the recursive call and then does `goto again` with `key`, which by
then holds the middle extent's own key.

**What is abstracted.** The csum tree holds only checksum items, so the skip
of other key types is not exercised. One address is one sector.

**Reference.** `Covered(t, b, n)`: every byte of `[b, b+n)` lies inside an
extent item.

**Images (`MC_CsumCheck`).** Addresses 0..5. Extent trees are every set of
disjoint extents of 1..3 sectors (up to three, or two for the checksum run)
under one block group over the whole space or two over its halves. Checksum
trees are every set of up to three disjoint runs of one or two sectors, so
items abut, leave gaps, start inside, before or after extents.

## Runs

| Run | Config | Expect | Checks |
|---|---|---|---|
| `extent_refs` | `MC_ExtentRefs.cfg` | pass | `TypeOK`; `ExtentVerdict`; `LoopProgress` |
| `extent_refs_crash` | `MC_ExtentRefs_crash.cfg` | violation | `NoCrash` |
| `leaf_check` | `MC_LeafCheck.cfg` | pass | `TypeOK`; `AcceptsWellFormed` |
| `restore_copy` | `MC_RestoreCopy.cfg` | pass | `TypeOK`; `ReadFailsOnlyWhenUnreadable`; `Termination` |
| `restore_decompress` | `MC_RestoreCopy_decompress.cfg` | violation | `DecompressRetriesMirrors` |
| `restore_overread` | `MC_RestoreCopy_overread.cfg` | violation | `NoOverRead` |
| `restore_dir` | `MC_RestoreDir.cfg` | pass | `TypeOK`; `RestoreRefinement`; `NoRecursionCycle` |
| `restore_dir_cycle` | `MC_RestoreDir_cycle.cfg` | violation | `NoRecursionCycle` |
| `inode_recs` | `MC_InodeRecs.cfg` | pass | `TypeOK`; `CurrentLive`; `VerdictMatchesTree` |
| `csum_check` | `MC_CsumCheck.cfg` | pass | `TypeOK`; `CsumVerdict`; `ExtentExistsExact` |
| `csum_lastrun` | `MC_CsumCheck_lastrun.cfg` | violation | `CsumVerdict` |
| `csum_keyedref` | `MC_CsumCheck_keyedref.cfg` | violation | `ExtentExistsExact` |

**`extent_refs` (pass).**
- `ExtentVerdict`: whatever the read order and item placement,
  `check_extent_refs` reports an error exactly when the image is damaged.
  - This covers a record freed early and recreated by a later reference.
  - It covers the byte-count tie-break of `find_data_backref`.
  - It covers the `nr == 1` size sentinel of `add_extent_rec`.
- `LoopProgress`: every iteration of the read loop either takes a block off the
  queues or queues a block never seen before. The seen tree of `add_pending` is
  what ends the loop on an image with a pointer cycle.

**`extent_refs_crash` (violation).**
- The image: a root block whose header owner is wrong.
- What happens: `check_owner_ref` finds no matching tree backref and reaches
  `BUG_ON(rec->is_root)` (part_000:2010). The check aborts instead of reporting
  the damage.

**`leaf_check` (pass).**
- `AcceptsWellFormed`: no well-formed block is rejected.
- Without this, a healthy extent-tree block would be entered in
  `corrupt_blocks` and pruned by the repair.

**`MC_LeafCheck_order.cfg` (not in the run list; TLC finds `AcceptedKeysOrdered` violated).**
- What happens: a leaf of two items with equal keys passes `btrfs_check_leaf`.
  The pair loop stops at `nritems - 2`, so the last pair is never compared.
  `btrfs_check_node` has the same bound.
- What it contradicts: spec 8.1 says the keys of every leaf are strictly
  increasing.

**`restore_copy` (pass).** With two mirrors:
- `Termination`: `copy_file` always returns.
- `ReadFailsOnlyWhenUnreadable`: "Exhausted mirrors" is reported only when one
  mapped piece reads short on every mirror. `mirror_num` restarts at 1 for each
  piece.

**The violation runs and configurations of RestoreCopy** show what the code does
on damaged input:
- **`restore_decompress`.** With a compressed extent damaged on mirror 1,
  restore gives up without reading mirror 2. The retry starts at `again` with
  `size_left == 0` and `bytenr` past the extent, and the
  `mirror_num >= num_copies` test stops it one mirror early
  (cmds-restore.c:367). Spec 4.11 says decompression errors are retried on each
  mirror.
- **`MC_RestoreCopy_loop.cfg`** (not in the run list; TLC finds `Termination` violated). With three copies, the same extent loops forever. Each
  empty retry resets `mirror_num` to 1 (line 340).
- **`restore_overread`.** An uncompressed extent with `ram_bytes > disk_num_bytes`
  is written from past the end of `inbuf` (line 349).

**`restore_dir` (pass).**
- `RestoreRefinement`: `RestoreDir` implements `RestoreSpec`. Every step
  restores a wanted path or none, exit 0 comes only when every wanted file of
  the chosen tree that spec 4.11 asks for was filled by `copy_file` or is
  `Excused`, and the walk always ends (no overflow, no endless loop). This covers `-o` against existing files and directories,
  `-i` over refused directories (whose files then fail to open), a file where a
  directory should be (mkdir's EEXIST), failed copies, unreadable and skipped
  snapshots, `-r` and `-d`.
- `NoRecursionCycle`: no `search_dir` call walks a (tree, directory) that a
  call below it is walking. The snapshot's entry for itself is what keeps
  `-s` from recursing into it.

**`restore_dir_cycle` (violation).** With `-s` on the cyclic layout, the walk
goes tree 5 -> `sub` (300) -> `snapA` (302) -> its `sub` (300 again): the
self-entry test (cmds-restore.c:705) only catches a tree naming itself, so
restore recurses until the C stack overflows.

**`MC_RestoreDir_guard.cfg` (not in the run list; TLC finds `RestoreRefinement`
violated).** With `LoopMax` 3, the root directory of tree 5 with `a` not
openable, the leaf boundary and `d` refused under `-i` spends the three turns,
and `sub` is never visited; `search_dir` breaks out of its loop and returns 0
(line 590). Spec 4.11 says the user is asked whether to go on. In the real
code this takes 1024 such entries in a row: symlinks, devices, skipped
snapshots or ignored failures.

**`MC_RestoreDir_fsloc.cfg` (not in the run list; TLC finds `RestoreRefinement`
violated).** With `-f` naming a block that cannot be read, `cmd_restore`
prints "Failed to read fs location" and jumps to `out` with `ret` still 0
(cmds-restore.c:1072): the restore exits 0 having restored nothing.

**`inode_recs` (pass).**
- `VerdictMatchesTree`: `check_fs_root` returns an error exactly when the tree
  is not `Consistent`. This covers 257 being closed before 258's dir items name
  it, and 260 being freed at the moment it is left.
- `CurrentLive`: `current` never points at a freed record while the walk writes
  through it.

**Not run: two behaviours of `check_inode_recs`.** The `inode_recs` images
always hold the root directory with only its `..` ref. Outside them the model
accepts two damaged trees, as the code does. The first has no root directory:
the "root dir not found" branch does not count an error (part_000:1350). The
second has an extra inode ref of the root directory: `check_root_dir` looks
only at the first backref (line 1310). Spec 4.5 requires exactly one backref
`..`. These are listed as hazards.

**`csum_check` (pass).**
- `ExtentExistsExact`: for every range of the address space,
  `check_extent_exists` returns 0 exactly when extents cover it. This covers
  the block group item sorting between an extent and the search key (the
  reason for the second step back), extents met at, before and inside the
  range, and the split case with its `goto again`.
- `CsumVerdict`: `check_csums` returns an error exactly when a checksummed
  byte lies outside every extent, on the checksum trees whose last item is
  covered and alone in its run (the next run shows why that restriction is
  needed).
- `TypeOK` bounds each run inside the address space.

**`csum_lastrun` (violation).** A checksum tree whose last item has no extent
returns 0: a run is checked only when a later item breaks it, and the run in
progress when the loop ends is dropped (part_000:3071).

**`csum_keyedref` (violation).** An extent `[0, 2)` with a keyed
`EXTENT_DATA_REF` item, under a block group at 0: the range `[1, 2)` is
reported as having no extent. The search for `(1, EXTENT_ITEM, 0)` steps back
onto the ref item, not the extent, and the walk starts after the extent
(part_000:2900). A checksum run starting inside an extent (after a gap in the
checksums, as a partly written prealloc extent leaves) meets this.

## Bounds and why they are enough

- **RestoreDir.** Three levels of trees (fs tree, subvolume, snapshot) give a
  subvolume switch, a snapshot skip or descent and the self-entry; one cyclic
  layout needs one more tree. `StackMax` 6 is twice the deepest acyclic walk.

- **CsumCheck.** Six addresses hold up to three extents with their block
  groups, enough for a range to start before, at and inside an extent and to
  span two extents with or without a hole, and for the split case (an extent
  strictly inside the range). `CsumVerdict` takes extent trees of up to two
  extents against up to three checksum items, so runs both join and split.

- **Block size and window.** Block addresses are in KiB. The leaf size is 4 and
  the window `ReadaGap` is 32, as in the code (32768 bytes). With 4 leaves placed
  among 4 slots inside the window, `pick_next_pending` both chains leaves behind a
  node and falls back to the pending list.
- **Batch size.** `BatchMax` is 1024, the real `bits_nr`. The images never fill
  a batch; a batch of more than 1024 blocks is not reached.
- **What the images exercise.**
  - Two trees sharing leaves gives records whose references come from more than
    one parent.
  - The twice-referenced data extent gives a data backref with a count above 1.
  - The keyed-ref choice gives declared refs outside the extent item.

## Fairness

`ExtentRefs`, `LeafCheck`, `InodeRecs` and `CsumCheck` use no fairness; `RestoreDir` assumes weak fairness of its single thread and checks the liveness of `RestoreSpec` (every restore exits) through the refinement; the runs stop when the check returns (`CHECK_DEADLOCK FALSE`). `RestoreCopy` assumes weak
fairness of its single thread (see above). Whether the `run_next_block` loop of
`ExtentRefs` ends is stated as an action property, `LoopProgress`. Every step of the loop strictly decreases a
lexicographic variant, and a strictly decreasing variant over finite sets means
the loop ends.

## Not modelled, and why

- **C1/C2.** The byte layout of blocks and keys. The models see records.
- **Decompression libraries.** Only their success or failure matters. The
  framing loop of `decompress_lzo` (segment headers over page boundaries) is
  not modelled either; see the hazards.
- **`-l`.** `do_list_roots` only prints the root items.
- **Tree changes (C3).** Insert, delete, split, balance and COW change
  blocks in place through the byte accessors of C1/C2 and the extent
  allocator; neither restore nor the read-only check calls them. TreeWalk
  models the read-only search they share with restore.
- **`RestoreDir` and `RestoreCopy` over trees.** They see a directory or a
  file as its item sequence. TreeWalk shows how that sequence comes out of a
  tree, and what it leaves out (unreadable leaves).
- **Device I/O.** A read either works or fails, per block.
- **The man page.** It has no behaviour.

The following are planned (see `PROJECT.json` components):
- the remaining components (C3 tree operations, the C4 shared walker with
  `merge_inode_recs`, C7, root refs, C9 repair);
- the exit status of `cmd_check`.

## Plan

1. `ExtentRefs`: done.
2. `LeafCheck`: done.
3. `RestoreCopy`, `RestoreDir` (with `open_fs`) and the refinement of
   `RestoreSpec`: done. `next_leaf` and the read-only search: done (TreeWalk).
4. `CsumCheck`: done.
5. The `cmd_check` driver: how the phase results combine into the exit code.
6. Tree operations of `ctree.c` (insert, delete, split, push, balance). Shown to
   refine an abstract key/value map with `INSTANCE ... WITH`.
7. `InodeRecs` (one unshared tree): done. Next come the shared walker
   (`enter_shared_node`, `leave_shared_node`, `splice_shared_node`) and
   `merge_inode_recs`, with spec 8.5 (merge commutes) as a property.
8. The free-space cache verifier, root refs and the repairer.
