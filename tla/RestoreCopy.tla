---------------------------- MODULE RestoreCopy -----------------------------
(***************************************************************************)
(* Copying one regular file in `btrfs restore` (cmds-restore.c):         *)
(* copy_file's loop over the EXTENT_DATA items of the inode, with its     *)
(* ask_to_continue guard, copy_one_inline, and copy_one_extent's loop     *)
(* over the mapped pieces of an extent with its mirror retries on short   *)
(* reads and on decompression failure.                                    *)
(*                                                                         *)
(* Addresses and sizes are in units.  btrfs_map_block cuts a read at the  *)
(* end of the mapping unit (StripeLen) and fails past the chunk           *)
(* (ChunkEnd).  The disk is given per mirror as a set of units whose read *)
(* comes back short and a set of units whose content is damaged; only    *)
(* decompression can notice damaged content.  A file is its items (kind, *)
(* compression, disk_bytenr, disk_num_bytes, ram_bytes, and for inline    *)
(* items whether their data decompresses) and whether the output file    *)
(* system refuses writes.                                                 *)
(***************************************************************************)
EXTENDS Integers, Sequences, FiniteSets

CONSTANTS
  NumCopies,   \* btrfs_num_copies of the chunk
  StripeLen,   \* the length btrfs_map_block maps at most in one piece
  ChunkEnd,    \* the first logical address past the chunk
  LoopMax,     \* the 1024 of copy_file's "if (loops++ >= 1024)"
  Files        \* the files restore may copy, with their disks

CompressNone == 0
CompressLast == 3    \* BTRFS_COMPRESS_LAST

VARIABLES
  file,      \* the inode's items and the disk below them
  slot,      \* path->slots[0]: the item copy_file is at
  loops,     \* copy_file's loop counter
  pc,        \* "file", "again", "post" (copy_one_extent), "done", "crash"
  mirror,    \* mirror_num
  sizeLeft,  \* size_left
  bytenr,    \* bytenr
  src,       \* the mirror each unit of inbuf was read from
  written,   \* the slots whose data reached the output file
  overread,  \* a pwrite read past the end of inbuf
  why,       \* why copy_file failed: "", "map", "exhausted", "decompress", "write", "other"
  fret       \* copy_file's return value

vars == <<file, slot, loops, pc, mirror, sizeLeft, bytenr, src, written,
          overread, why, fret>>

Item == file.items[slot]

Units(a, len) == a..(a + len - 1)

(* pread returns all length bytes from mirror m.                          *)
FullRead(m, a, len) == Units(a, len) \cap file.short[m] = {}

(* The length btrfs_map_block leaves, cut to size_left.                    *)
MapLength(a, left) ==
  IF left < StripeLen - (a % StripeLen) THEN left ELSE StripeLen - (a % StripeLen)

(* decompress(inbuf) succeeds when no unit came from a damaged copy.       *)
DecompressOK ==
  \A k \in 1..Len(src) : Item.bytenr + k - 1 \notin file.damaged[src[k]]

Init ==
  /\ file \in Files
  /\ slot = 1 /\ loops = 0 /\ pc = "file"
  /\ mirror = 1 /\ sizeLeft = 0 /\ bytenr = 0 /\ src = <<>>
  /\ written = {} /\ overread = FALSE /\ why = "" /\ fret = 0

Return(r, w) ==
  /\ pc' = "done" /\ fret' = r /\ why' = w

Next_item == slot' = slot + 1 /\ pc' = "file"

-----------------------------------------------------------------------------
(* copy_file.                                                              *)

(* copy_one_inline: the item's bytes are written as they are, or first   *)
(* decompressed into a ram_size buffer; a failed decompression or a short *)
(* pwrite makes copy_file return -1.                                       *)
copy_one_inline ==
  IF file.nospace \/ (Item.compress # CompressNone /\ ~Item.ok)
  THEN Return(-1, IF Item.compress # CompressNone /\ ~Item.ok
                   THEN "decompress" ELSE "write")
       /\ UNCHANGED <<slot, written>>
  ELSE Next_item /\ written' = written \cup {slot} /\ UNCHANGED <<why, fret>>

(* One pass of the copy_file loop once the loop guard let it go on, with  *)
(* nl the new value of loops.                                              *)
CopyFileBody(nl) ==
  /\ loops' = nl
  /\ IF slot > Len(file.items)
     THEN \* the next key is not an EXTENT_DATA of this inode: break, set_size
          /\ Return(0, "") /\ UNCHANGED <<slot, written>>
     ELSE IF Item.compress >= CompressLast
     THEN Return(-1, "other") /\ UNCHANGED <<slot, written>>
     ELSE CASE Item.kind = "prealloc" ->
                 Next_item /\ UNCHANGED <<written, why, fret>>
            [] Item.kind = "inline" -> copy_one_inline
            [] Item.kind = "reg" /\ Item.disk = 0 ->
                 \* a hole: copy_one_extent returns 0
                 Next_item /\ UNCHANGED <<written, why, fret>>
            [] Item.kind = "reg" ->
                 /\ pc' = "again"
                 /\ UNCHANGED <<slot, written, why, fret>>
            [] OTHER -> Next_item /\ UNCHANGED <<written, why, fret>>
  /\ mirror' = 1 /\ sizeLeft' = IF pc' = "again" THEN Item.disk ELSE 0
  /\ bytenr' = IF pc' = "again" THEN Item.bytenr ELSE 0
  /\ src' = <<>>
  /\ UNCHANGED <<file, overread>>

copy_file ==
  /\ pc = "file"
  /\ loops < LoopMax
  /\ CopyFileBody(loops + 1)

(* Mutant: goes on after a "y" without resetting loops.                  *)
ask_to_continue_noreset ==
  /\ pc = "file"
  /\ loops >= LoopMax
  /\ \/ CopyFileBody(loops + 1)
     \/ /\ Return(0, "")
        /\ UNCHANGED <<file, slot, loops, mirror, sizeLeft, bytenr, src,
                       written, overread>>
     \/ /\ pc' = "crash"
        /\ UNCHANGED <<file, slot, loops, mirror, sizeLeft, bytenr, src,
                       written, overread, why, fret>>

(* loops reached 1024: ask_to_continue reads the answer with fgets; at    *)
(* end of input fgets returns NULL and *ret dereferences it.              *)
ask_to_continue ==
  /\ pc = "file"
  /\ loops >= LoopMax
  /\ \/ CopyFileBody(0)
     \/ /\ Return(0, "")
        /\ UNCHANGED <<file, slot, loops, mirror, sizeLeft, bytenr, src,
                       written, overread>>
     \/ /\ pc' = "crash"
        /\ UNCHANGED <<file, slot, loops, mirror, sizeLeft, bytenr, src,
                       written, overread, why, fret>>

-----------------------------------------------------------------------------
(* copy_one_extent.                                                        *)

(* Mutant: keeps mirror_num after a successful read.                     *)
ReadPiece_nomirrorreset ==
  /\ pc = "again"
  /\ IF bytenr >= ChunkEnd
     THEN Return(-1, "map") /\ UNCHANGED <<mirror, sizeLeft, bytenr, src>>
     ELSE LET len == MapLength(bytenr, sizeLeft) IN
          IF ~FullRead(mirror, bytenr, len)
          THEN IF mirror + 1 > NumCopies
               THEN Return(-1, "exhausted")
                    /\ UNCHANGED <<mirror, sizeLeft, bytenr, src>>
               ELSE /\ mirror' = mirror + 1
                    /\ UNCHANGED <<pc, sizeLeft, bytenr, src, why, fret>>
          ELSE /\ UNCHANGED mirror
               /\ sizeLeft' = sizeLeft - len
               /\ bytenr' = bytenr + len
               /\ src' = src \o [k \in 1..len |-> mirror]
               /\ pc' = IF sizeLeft - len > 0 THEN "again" ELSE "post"
               /\ UNCHANGED <<why, fret>>
  /\ UNCHANGED <<file, slot, loops, written, overread>>

(* Label again: map the next piece, read it, retry the next mirror on a   *)
(* short read.                                                            *)
ReadPiece ==
  /\ pc = "again"
  /\ IF bytenr >= ChunkEnd
     THEN Return(-1, "map") /\ UNCHANGED <<mirror, sizeLeft, bytenr, src>>
     ELSE LET len == MapLength(bytenr, sizeLeft) IN
          IF ~FullRead(mirror, bytenr, len)
          THEN IF mirror + 1 > NumCopies
               THEN Return(-1, "exhausted")
                    /\ UNCHANGED <<mirror, sizeLeft, bytenr, src>>
               ELSE /\ mirror' = mirror + 1
                    /\ UNCHANGED <<pc, sizeLeft, bytenr, src, why, fret>>
          ELSE /\ mirror' = 1
               /\ sizeLeft' = sizeLeft - len
               /\ bytenr' = bytenr + len
               /\ src' = src \o [k \in 1..len |-> mirror]
               /\ pc' = IF sizeLeft - len > 0 THEN "again" ELSE "post"
               /\ UNCHANGED <<why, fret>>
  /\ UNCHANGED <<file, slot, loops, written, overread>>

(* Mutant: bounds the decompression retry as the read retry does.      *)
WriteExtent_gt ==
  /\ pc = "post"
  /\ IF Item.compress = CompressNone
     THEN /\ overread' = (overread \/ Item.ram > Item.disk)
          /\ IF file.nospace
             THEN Return(-1, "write") /\ UNCHANGED <<slot, written>>
             ELSE Next_item /\ written' = written \cup {slot}
                  /\ UNCHANGED <<why, fret>>
          /\ UNCHANGED mirror
     ELSE IF DecompressOK
     THEN /\ IF file.nospace
             THEN Return(-1, "write") /\ UNCHANGED <<slot, written>>
             ELSE Next_item /\ written' = written \cup {slot}
                  /\ UNCHANGED <<why, fret>>
          /\ UNCHANGED <<mirror, overread>>
     ELSE /\ mirror' = mirror + 1
          /\ IF mirror + 1 > NumCopies
             THEN Return(-1, "decompress")
             ELSE pc' = "again" /\ UNCHANGED <<why, fret>>
          /\ UNCHANGED <<slot, written, overread>>
  /\ UNCHANGED <<file, loops, sizeLeft, bytenr, src>>

(* All of the extent is in inbuf: write it, or decompress and write it.   *)
(* A decompression failure retries from label again with the next mirror *)
(* number, bytenr already past the extent and size_left 0.                *)
WriteExtent ==
  /\ pc = "post"
  /\ IF Item.compress = CompressNone
     THEN /\ overread' = (overread \/ Item.ram > Item.disk)
          /\ IF file.nospace
             THEN Return(-1, "write") /\ UNCHANGED <<slot, written>>
             ELSE Next_item /\ written' = written \cup {slot}
                  /\ UNCHANGED <<why, fret>>
          /\ UNCHANGED mirror
     ELSE IF DecompressOK
     THEN /\ IF file.nospace
             THEN Return(-1, "write") /\ UNCHANGED <<slot, written>>
             ELSE Next_item /\ written' = written \cup {slot}
                  /\ UNCHANGED <<why, fret>>
          /\ UNCHANGED <<mirror, overread>>
     ELSE /\ mirror' = mirror + 1
          /\ IF mirror + 1 >= NumCopies
             THEN Return(-1, "decompress")
             ELSE pc' = "again" /\ UNCHANGED <<why, fret>>
          /\ UNCHANGED <<slot, written, overread>>
  /\ UNCHANGED <<file, loops, sizeLeft, bytenr, src>>

Next == copy_file \/ ask_to_continue \/ ReadPiece \/ WriteExtent

(* restore is one thread: the next statement always runs.                *)
Spec == Init /\ [][Next]_vars /\ WF_vars(Next)

-----------------------------------------------------------------------------
(* Properties.                                                            *)

TypeOK ==
  /\ pc \in {"file", "again", "post", "done", "crash"}
  /\ slot \in 1..(Len(file.items) + 1)
  /\ loops \in 0..LoopMax
  /\ mirror \in 1..(NumCopies + 1)
  /\ sizeLeft \in Nat /\ bytenr \in Nat
  /\ src \in Seq(1..NumCopies)
  /\ written \subseteq 1..Len(file.items)
  /\ overread \in BOOLEAN
  /\ fret \in {-1, 0}

(* The pieces btrfs_map_block cuts the extent of the current item into.   *)
Pieces ==
  { Units(a, MapLength(a, Item.bytenr + Item.disk - a)) :
      a \in {u \in Units(Item.bytenr, Item.disk) :
               u = Item.bytenr \/ u % StripeLen = 0} }

(* "Exhausted mirrors trying to read" is reported only when some piece of *)
(* the extent is short on every mirror: after a piece was read from one   *)
(* mirror the next piece starts again from mirror 1.                       *)
ReadFailsOnlyWhenUnreadable ==
  why = "exhausted" =>
    \E P \in Pieces : \A m \in 1..NumCopies : P \cap file.short[m] # {}

(* copy_file returns: the extent loop of copy_one_extent ends for every   *)
(* disk, whether reads come back short and whether the data decompresses. *)
Termination == <>(pc \in {"done", "crash"})

(* Spec 4.11: a compressed extent is retried on each mirror after a      *)
(* decompression error, so it fails only when no mirror holds the whole   *)
(* extent readable and undamaged.                                          *)
DecompressRetriesMirrors ==
  why = "decompress" /\ Item.kind = "reg" =>
    ~\E m \in 1..NumCopies :
       \A u \in Units(Item.bytenr, Item.disk) :
         u \notin file.short[m] /\ u \notin file.damaged[m]

(* copy_one_extent never reads past the disk_size bytes of inbuf.         *)
NoOverRead == ~overread
=============================================================================
