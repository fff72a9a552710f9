------------------------------ MODULE FS2Data ------------------------------
(***************************************************************************)
(* The contents of files: fs2_read, fs2_write and what they use            *)
(* (kernel/fs2.c), and the system calls that reach them through entries of *)
(* the table of open files (do_open, do_read, do_write, do_close in        *)
(* kernel/hilevel.c).  Directories, inodes and caches are those of FS2.    *)
(*                                                                         *)
(* A block of data, "X", is the sequence of its bytes.  A descriptor is    *)
(* the slot of its entry; which processes hold it is the subject of Files. *)
(***************************************************************************)
EXTENDS FS2

CONSTANTS
  BLOCK_SZ,     \* bytes of a block (4096)
  NFT,          \* entries of openft (64)
  Files,        \* the paths programs open
  OpenFlags,    \* flags of open: 1 read, 2 write, 4 create
  Datas,        \* what programs write
  ReadLens,     \* how much they read
  MaxSize,      \* bound on the size of a file
  NULL, Unset   \* a null entry, and one that malloc has just given

ASSUME DataAssumption ==
  /\ BLOCK_SZ \in Nat \ {0} /\ NFT \in Nat /\ MaxSize \in Nat
  /\ OpenFlags \subseteq 1..7 /\ ReadLens \subseteq Nat
  /\ Files \subseteq MkPaths

VARIABLES
  openft,   \* the table of open files: path, mode and cursor of each
  io,       \* what the last call on it returned: a number, and the bytes read
  content,  \* auxiliary: the bytes of the files that vol represents
  room      \* auxiliary: the size that each of them can surely grow to

dataVars == <<vars, openft, io, content, room>>
Slots == 0..(NFT - 1)

-----------------------------------------------------------------------------
(* Blocks of data *)

ZeroData == [i \in 1..BLOCK_SZ |-> 0]
AsX(b)   == IF b.kind = "X" THEN b.data ELSE ZeroData

fs2_save_gp_c(v) == fs2_wblk(v, v.xcaddr, v.xcache)

\* Bytes from a position of a block on are replaced.
Overlay(block, at, bytes) ==
  [i \in 1..BLOCK_SZ |-> IF i \in (at + 1)..(at + Len(bytes)) THEN bytes[i - at] ELSE block[i]]

BlocksOf(n) == (n + BLOCK_SZ - 1) \div BLOCK_SZ

\* How much of a transfer of n bytes at the cursor the first block takes, and
\* how much is done when the k-th block after it is reached.
First(n, cursor)   == Min({n, BLOCK_SZ - (cursor % BLOCK_SZ)})
Done(n, cursor, k) == IF k = 0 THEN 0 ELSE First(n, cursor) + (k - 1) * BLOCK_SZ
Steps(n, cursor)   == 1 + BlocksOf(n - First(n, cursor))

-----------------------------------------------------------------------------
(* Reading.  ret collects the bytes *)

\* n bytes of the block just loaded, from a position on.
copy_out(v, at, n) ==
  IF ~Ok(v) THEN v ELSE Result(v, "LOOP", v.ret \o SubSeq(AsX(v.xcache), at + 1, at + n))

\* Block k of a transfer of n bytes.  A missing block ends the transfer, unless
\* it is the last one and not wanted as a whole: then block 0 is read.
read_block(v, d, k, n, cursor) ==
  LET blk == find_blk(d.regs, (cursor \div BLOCK_SZ) + k)
  IN  IF blk = 0 /\ (k = 0 \/ n - Done(n, cursor, k) >= BLOCK_SZ) THEN Outcome(v, "SUCCESS")
      ELSE IF k = 0 THEN copy_out(fs2_load_gp_c(v, blk, FALSE), cursor % BLOCK_SZ, First(n, cursor))
      ELSE copy_out(fs2_load_gp_c(v, blk, FALSE), 0, Min({BLOCK_SZ, n - Done(n, cursor, k)}))

read_inode(v, d, n, cursor) ==
  IF d.ftype # "FILE" THEN Outcome(v, "BAD_FTYPE")
  ELSE IF d.eof <= cursor THEN v
  ELSE OverBlocks(v, Steps(Min({n, d.eof - cursor}), cursor), "SUCCESS", LAMBDA w, k :
         read_block(w, d, k, Min({n, d.eof - cursor}), cursor))

\* What the call returns: -1 where it got no byte because of an error.
read_count(v) == IF ~Ok(v) /\ v.ret = <<>> THEN -1 ELSE Len(v.ret)

read_found(v, n, cursor) ==
  IF ~Ok(v) THEN [v EXCEPT !.ret = <<>>]
  ELSE read_inode([v EXCEPT !.ret = <<>>], cached_inode(v, v.ret), n, cursor)

fs2_read(v, path, n, cursor) == read_found(load_found(fs2_find_file(v, path)), n, cursor)

-----------------------------------------------------------------------------
(* Writing, to inode s of the cached block of inodes *)

enter_region(v, s, i, rsz) ==
  IF v.ret = 0 \/ ~Ok(v) THEN [v EXCEPT !.ret = 0]
  ELSE [v EXCEPT !.icache[s].regs[i] = [start |-> v.ret, len |-> rsz]]

fs2_grow_file(v, s, rsz) ==
  IF Used(v.icache[s].regs) = NREG THEN Result(v, "FILE_FULL", 0)
  ELSE enter_region(fs2_find_free_region(v, rsz, TRUE), s, Used(v.icache[s].regs), rsz)

\* The address of block b of the file, which grows by sz blocks (a byte) if it
\* has no such block.
block_at(v, s, b, sz) ==
  IF find_blk(v.icache[s].regs, b) # 0
  THEN Result(v, "SUCCESS", find_blk(v.icache[s].regs, b))
  ELSE fs2_grow_file(v, s, sz % 256)

load_at(v, dry) == IF ~Ok(v) THEN v ELSE fs2_load_gp_c(v, v.ret, dry)

copy_in(v, at, bytes) ==
  IF ~Ok(v) THEN v
  ELSE fs2_save_gp_c([v EXCEPT !.xcache =
         [kind |-> "X", data |-> Overlay(AsX(v.xcache), at, bytes)]])

\* The last, partial, block takes its bytes from the beginning of the buffer.
tail_bytes(data, done) == SubSeq(data, 1, Len(data) - done)

write_bytes(v, s, k, data, cursor) ==
  LET n    == Len(data)
      b    == (cursor \div BLOCK_SZ) + k
      done == Done(n, cursor, k)
  IN  IF k = 0 THEN copy_in(load_at(block_at(v, s, b, BlocksOf(n)), FALSE),
                            cursor % BLOCK_SZ, SubSeq(data, 1, First(n, cursor)))
      ELSE IF n - done >= BLOCK_SZ
      THEN copy_in(load_at(block_at(v, s, b, BlocksOf(n - done)), TRUE), 0,
                   SubSeq(data, done + 1, done + BLOCK_SZ))
      ELSE copy_in(load_at(block_at(v, s, b, FREG), TRUE), 0, tail_bytes(data, done))

\* ret: the bytes written when block k has been, or has not.
count_bytes(v, n, cursor, k) ==
  IF Ok(v) THEN Result(v, "LOOP", Min({n, Done(n, cursor, k + 1)}))
  ELSE [v EXCEPT !.ret = Done(n, cursor, k)]

finish_write_NotSaved(v, s, cursor) == [v EXCEPT !.icache[s].eof = cursor + v.ret]

\* eof becomes the end of what was written, the saving included, unless not
\* even the first block was.
finish_write(v, s, cursor) ==
  IF ~Ok(v) /\ v.ret = 0 THEN v
  ELSE fs2_save_iblock_c([v EXCEPT !.icache[s].eof = cursor + v.ret])

write_inode(v, s, data, cursor) ==
  IF v.icache[s].ftype # "FILE" THEN Result(v, "BAD_FTYPE", -1)
  ELSE finish_write(OverBlocks(v, Steps(Len(data), cursor), "SUCCESS", LAMBDA w, k :
         count_bytes(write_bytes(w, s, k, data, cursor), Len(data), cursor, k)), s, cursor)

write_found(v, data, cursor) ==
  IF ~Ok(v) THEN [v EXCEPT !.ret = -1] ELSE write_inode(v, v.ret % IPB, data, cursor)

fs2_write(v, path, data, cursor) ==
  write_found(load_found(fs2_find_file(v, path)), data, cursor)

-----------------------------------------------------------------------------
(* What the running kernel sees of the files *)

\* The bytes of a file, looked up one by one.
ByteAt(v, d, i) ==
  LET blk == find_blk(d.regs, i \div BLOCK_SZ)
  IN  AsX(IF v.xcaddr = blk THEN v.xcache ELSE v.disk[blk])[(i % BLOCK_SZ) + 1]

BytesOf(v, d) == [i \in 1..d.eof |-> ByteAt(v, d, i - 1)]

FilesIn(t) == {p \in Files : p \in DOMAIN t /\ t[p] = "FILE"}

ContentsOf(v, t) == [p \in FilesIn(t) |-> BytesOf(v, Inode(v, Lookup(v, p)))]

Capacity(v, regs) == BLOCK_SZ *
  (Before(regs, Used(regs)) +
   (IF Used(regs) = NREG THEN 0 ELSE v.hblock.nblocks - v.hblock.next_block))

RoomOf(v, t) == [p \in FilesIn(t) |-> Capacity(v, Inode(v, Lookup(v, p)).regs)]

Stores(v) ==
  /\ Becomes(v)
  /\ content' = ContentsOf(vol', tree')
  /\ room' = RoomOf(vol', tree')

Keeps == UNCHANGED <<vol, tree, content, room>>

-----------------------------------------------------------------------------
(* System calls *)

fmode_from_flags(f) == CASE f % 4 = 3 -> {"R", "W"} [] f % 4 = 2 -> {"W"}
                         [] f % 4 = 1 -> {"R"} [] OTHER -> {}

Free(g) == openft[g] = NULL /\ \A h \in Slots : h < g => openft[h] # NULL
IsOpen(g) == openft[g] \notin {NULL, Unset}

IoReturns(r, bytes) == io' = [ret |-> r, bytes |-> bytes] /\ UNCHANGED out

\* fs2_create, where fs2_isftype says no and the flags ask for it; ret is
\* whether there is a file now.
created(v) == [v EXCEPT !.ret = Ok(v)]
open_file(v, p, f) == IF v.ret \/ f < 4 THEN v ELSE created(fs2_create(v, "FILE", p))

\* SVC 0x0B with a free entry, which is in the table before the file is found.
Open(p, f) == \E g \in Slots, v \in {open_file(fs2_isftype(vol, p, "FILE"), p, f)} :
  /\ Free(g)
  /\ Stores(v)
  /\ openft' = [openft EXCEPT ![g] =
       IF v.ret THEN [path |-> p, mode |-> fmode_from_flags(f), cursor |-> 0] ELSE Unset]
  /\ IoReturns(IF v.ret THEN g ELSE -1, <<>>)

OpenFull ==
  /\ \A g \in Slots : openft[g] # NULL
  /\ IoReturns(-1, <<>>)
  /\ UNCHANGED openft /\ Keeps

\* SVC 0x0C, the last descriptor of the entry.
Close(g) ==
  /\ IsOpen(g)
  /\ openft' = [openft EXCEPT ![g] = NULL]
  /\ IoReturns(0, <<>>)
  /\ Keeps

NotAllowed == IoReturns(0, <<>>) /\ UNCHANGED openft /\ Keeps

Advance(g, n) == openft' = [openft EXCEPT ![g].cursor = IF n >= 0 THEN @ + n ELSE @]

do_write(g, data) ==
  \/ "W" \notin openft[g].mode /\ NotAllowed
  \/ /\ "W" \in openft[g].mode
     /\ openft[g].cursor + Len(data) <= MaxSize
     /\ \E v \in {fs2_write(vol, openft[g].path, data, openft[g].cursor)} :
          /\ Stores(v)
          /\ Advance(g, v.ret)
          /\ IoReturns(v.ret, <<>>)

do_read(g, n) ==
  \/ "R" \notin openft[g].mode /\ NotAllowed
  \/ /\ "R" \in openft[g].mode
     /\ \E v \in {fs2_read(vol, openft[g].path, n, openft[g].cursor)} :
          /\ Stores(v)
          /\ Advance(g, read_count(v))
          /\ IoReturns(read_count(v), v.ret)

\* The table of open files is in memory.
DataReboot ==
  /\ Stores(init_fs(vol.disk))
  /\ openft' = [g \in Slots |-> NULL]
  /\ UNCHANGED <<out, io>>

-----------------------------------------------------------------------------
(* Specifications *)

DataInit ==
  /\ SecondBoot
  /\ openft = [g \in Slots |-> NULL]
  /\ io = [ret |-> 0, bytes |-> <<>>]
  /\ content = ContentsOf(vol, tree) /\ room = RoomOf(vol, tree)

\* The write has bytes for a last block that it does not fill.
HasTail(data, cursor) == (Len(data) - First(Len(data), cursor)) % BLOCK_SZ # 0

OtherCalls ==
  \/ \E p \in Files, f \in OpenFlags : Open(p, f)
  \/ OpenFull
  \/ \E g \in Slots : IsOpen(g) /\ (Close(g) \/ \E n \in ReadLens : do_read(g, n))
  \/ DataReboot

\* Writes end in the block they begin in, or where a block ends.
DataNext == OtherCalls \/ \E g \in Slots : IsOpen(g) /\
  \E data \in Datas : ~HasTail(data, openft[g].cursor) /\ do_write(g, data)

DataSpec == DataInit /\ [][DataNext]_dataVars

\* Writes of any length anywhere.
AnyWriteNext == OtherCalls \/ \E g \in Slots : IsOpen(g) /\
  \E data \in Datas : do_write(g, data)

AnyWriteSpec == DataInit /\ [][AnyWriteNext]_dataVars

-----------------------------------------------------------------------------
(* Properties *)

\* Whatever entries are open on whichever files, and over restarts: a read
\* returns the bytes last written, a write stores what it reports at the entry's
\* cursor and nowhere else, and stores less than it was given only where the
\* volume or the file has no room (fs2_read, fs2_write, do_read, do_write;
\* libc.h 60: "write n bytes from x to the file descriptor fd; return bytes
\* written").
Reference == INSTANCE FileContents WITH Flags <- OpenFlags
ImplementsContents == Reference!Spec
=============================================================================
