-------------------------------- MODULE FS2 --------------------------------
(***************************************************************************)
(* The CWFS2 file system (kernel/fs2.c): a volume of blocks behind a block *)
(* device, with one cached block of inodes and one of directory entries.   *)
(*                                                                         *)
(* A function of the code that takes the volume is an operator from volume *)
(* to volume.  Besides the fields of fs2_volume_t a volume has the disk,   *)
(* ret and par, what the function returned and stored through putparent,   *)
(* and log, the writes that the call has made so far.  Every operation     *)
(* runs inside one system call with interrupts masked, so it is one step.  *)
(*                                                                         *)
(* A name is the sequence of its characters and a path the sequence of its *)
(* components; the last one is empty where the path ends in a slash.  A    *)
(* block carries its kind: "H" header, "I" inodes, "D" directory entries,  *)
(* "0" never written.  Permissions are not modelled (the tests of fs2_read *)
(* and fs2_write are constant), nor is iparent, which nothing reads.       *)
(***************************************************************************)
EXTENDS Integers, Sequences, FiniteSets, SequencesExt, FiniteSetsExt

CONSTANTS
  BLOCK_NUM,   \* blocks of the disk (256)
  NBLOCKS,     \* blocks of the volume (100)
  IREG, FREG, DREG,  \* default lengths of inode, file and directory regions (4, 1, 2)
  IPB,         \* inodes per block (32)
  DPB,         \* directory entries per block (128)
  UNL,         \* the modulus of fs2_unlink's scan (32)
  NREG,        \* regions of an inode (23)
  HREG,        \* regions of the header (800)
  NAME_LEN,    \* characters of a name (28)
  MkPaths, RmPaths, LookPaths,   \* paths given to create, to rm, to the others
  LsRooms,     \* how many names the buffer of an ls can hold
  MaxInodes    \* bound on the inodes ever used

ASSUME FS2Assumption ==
  /\ {BLOCK_NUM, IREG, FREG, DREG, IPB, DPB, UNL, NREG, HREG, NAME_LEN} \subseteq Nat \ {0}
  /\ NBLOCKS \in 1..BLOCK_NUM /\ MaxInodes \in Nat /\ LsRooms \subseteq Nat
  /\ 1 + IREG + DREG <= NBLOCKS /\ UNL <= DPB
  /\ \A p \in MkPaths \cup RmPaths \cup LookPaths : p \in Seq(Range(p))

VARIABLES
  vol,   \* the volume: disk, memory and the result of the last function
  out,   \* the last system call and what it returned
  tree   \* auxiliary: the tree of files that vol represents

vars == <<vol, out, tree>>

-----------------------------------------------------------------------------
(* Layout *)

Dot    == <<".">>
DotDot == <<".", ".">>

Regions(n) == [i \in 0..(n - 1) |-> [start |-> 0, len |-> 0]]
ZeroInode  == [ftype |-> "DIR", eof |-> 0, regs |-> Regions(NREG)]
ZeroIBlock == [s \in 0..(IPB - 1) |-> ZeroInode]
ZeroDBlock == [k \in 0..(DPB - 1) |-> [ino |-> 0, name |-> <<>>]]
ZeroHBlock == [nblocks |-> 0, next_block |-> 0, next_inode |-> 0, regs |-> Regions(HREG)]
ZeroDisk   == [a \in 0..(BLOCK_NUM - 1) |-> [kind |-> "0"]]

AsI(b) == IF b.kind = "I" THEN b.data ELSE ZeroIBlock
AsD(b) == IF b.kind = "D" THEN b.data ELSE ZeroDBlock

\* The kernel's memory when it starts: vol is a zeroed global.
PowerUp(disk) ==
  [disk |-> disk, hblock |-> ZeroHBlock, outcome |-> "SUCCESS", ret |-> 0, par |-> 0,
   log |-> <<>>,
   icindex |-> 0, icaddr |-> 0, icache |-> ZeroIBlock,
   dcaddr |-> 0, dcache |-> ZeroDBlock, xcaddr |-> 0, xcache |-> [kind |-> "0"]]

Ok(v)           == v.outcome = "SUCCESS"
Outcome(v, o)   == [v EXCEPT !.outcome = o]
Result(v, o, r) == [v EXCEPT !.outcome = o, !.ret = r]

\* A loop over n blocks, left as soon as its body sets an outcome; where none
\* does, the outcome is o.
OverBlocks(v, n, o, Body(_, _)) ==
  LET after(w) == IF w.outcome = "LOOP" THEN Outcome(w, o) ELSE w
      next(w, b) == IF w.outcome = "LOOP" THEN Body(w, b) ELSE w
      loop[b \in 0..n] == IF b = 0 THEN Outcome(v, "LOOP") ELSE next(loop[b - 1], b - 1)
  IN  after(loop[n])

BlocksFor(n) == (n + DPB - 1) \div DPB

\* How many regions are in use, and how many blocks the first i of them hold.
Used(regs)      == Min({i \in 0..Cardinality(DOMAIN regs) :
                          i \notin DOMAIN regs \/ regs[i].start = 0})
Before(regs, i) ==
  LET sum[j \in 0..i] == IF j = 0 THEN 0 ELSE sum[j - 1] + regs[j - 1].len
  IN  sum[i]

\* memset(inode->reg_start, 0, 92)
Cleared(regs) == [i \in DOMAIN regs |-> [regs[i] EXCEPT !.start = 0]]

-----------------------------------------------------------------------------
(* Load and save *)

fs2_wblk(v, a, b) ==
  IF a \in DOMAIN v.disk THEN [v EXCEPT !.disk[a] = b, !.outcome = "SUCCESS",
                                              !.log = Append(@, [addr |-> a, block |-> b])]
                         ELSE Outcome(v, "DISK_WR_ERR")

save_hblock(v)       == fs2_wblk(v, 0, [kind |-> "H", data |-> v.hblock])
fs2_save_iblock_c(v) == fs2_wblk(v, v.icaddr, [kind |-> "I", data |-> v.icache])
fs2_save_dblock_c(v) == fs2_wblk(v, v.dcaddr, [kind |-> "D", data |-> v.dcache])

fs2_load_dblock_c(v, daddr, dry) ==
  IF daddr # v.dcaddr /\ ~dry /\ daddr \notin DOMAIN v.disk
  THEN Outcome(v, "DISK_RD_ERR")
  ELSE [v EXCEPT !.dcache = IF daddr = v.dcaddr \/ dry THEN @ ELSE AsD(v.disk[daddr]),
                 !.dcaddr = daddr, !.outcome = "SUCCESS"]

fs2_load_gp_c(v, baddr, dry) ==
  IF baddr # v.xcaddr /\ ~dry /\ baddr \notin DOMAIN v.disk
  THEN Outcome(v, "DISK_RD_ERR")
  ELSE [v EXCEPT !.xcache = IF baddr = v.xcaddr \/ dry THEN @ ELSE v.disk[baddr],
                 !.xcaddr = baddr, !.outcome = "SUCCESS"]

\* The block of a region table that holds index b, 0 where there is none.
find_blk(regs, b) ==
  LET in == {i \in 0..(Used(regs) - 1) : b < Before(regs, i + 1)}
  IN  IF in = {} THEN 0 ELSE regs[Min(in)].start + b - Before(regs, Min(in))

take_region_Short(v, rsz) ==
  [Result(v, "SUCCESS", v.hblock.next_block) EXCEPT !.hblock.next_block = @ + rsz - 1]

take_region(v, rsz) ==
  [Result(v, "SUCCESS", v.hblock.next_block) EXCEPT !.hblock.next_block = @ + rsz]

\* The loop over free regions never runs: separator is 800 from format on.
fs2_find_free_region(v, rsz, save) ==
  IF v.hblock.next_block + rsz > v.hblock.nblocks THEN Result(v, "DISK_FULL", 0)
  ELSE IF save THEN save_hblock(take_region(v, rsz)) ELSE take_region(v, rsz)

load_iblock(v, cached, addr) ==
  IF addr \notin DOMAIN v.disk THEN Result(v, "DISK_RD_ERR", addr)
  ELSE [Result(v, "SUCCESS", addr) EXCEPT !.icache = IF cached THEN AsI(v.disk[addr]) ELSE @]

new_iregion(v, i) == [v EXCEPT !.hblock.regs[i] = [start |-> v.ret, len |-> IREG]]

enter_iregion(v, i, save) ==
  IF v.ret = 0 THEN v ELSE IF save THEN save_hblock(new_iregion(v, i)) ELSE new_iregion(v, i)

\* Reads into the cache, or into a local of the caller.  A block that had to
\* be allocated is not loaded: the destination keeps what it held.
fs2_get_iblock(v, cached, ibindex, save) ==
  IF find_blk(v.hblock.regs, ibindex) # 0
  THEN load_iblock(v, cached, find_blk(v.hblock.regs, ibindex))
  ELSE IF Used(v.hblock.regs) = HREG THEN Result(v, "HBLOCK_FULL", 0)
  ELSE enter_iregion(fs2_find_free_region(v, IREG, FALSE), Used(v.hblock.regs), save)

set_icaddr(v) == [v EXCEPT !.icaddr = v.ret]

cache_iblock(v, ibindex, save_h) ==
  IF ~Ok(v) THEN v
  ELSE set_icaddr(fs2_get_iblock([v EXCEPT !.icindex = ibindex], TRUE, ibindex, save_h))

fs2_get_iblock_c(v, ibindex, save_h, savechanges) ==
  IF ibindex = v.icindex THEN Outcome(v, "SUCCESS")
  ELSE cache_iblock(IF savechanges THEN fs2_save_iblock_c(v) ELSE Outcome(v, "SUCCESS"),
                    ibindex, save_h)

-----------------------------------------------------------------------------
(* Lookup *)

\* The block just loaded is searched only if another one follows it.
search_block(v, d, b, name) ==
  LET hits == {k \in 0..(DPB - 1) : b * DPB + k < d.eof /\ IsPrefix(name, v.dcache[k].name)}
  IN  IF ~Ok(v) THEN v
      ELSE IF b + 1 >= Before(d.regs, Used(d.regs)) THEN Outcome(v, "NO_FILE")
      ELSE IF hits = {} THEN Outcome(v, "LOOP")
      ELSE Result(v, "SUCCESS", v.dcache[Min(hits)].ino)

search_dir(v, d, name) ==
  IF ~Ok(v) THEN Result(v, v.outcome, -1)
  ELSE IF d.ftype # "DIR" THEN Result(v, "BAD_FTYPE", -1)
  ELSE OverBlocks([v EXCEPT !.ret = -1], BlocksFor(d.eof), "NO_FILE", LAMBDA w, b :
         search_block(fs2_load_dblock_c(w, find_blk(d.regs, b), FALSE), d, b, name))

cached_inode(v, i) == v.icache[i % IPB]

search_cached(v, i, name) == search_dir(v, cached_inode(v, i), name)

fs2_find_in_dir_r(v, diindex, name) ==
  search_cached(fs2_get_iblock_c(v, diindex \div IPB, FALSE, FALSE), diindex, name)

find_component(v, name) ==
  IF v.ret = -1 THEN v
  ELSE IF Len(name) > NAME_LEN THEN Result(v, "INVALID_PATH", -1)
  ELSE fs2_find_in_dir_r([v EXCEPT !.par = v.ret], v.ret, name)

fs2_find_file(v, path) ==
  LET walk[i \in 0..Len(path)] ==
        IF i = 0 THEN [fs2_get_iblock_c(v, 0, FALSE, FALSE) EXCEPT !.ret = 0]
        ELSE find_component(walk[i - 1], path[i])
  IN  IF path = <<>> THEN Result(v, "SUCCESS", 0) ELSE walk[Len(path)]

-----------------------------------------------------------------------------
(* Creation.  A step of a function is left out once the outcome is a failure *)

new_dregion(v, s, i) ==
  IF v.ret = 0 THEN v
  ELSE [v EXCEPT !.icache[s].regs[i] = [start |-> v.ret, len |-> DREG]]

\* Initialises inode s of the cached block.
fs2_init_inode(v, s, ftype) ==
  LET u == [v EXCEPT !.icache[s] = [ftype |-> ftype, eof |-> 0, regs |-> Cleared(@.regs)]]
  IN  IF ~Ok(v) THEN v
      ELSE IF ftype # "DIR" THEN u
      ELSE new_dregion(fs2_find_free_region(u, DREG, FALSE), s, 0)

put_entry(v, k, name, ciindex) ==
  IF ~Ok(v) THEN v
  ELSE fs2_save_dblock_c([v EXCEPT !.dcache[k] = [ino |-> ciindex, name |-> name]])

count_entry(v, s) == IF ~Ok(v) THEN v ELSE [v EXCEPT !.icache[s].eof = @ + 1]

put_in_new_block(v, s, name, ciindex) ==
  IF v.ret = 0 THEN v
  ELSE put_entry(fs2_load_dblock_c(count_entry(v, s), v.ret, TRUE), 0, name, ciindex)

fs2_add_dir_entry_CountedFirst(v, name, s, d, ciindex) ==
  put_entry(fs2_load_dblock_c(fs2_save_iblock_c(count_entry(v, s)),
                              find_blk(d.regs, d.eof \div DPB), FALSE),
            d.eof % DPB, name, ciindex)

\* Adds an entry to directory d, inode s of the cached block.  n and i are read
\* uninitialised; the build's -O starts such a register at 0.
fs2_add_dir_entry(v, name, s, d, ciindex) ==
  IF find_blk(d.regs, d.eof \div DPB) # 0
  THEN count_entry(put_entry(fs2_load_dblock_c(v, find_blk(d.regs, d.eof \div DPB), FALSE),
                             d.eof % DPB, name, ciindex), s)
  ELSE IF Used(d.regs) = NREG THEN Outcome(v, "FILE_FULL")
  ELSE put_in_new_block(new_dregion(fs2_find_free_region(v, DREG, FALSE), s, Used(d.regs)),
                        s, name, ciindex)

\* The entries of a new directory are written over whatever block the cache
\* held.  Whether that succeeds is not looked at.
populate(v, iindex, parent, ftype) ==
  IF ~Ok(v) \/ ftype # "DIR" THEN v
  ELSE Outcome(fs2_save_dblock_c(
         [fs2_load_dblock_c(v, cached_inode(v, iindex).regs[0].start, TRUE) EXCEPT
            !.dcache[0] = [ino |-> iindex, name |-> Dot],
            !.dcache[1] = [ino |-> parent, name |-> DotDot],
            !.icache[iindex % IPB].eof = 2]), "SUCCESS")

\* Nor is whether the entry could be added.
link_cached(v, name, iindex, parent) ==
  IF ~Ok(v) THEN v
  ELSE Outcome(fs2_add_dir_entry(v, name, parent % IPB, cached_inode(v, parent), iindex),
               "SUCCESS")

link_parent(v, name, iindex, parent) ==
  IF ~Ok(v) \/ iindex = 0 THEN v
  ELSE link_cached(fs2_get_iblock_c(v, parent \div IPB, FALSE, TRUE), name, iindex, parent)

finish_create_CountedLate(v) ==
  IF ~Ok(v) THEN v
  ELSE [save_hblock(fs2_save_iblock_c(v)) EXCEPT !.hblock.next_inode = @ + 1]

finish_create(v) ==
  IF ~Ok(v) THEN v
  ELSE save_hblock([fs2_save_iblock_c(v) EXCEPT !.hblock.next_inode = @ + 1])

fs2_create_file(v, name, parent, ftype) ==
  LET iindex == v.hblock.next_inode
  IN  finish_create(link_parent(populate(
        fs2_init_inode(fs2_get_iblock_c(v, iindex \div IPB, TRUE, FALSE), iindex % IPB, ftype),
        iindex, parent, ftype), name, iindex, parent))

\* A path that exists is refused (the comment at fs2.c 746 has it return true).
check_new(v, path) ==
  Outcome(v, IF Ok(v) THEN "UNEXPECTED_FILE"
             ELSE IF v.outcome # "NO_FILE" THEN v.outcome
             ELSE IF Last(path) = <<>> THEN "INVALID_PATH"
             ELSE "SUCCESS")

\* A parent path of one character is taken for no parent at all.
find_parent(v, path) ==
  IF ~Ok(v) THEN v
  ELSE IF path = <<>> \/ (Len(path) = 1 /\ Len(path[1]) = 1) THEN Result(v, "SUCCESS", 0)
  ELSE fs2_find_file(v, path)

create_in(v, name, ftype) == IF ~Ok(v) THEN v ELSE fs2_create_file(v, name, v.ret, ftype)

fs2_create(v, ftype, path) ==
  create_in(find_parent(check_new(fs2_find_file(v, path), path), Front(path)),
            Last(path), ftype)

-----------------------------------------------------------------------------
(* Removal *)

\* Entry k of the cached block b gives way to le, unless it is the last one.
replace_entry(v, s, b, k, le) ==
  IF ~Ok(v) THEN v
  ELSE LET last == v.icache[s].eof - 1
       IN  fs2_save_dblock_c([v EXCEPT !.icache[s].eof = last,
                                       !.dcache[k] = IF b * DPB + k = last THEN @ ELSE le])

\* The last entry is in the cached block, or comes through the general cache.
remove_entry(v, s, d, b, k) ==
  LET last == d.eof - 1
      far(w) == AsD(w.xcache)[last % DPB]
      from_far(w) == replace_entry(w, s, b, k, far(w))
  IN  IF b = last \div DPB THEN replace_entry(v, s, b, k, v.dcache[last % DPB])
      ELSE from_far(fs2_load_gp_c(v, find_blk(d.regs, last \div DPB), FALSE))

unlink_in_block(v, s, d, b, x) ==
  LET hits == {k \in 0..(DPB - 1) : /\ b * DPB + k < d.eof
                                    /\ v.dcache[(b * DPB + k) % UNL].ino = x}
  IN  IF ~Ok(v) THEN v
      ELSE IF hits = {} THEN Outcome(v, "LOOP")
      ELSE remove_entry(v, s, d, b, Min(hits))

\* Removes the entry for inode x from directory d, inode s of the cached block.
fs2_unlink(v, s, d, x) ==
  OverBlocks(v, BlocksFor(d.eof), "NO_FILE", LAMBDA w, b :
    unlink_in_block(fs2_load_dblock_c(w, find_blk(d.regs, b), FALSE), s, d, b, x))

Busy_OneEntry(inode) == inode.ftype = "DIR" /\ inode.eof > 3

Busy(inode) == inode.ftype = "DIR" /\ inode.eof > 2

save_unlinked_Not(v) == v

save_unlinked(v) == IF ~Ok(v) THEN v ELSE fs2_save_iblock_c(v)

unlink_cached(v, p, ind) ==
  IF ~Ok(v) THEN v ELSE save_unlinked(fs2_unlink(v, p % IPB, cached_inode(v, p), ind))

\* The inode of a removed file is cleared unless it is the newest; it is not
\* used again.
rm_cached(v, ind, p) ==
  LET move == ind < v.hblock.next_inode - 1
      u == IF move THEN [v EXCEPT !.icache[ind % IPB].regs = Cleared(@)] ELSE v
  IN  IF ~Ok(v) THEN v
      ELSE IF Busy(cached_inode(v, ind)) THEN Outcome(v, "BAD_FTYPE")
      ELSE unlink_cached(fs2_get_iblock_c(u, p \div IPB, FALSE, move), p, ind)

rm_found(v) ==
  IF ~Ok(v) THEN v
  ELSE IF v.ret = 0 THEN Outcome(v, "BAD_PERMISSIONS")
  ELSE rm_cached(fs2_get_iblock_c(v, v.ret \div IPB, FALSE, FALSE), v.ret, v.par)

fs2_rm(v, path) == rm_found(fs2_find_file(v, path))

-----------------------------------------------------------------------------
(* Listing and type tests *)

\* Loads the block of inodes of the file just found; ret is its index, or -1.
with_inode(v, i) == IF Ok(v) THEN [v EXCEPT !.ret = i] ELSE [v EXCEPT !.ret = -1]
load_found(v) ==
  IF ~Ok(v) THEN v ELSE with_inode(fs2_get_iblock_c(v, v.ret \div IPB, FALSE, FALSE), v.ret)

list_block(v, b, fit) ==
  IF ~Ok(v) THEN v
  ELSE Result(v, "LOOP", v.ret \cup
         {v.dcache[k].name : k \in {k \in 0..(DPB - 1) : b * DPB + k < fit}})

\* Lists entries while the buffer has room for their names; the type of the
\* inode is not looked at.
list_dir(v, d, room) ==
  OverBlocks([v EXCEPT !.ret = {}], BlocksFor(Min({room + 1, d.eof})), "SUCCESS",
    LAMBDA w, b : list_block(fs2_load_dblock_c(w, find_blk(d.regs, b), FALSE), b,
                             Min({room, d.eof})))

\* The result: whether everything fitted, and the names.
listed(v, ok) == [v EXCEPT !.ret = [ok |-> ok /\ Ok(v), names |-> IF Ok(v) THEN @ ELSE {}]]

list_found(v, room) ==
  IF ~Ok(v) THEN [v EXCEPT !.ret = [ok |-> FALSE, names |-> {}]]
  ELSE listed(list_dir(v, cached_inode(v, v.ret), room), cached_inode(v, v.ret).eof <= room)

fs2_ls(v, path, room) == list_found(load_found(fs2_find_file(v, path)), room)

has_type(v, ftype) == [v EXCEPT !.ret = Ok(v) /\ cached_inode(v, v.ret).ftype = ftype]

fs2_isftype(v, path, ftype) == has_type(load_found(fs2_find_file(v, path)), ftype)

-----------------------------------------------------------------------------
(* Start *)

fs2_load_volume(v) ==
  IF v.disk[0].kind # "H" THEN Outcome(v, "INVALID_FS")
  ELSE [v EXCEPT !.hblock = v.disk[0].data, !.outcome = "SUCCESS",
                 !.icindex = -1, !.dcaddr = -1, !.xcaddr = -1]

fs2_format_volume(v) ==
  IF NBLOCKS < 1 + IREG + DREG \/ DREG = 0 \/ FREG = 0 \/ IREG = 0
  THEN Outcome(v, "BAD_FORMAT_ARGS")
  ELSE fs2_create_file(
         [v EXCEPT !.hblock = [nblocks |-> NBLOCKS, next_block |-> 1, next_inode |-> 0,
                               regs |-> Regions(HREG)]],
         <<>>, 0, "DIR")

\* The dump walks every block of inodes; one that has no region yet is given
\* one, in memory only.
fs2_block_dump(v) ==
  LET n == (v.hblock.next_inode + IPB - 1) \div IPB
      dump[i \in 0..n] == IF i = 0 THEN v ELSE fs2_get_iblock(dump[i - 1], FALSE, i - 1, FALSE)
  IN  dump[n]

load_or_format(v) == IF Ok(v) THEN fs2_block_dump(v) ELSE fs2_format_volume(v)

init_fs(disk) == load_or_format(fs2_load_volume(PowerUp(disk)))

-----------------------------------------------------------------------------
(* What the running kernel sees: the caches first, then the disk *)

Inode(v, i) ==
  (IF v.icindex = i \div IPB THEN v.icache
                             ELSE AsI(v.disk[find_blk(v.hblock.regs, i \div IPB)]))[i % IPB]

DirEntries(v, i) ==
  LET d == Inode(v, i)
      at(k) == find_blk(d.regs, k \div DPB)
  IN  [k \in 0..(d.eof - 1) |->
         (IF v.dcaddr = at(k) THEN v.dcache ELSE AsD(v.disk[at(k)]))[k % DPB]]

\* The links below a directory, and the inode a path leads to, -1 if none: the
\* reference for fs2_find_file, with whole names and every entry looked at.
Links(v, i) == IF i = -1 \/ Inode(v, i).ftype # "DIR" THEN {}
               ELSE {e \in Range(DirEntries(v, i)) : e.name \notin {Dot, DotDot}}

Follow(v, i, name) == LET S == {e \in Links(v, i) : e.name = name}
                      IN  IF S = {} THEN -1 ELSE (CHOOSE e \in S : TRUE).ino

Lookup(v, path) ==
  LET walk[k \in 0..Len(path)] == IF k = 0 THEN 0 ELSE Follow(v, walk[k - 1], path[k])
  IN  walk[Len(path)]

AllPaths  == MkPaths \cup RmPaths \cup LookPaths \cup {<<>>}
TreeOf(v) == LET at == [p \in AllPaths |-> Lookup(v, p)]
             IN  [p \in {q \in AllPaths : at[q] # -1} |-> Inode(v, at[p]).ftype]
Live      == {Lookup(vol, p) : p \in DOMAIN tree}

-----------------------------------------------------------------------------
(* System calls.  Locals do not outlive the call. *)

Settle(v) == [v EXCEPT !.ret = 0, !.par = 0, !.log = <<>>]

Becomes(v) == vol' = Settle(v) /\ tree' = TreeOf(vol')

Returns(call, args, r, names) ==
  out' = [call |-> call, args |-> args, ret |-> r, names |-> names]

\* A call that ends with the volume v and returns its outcome, or its result.
Completes(call, path, v) == Becomes(v) /\ Returns(call, <<path>>, Ok(v), {})
Answers(call, path, v)   == Becomes(v) /\ Returns(call, <<path>>, v.ret, {})

\* What a failed listing left in the buffer is not part of its result.
Lists(path, room, v) ==
  /\ Becomes(v)
  /\ Returns("LS", <<path, room>>, v.ret.ok,
             IF v.ret.ok THEN v.ret.names \ {Dot, DotDot} ELSE {})

Mkfile(path) == vol.hblock.next_inode < MaxInodes
                /\ Completes("MKFILE", path, fs2_create(vol, "FILE", path))
Mkdir(path)  == vol.hblock.next_inode < MaxInodes
                /\ Completes("MKDIR", path, fs2_create(vol, "DIR", path))
Rm(path)     == Completes("RM", path, fs2_rm(vol, path))
Isfile(path) == Answers("ISFILE", path, fs2_isftype(vol, path, "FILE"))
Isdir(path)  == Answers("ISDIR", path, fs2_isftype(vol, path, "DIR"))
Ls(path, room) == Lists(path, room, fs2_ls(vol, path, room))

\* The machine is switched off between two calls and started again.
Reboot == Becomes(init_fs(vol.disk)) /\ UNCHANGED out

Next ==
  \/ \E p \in MkPaths : Mkfile(p) \/ Mkdir(p)
  \/ \E p \in RmPaths : Rm(p)
  \/ \E p \in LookPaths : Isfile(p) \/ Isdir(p) \/ \E r \in LsRooms : Ls(p, r)
  \/ Reboot

Boot(v) ==
  /\ vol = Settle(v)
  /\ tree = TreeOf(vol)
  /\ out = [call |-> "BOOT", args |-> <<>>, ret |-> TRUE, names |-> {}]

\* A disk of zeros, as `make create-disk` leaves it, started once; and twice.
FirstBoot  == Boot(init_fs(ZeroDisk))
SecondBoot == Boot(init_fs(init_fs(ZeroDisk).disk))

FirstBootSpec == FirstBoot  /\ [][Next]_vars
Spec          == SecondBoot /\ [][Next]_vars

-----------------------------------------------------------------------------
(* Properties *)

\* What callers see of the volume is a tree: creations, removals, listings and
\* type tests have the effect and the result the tree gives them, and a restart
\* changes nothing (fs2_create, fs2_rm, fs2_ls, fs2_isftype, init_fs).  Where the
\* comment on fs2_create (746-747) and its code disagree, the tree has the code's
\* answer: FALSE for a path that exists.
Malformed == {p \in AllPaths : \E i \in DOMAIN p : p[i] = <<>> \/ Len(p[i]) > NAME_LEN}
Abstract == INSTANCE FileTree
ImplementsTree == Abstract!Spec

\* Between two calls the caches hold what is on the disk, for every inode in
\* use (fs2.h 130: "always assumed to be both up to date and saved").
CacheSaved ==
  /\ \A i \in Live : i \div IPB = vol.icindex =>
       /\ vol.icaddr = find_blk(vol.hblock.regs, i \div IPB)
       /\ vol.icache[i % IPB] = AsI(vol.disk[vol.icaddr])[i % IPB]
  /\ vol.dcaddr \in DOMAIN vol.disk => vol.dcache = AsD(vol.disk[vol.dcaddr])

\* Regions of the inode table and of the inodes in use never overlap and lie
\* between the header and next_block (fs2_find_free_region).
Extent(r) == r.start .. (r.start + r.len - 1)
RegionsDisjoint ==
  LET own == {<<-1, i>> : i \in 0..(Used(vol.hblock.regs) - 1)}
             \cup UNION {{<<n, i>> : i \in 0..(Used(Inode(vol, n).regs) - 1)} : n \in Live}
      blocks(o) == Extent(IF o[1] = -1 THEN vol.hblock.regs[o[2]] ELSE Inode(vol, o[1]).regs[o[2]])
  IN  \A o \in own : /\ blocks(o) \subseteq 1..(vol.hblock.next_block - 1)
                     /\ \A q \in own \ {o} : blocks(o) \cap blocks(q) = {}

\* No number of an inode and no block is given out twice, over restarts too: the
\* header is on the disk whenever a call returns (finish of fs2_create_file,
\* fs2_find_free_region, fs2_load_volume).
NothingReused == [][/\ vol'.hblock.next_inode >= vol.hblock.next_inode
                    /\ vol'.hblock.next_block >= vol.hblock.next_block]_vars

\* A creation that is cut short after any number of its disk writes has, after
\* the restart, happened entirely or not at all: the inode and the entries are
\* on the disk before the directory counts them (fs2_create_file).  The header
\* is written last, so next_inode and next_block may be behind.
DiskAfter(disk, log, k) ==
  FoldLeft(LAMBDA d, w : [d EXCEPT ![w.addr] = w.block], disk, SubSeq(log, 1, k))
AllOrNothing(v) == \A k \in 0..Len(v.log) :
  TreeOf(init_fs(DiskAfter(vol.disk, v.log, k))) \in {tree, TreeOf(v)}
CreateAtomic == vol.hblock.next_inode < MaxInodes =>
  \A p \in MkPaths, t \in {"FILE", "DIR"} :
    \A v \in {fs2_create(vol, t, p)} : AllOrNothing(v)

\* Every file is linked once, by an inode below next_inode, and the header on
\* the disk agrees, so that no later creation takes an inode in use, before or
\* after a restart (fs2_create_file; fs2.h 87: "Index of the next free inode").
LinkedOnce ==
  LET links == UNION {{<<n, k>> : k \in 0..(Inode(vol, n).eof - 1)} :
                        n \in {m \in Live : Inode(vol, m).ftype = "DIR"}}
      target(l) == DirEntries(vol, l[1])[l[2]]
      real == {l \in links : target(l).name \notin {Dot, DotDot}}
  IN  /\ \A l \in real : target(l).ino \in 1..(vol.disk[0].data.next_inode - 1)
      /\ \A l, m \in real : target(l).ino = target(m).ino => l = m
=============================================================================
