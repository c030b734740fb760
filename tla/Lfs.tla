---------------------------------- MODULE Lfs ----------------------------------
(***************************************************************************)
(* The local file system: a directory kept in memory, index blocks that    *)
(* each list data blocks, free lists of both that start in the directory,  *)
(* and for each open file one index block and one data block in memory.    *)
(* Every call comes through the device switch, which disables interrupts,  *)
(* and the disk is the RAM disk, on which nothing waits: a call is a step. *)
(***************************************************************************)
EXTENDS Integers, Sequences, FiniteSets
LOCAL INSTANCE Folds
LOCAL INSTANCE SequencesExt

CONSTANTS LF_BLKSIZ, LF_IBLEN,   \* bytes per data block, data blocks per index block
          IBPERSECTOR, NIB, NDB, \* index blocks per sector, on the disk; data blocks
          LF_NUM_DIR_ENT,        \* files in the directory
          FileNames, Handles, Loads, Counts, MaxSize, MaxCalls

ASSUME LfsAssump ==
  /\ LF_BLKSIZ \in Nat \ {0} /\ LF_IBLEN \in Nat \ {0} /\ IBPERSECTOR \in Nat \ {0}
  /\ NIB \in Nat \ {0} /\ NDB \in Nat \ {0} /\ Counts \subseteq Nat

VARIABLES lf,        \* dir and dirty (Lf_data), present, disk, slot (lfltab)
          lastRead, calls
fvars == <<lf, lastRead, calls>>

LF_INULL == -1
LF_DNULL == -1
LF_IDATA == LF_BLKSIZ * LF_IBLEN
IBs == 0..(NIB - 1)
DB0 == (NIB + IBPERSECTOR - 1) \div IBPERSECTOR + 1   \* the first data block
DBs == DB0..(DB0 + NDB - 1)

Lfibclear(offset) == [next |-> LF_INULL, offset |-> offset, dba |-> CHOOSE d \in [0..(LF_IBLEN - 1) -> {LF_DNULL}] : TRUE]
Junk == [i \in 1..LF_BLKSIZ |-> 0]
FreeDb(n) == [next |-> n, data |-> <<>>]
DataDb(b) == [next |-> LF_DNULL, data |-> b]
Outside == LF_BLKSIZ      \* lfbyte beyond the data block

\* lfscreate, and the identification that lfscheck asks for.
Lfscreate(id) ==
  [dir |-> [id |-> id, dfree |-> DB0, ifree |-> 0, files |-> <<>>],
   ib |-> [i \in IBs |-> [Lfibclear(0) EXCEPT !.next = IF i = NIB - 1 THEN LF_INULL ELSE i + 1]],
   db |-> [d \in DBs |-> FreeDb(IF d = DB0 + NDB - 1 THEN LF_DNULL ELSE d + 1)]]
FreeSlot == [used |-> FALSE, name |-> "none", file |-> 0, pos |-> 0, inum |-> LF_INULL,
             ib |-> Lfibclear(0), dnum |-> 0, db |-> Junk, byte |-> Outside, ibdirty |-> FALSE,
             dbdirty |-> FALSE]

LfsInit ==
  /\ \E id \in BOOLEAN : lf =
       [dir |-> [id |-> FALSE, dfree |-> 0, ifree |-> 0, files |-> <<>>], dirty |-> FALSE,
        present |-> FALSE, disk |-> Lfscreate(id), slot |-> [h \in Handles |-> FreeSlot]]
  /\ lastRead = <<>> /\ calls = 0

-----------------------------------------------------------------------------
(* Disk and directory, as functions from one state of the file system to the next *)

WriteDir(f) == [f EXCEPT !.disk.dir = f.dir]
Ibput(f, i, x) == [f EXCEPT !.disk.ib[i] = x]
DirClean(f) == IF f.dirty THEN [WriteDir(f) EXCEPT !.dirty = FALSE] ELSE f
DataClean(f, h) ==
  IF f.slot[h].dbdirty
  THEN [f EXCEPT !.disk.db[f.slot[h].dnum] = DataDb(f.slot[h].db), !.slot[h].dbdirty = FALSE] ELSE f
LfflushNoIndex(f, h) == DataClean(DirClean(f), h)
Lfflush(f, h) ==
  LET g == DataClean(DirClean(f), h) IN
  IF g.slot[h].ibdirty THEN [Ibput(g, g.slot[h].inum, g.slot[h].ib) EXCEPT !.slot[h].ibdirty = FALSE] ELSE g
FlushBlocks(f, h) == IF f.slot[h].ibdirty \/ f.slot[h].dbdirty THEN Lfflush(f, h) ELSE f

\* The block allocated is the first of the free list; the system stops when there is none.
Lfiballoc(f) == [WriteDir([f EXCEPT !.dir.ifree = f.disk.ib[f.dir.ifree].next]) EXCEPT !.dirty = FALSE]
Lfdballoc(f) == [WriteDir([f EXCEPT !.dir.dfree = f.disk.db[f.dir.dfree].next]) EXCEPT !.dirty = FALSE]
Lfdbfree(f, d) ==
  WriteDir([f EXCEPT !.dir.dfree = d, !.disk.db[d] = FreeDb(f.dir.dfree)])

\* An index block of h comes into memory: number i as it is on disk, or a new one.
Load(f, h, i) == [f EXCEPT !.slot[h].inum = i, !.slot[h].ib = f.disk.ib[i]]
NewIb(f, h, offset) ==
  [Lfiballoc(f) EXCEPT !.slot[h].inum = f.dir.ifree, !.slot[h].ib = Lfibclear(offset), !.slot[h].ibdirty = TRUE]
FirstIb(f, h) ==
  LET s == f.slot[h] l == f.dir.files[s.file].ilist IN
  CASE s.inum = LF_INULL /\ l = LF_INULL -> [NewIb(f, h, 0) EXCEPT !.dir.files[s.file].ilist = f.dir.ifree]
    [] s.inum = LF_INULL /\ l # LF_INULL -> Load(f, h, l)
    [] s.inum # LF_INULL /\ s.pos < s.ib.offset -> Load(f, h, l)
    [] OTHER -> f
\* One turn of the loop that walks to the index block of the position.
Extend(f, h) ==
  LET s == f.slot[h] g == Lfiballoc(f) IN
  [Ibput(g, s.inum, [s.ib EXCEPT !.next = f.dir.ifree])
     EXCEPT !.slot[h].inum = f.dir.ifree, !.slot[h].ib = Lfibclear(s.ib.offset + LF_IDATA), !.slot[h].ibdirty = TRUE]
RECURSIVE Walk(_, _)
Walk(f, h) ==
  LET s == f.slot[h] IN
  IF s.pos - (s.pos % LF_IDATA) <= s.ib.offset THEN f
  ELSE Walk([(IF s.ib.next = LF_INULL THEN Extend(f, h) ELSE Load(f, h, s.ib.next)) EXCEPT !.slot[h].dnum = LF_DNULL], h)
DataBlock(f, h) ==
  LET s == f.slot[h] i == (s.pos % LF_IDATA) \div LF_BLKSIZ d == s.ib.dba[i] IN
  CASE d = LF_DNULL -> [Lfdballoc(f) EXCEPT !.slot[h] =
                       [s EXCEPT !.ib.dba[i] = f.dir.dfree, !.dnum = f.dir.dfree, !.db = Junk, !.ibdirty = TRUE]]
    [] d # LF_DNULL /\ d # s.dnum -> [f EXCEPT !.slot[h].db = f.disk.db[d].data, !.slot[h].dnum = d,
                                                !.slot[h].dbdirty = FALSE]
    [] OTHER -> f
Lfsetup(f, h) ==
  LET g == DataBlock(Walk(FirstIb(FlushBlocks(f, h), h), h), h) IN
  [g EXCEPT !.slot[h].byte = g.slot[h].pos % LF_BLKSIZ]
InBlock(f, h) == IF f.slot[h].byte >= LF_BLKSIZ THEN Lfsetup(f, h) ELSE f

Lflputc(f, h, b) ==
  LET g == InBlock(f, h) s == g.slot[h] IN
  [g EXCEPT !.dirty = @ \/ s.pos >= g.dir.files[s.file].size,
            !.dir.files[s.file].size = IF s.pos >= @ THEN @ + 1 ELSE @,
            !.slot[h] = [s EXCEPT !.db[s.byte + 1] = b, !.byte = @ + 1, !.pos = @ + 1, !.dbdirty = TRUE]]
Lflgetc(f, h) ==
  LET g == InBlock(f, h) s == g.slot[h] IN
  [f |-> [g EXCEPT !.slot[h].byte = @ + 1, !.slot[h].pos = @ + 1], byte |-> s.db[s.byte + 1]]

\* One turn of the loop of lftruncate.
RECURSIVE FreeList(_, _, _)
FreeList(f, i, ifree) ==
  IF i = ifree THEN f
  ELSE LET x == f.disk.ib[i]
           next == IF x.next = LF_INULL THEN ifree ELSE x.next
           g == FoldLeft(Lfdbfree, f, SelectSeq([k \in 1..LF_IBLEN |-> x.dba[k - 1]], LAMBDA d : d # LF_DNULL))
       IN FreeList(Ibput(g, i, [Lfibclear(0) EXCEPT !.next = next]), next, ifree)
LftruncateKeepsList(f, h) ==
  LET g == FlushBlocks(f, h) d == g.slot[h].file first == g.dir.files[d].ilist IN
  IF g.dir.files[d].size = 0 THEN f
  ELSE FreeList([g EXCEPT !.slot[h].pos = 0, !.slot[h].inum = LF_INULL, !.slot[h].dnum = LF_DNULL,
                          !.slot[h].byte = Outside, !.dir.files[d].ilist = LF_INULL,
                          !.dir.files[d].size = 0, !.dirty = TRUE], first, g.dir.ifree)
Lftruncate(f, h) ==
  LET g == FlushBlocks(f, h) d == g.slot[h].file first == g.dir.files[d].ilist IN
  IF g.dir.files[d].size = 0 THEN f
  ELSE [FreeList([g EXCEPT !.slot[h].pos = 0, !.slot[h].inum = LF_INULL, !.slot[h].dnum = LF_DNULL,
                           !.slot[h].byte = Outside, !.dir.files[d].ilist = LF_INULL,
                           !.dir.files[d].size = 0, !.dirty = TRUE], first, g.dir.ifree)
          EXCEPT !.dir.ifree = first]

-----------------------------------------------------------------------------
(* The calls *)

Called == calls < MaxCalls /\ calls' = calls + 1
Usable(h) == lf.slot[h].used /\ Called
SizeOf(h) == lf.dir.files[lf.slot[h].file].size

Lflwrite(h, b) ==
  /\ Usable(h) /\ lf.slot[h].pos + Len(b) <= MaxSize
  /\ lf' = FoldLeft(LAMBDA f, c : Lflputc(f, h, c), lf, b)
  /\ UNCHANGED lastRead
Lflread(h, k) ==
  LET n == SizeOf(h) - lf.slot[h].pos
      got == FoldLeft(LAMBDA r, i : LET c == Lflgetc(r.f, h) IN [f |-> c.f, bytes |-> Append(r.bytes, c.byte)],
                      [f |-> lf, bytes |-> <<>>], [i \in 1..(IF n < k THEN n ELSE k) |-> i])
  IN Usable(h) /\ lf' = got.f /\ lastRead' = got.bytes
Lflseek(h, offset) ==
  /\ Usable(h) /\ offset <= SizeOf(h)
  /\ lf' = [lf EXCEPT !.slot[h].pos = offset, !.slot[h].byte = Outside]
  /\ UNCHANGED lastRead
Lflcontrol(h) ==
  Usable(h) /\ lf' = Lftruncate(lf, h) /\ UNCHANGED lastRead
Lflclose(h) ==
  Usable(h) /\ lf' = [Lfflush(lf, h) EXCEPT !.slot[h] = FreeSlot] /\ UNCHANGED lastRead

\* lfsopen: a free slot and a name that is not open; then the directory is searched.
Modes == {"o", "n", "any"}   \* must exist, must not exist, neither; read and write are never told apart
FreeSlots == {h \in Handles : ~lf.slot[h].used}
NameOpen(n) == \E h \in Handles : lf.slot[h].used /\ lf.slot[h].name = n
Found(dir, n) == {i \in DOMAIN dir.files : dir.files[i].name = n}
Lfsopen(n, mode) ==
  LET h == CHOOSE h \in FreeSlots : \A g \in FreeSlots : h <= g
      dir == IF lf.present THEN lf.dir ELSE lf.disk.dir
      exists == Found(dir, n) # {}
      files == IF exists THEN dir.files ELSE Append(dir.files, [name |-> n, size |-> 0, ilist |-> LF_INULL])
      refused == \/ ~dir.id \/ (mode = "n" /\ exists)
                 \/ (~exists /\ (mode = "o" \/ Len(dir.files) >= LF_NUM_DIR_ENT))
  IN /\ Called /\ FreeSlots # {} /\ ~NameOpen(n)
     /\ lf' = IF refused THEN [lf EXCEPT !.dir = dir, !.present = dir.id]
              ELSE [lf EXCEPT !.dir = [dir EXCEPT !.files = files], !.present = TRUE,
                     !.slot[h] = [FreeSlot EXCEPT !.used = TRUE, !.name = n, !.dnum = LF_DNULL,
                                    !.file = CHOOSE i \in DOMAIN files : files[i].name = n]]
     /\ UNCHANGED lastRead

LfsNext ==
  \/ \E h \in Handles :
       \/ \E b \in Loads : Lflwrite(h, b)
       \/ \E k \in Counts : Lflread(h, k) \/ Lflseek(h, k)
       \/ Lflcontrol(h) \/ Lflclose(h)
  \/ \E n \in FileNames, mode \in Modes : Lfsopen(n, mode)
-----------------------------------------------------------------------------
(* Properties *)

LfsTypeOK ==
  /\ lf.dir.dfree \in DBs \cup {LF_DNULL, 0} /\ lf.dir.ifree \in IBs \cup {LF_INULL}
  /\ \A h \in Handles : lf.slot[h].byte \in 0..LF_BLKSIZ /\ lf.slot[h].pos \in 0..MaxSize
                        /\ lf.slot[h].inum \in IBs \cup {LF_INULL} /\ lf.slot[h].dnum \in DBs \cup {LF_DNULL, 0}

\* Blocks as they are: in memory for an open file, else on disk.
Ib(i) == LET S == {h \in Handles : lf.slot[h].used /\ lf.slot[h].inum = i} IN
         IF S = {} THEN lf.disk.ib[i] ELSE lf.slot[CHOOSE h \in S : TRUE].ib
Db(d) == LET S == {h \in Handles : lf.slot[h].used /\ lf.slot[h].dnum = d} IN
         IF S = {} THEN lf.disk.db[d].data ELSE lf.slot[CHOOSE h \in S : TRUE].db
RECURSIVE Chain(_, _)
Chain(i, n) == IF i = LF_INULL \/ n = 0 THEN <<>> ELSE <<i>> \o Chain(Ib(i).next, n - 1)
RECURSIVE FreeData(_, _)
FreeData(d, n) == IF d = LF_DNULL \/ n = 0 THEN <<>> ELSE <<d>> \o FreeData(lf.disk.db[d].next, n - 1)
Data(i) == {Ib(i).dba[k] : k \in 0..(LF_IBLEN - 1)} \ {LF_DNULL}
NoByte == -2       \* a block is not where it should be
Content(i) ==
  LET c == Chain(lf.dir.files[i].ilist, NIB)
      block(p) == IF p \div LF_IDATA < Len(c) THEN Ib(c[(p \div LF_IDATA) + 1]).dba[(p % LF_IDATA) \div LF_BLKSIZ]
                  ELSE LF_DNULL
      byte(p) == IF block(p) = LF_DNULL \/ Db(block(p)) = <<>> THEN NoByte ELSE Db(block(p))[(p % LF_BLKSIZ) + 1]
  IN [p \in 1..lf.dir.files[i].size |-> byte(p - 1)]

\* A file is what was written to it: blocks in memory and on disk together always give its
\* contents, also while others are opened, closed and truncated (lfsetup, lfflush, lftruncate).
Kept == INSTANCE Files WITH
  last <- lastRead,
  file <- [n \in FileNames |-> IF Found(lf.dir, n) = {} THEN <<-1>>
                               ELSE Content(CHOOSE i \in Found(lf.dir, n) : TRUE)],
  open <- [h \in Handles |-> IF lf.slot[h].used THEN [name |-> lf.slot[h].name, pos |-> lf.slot[h].pos]
                             ELSE [name |-> "none", pos |-> 0]]
FilesKept == Kept!Spec

\* Every index block and every data block is in its free list or in one file, once
\* (lfiballoc, lfdballoc, lfdbfree, lftruncate).
BlocksTiled ==
  lf.present =>
    LET files == DOMAIN lf.dir.files
        chains == [i \in files |-> Chain(lf.dir.files[i].ilist, NIB + 1)]
        free == Chain(lf.dir.ifree, NIB + 1)
        freedb == FreeData(lf.dir.dfree, NDB + 1)
        blocks == UNION {Range(chains[i]) : i \in files}
    IN /\ Range(free) \cup blocks = IBs
       /\ Len(free) + FoldLeft(LAMBDA n, i : n + Len(chains[i]), 0, [i \in files |-> i]) = NIB
       /\ Range(freedb) \cup UNION {Data(i) : i \in blocks} = DBs
       /\ Len(freedb) + FoldLeft(LAMBDA n, i : n + Cardinality(Data(i)), 0, SetToSeq(blocks)) = NDB

\* A directory that is not marked as changed is on disk, but for new files that are empty.
DirOnDisk ==
  lf.present /\ ~lf.dirty =>
    LET d == lf.disk.dir IN
    /\ d.dfree = lf.dir.dfree /\ d.ifree = lf.dir.ifree
    /\ \A i \in DOMAIN lf.dir.files : lf.dir.files[i].size > 0 => i \in DOMAIN d.files /\ d.files[i] = lf.dir.files[i]

\* The disk and what is in memory of it, with the calls that move blocks (lfsetup, lftruncate).
DiskSound == LfsTypeOK /\ BlocksTiled /\ DirOnDisk
=============================================================================
