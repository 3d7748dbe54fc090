---------------------------- MODULE FormatProofs ----------------------------
(***************************************************************************)
(* Proofs about format for devices of any length and any ratio of bytes    *)
(* per inode: it fails only on devices that are too small, what it leaves  *)
(* behind is laid out soundly, and, on a new device, so is what is left    *)
(* when it is interrupted after any write, if the root can be read.        *)
(***************************************************************************)
EXTENDS Format, TLAPS

-----------------------------------------------------------------------------
(***************************************************************************)
(* Arithmetic.                                                             *)
(***************************************************************************)
(* Division does not make a natural number larger.                         *)
LEMMA Quotient ==
    ASSUME NEW a \in Nat, NEW b \in Nat \ {0}
    PROVE  a \div b \in 0 .. a
<1> DEFINE q == a \div b
<1>1. q \in Int /\ q * b <= a /\ a < (q + 1) * b
  BY Z3
<1>2. q >= 0
  <2>1. CASE q <= -1
    <3>1. (q + 1) * b <= 0 BY <2>1, <1>1, Z3
    <3> QED BY <3>1, <1>1
  <2> QED BY <2>1, <1>1
<1>3. q <= q * b BY <1>1, <1>2, Z3
<1> HIDE DEF q
<1>4. q \in 0 .. a BY <1>1, <1>2, <1>3
<1> QED BY <1>4 DEF q

(* A number below Word is its own remainder, so that u64 arithmetic that   *)
(* stays in range is exact.                                                *)
LEMMA InRange ==
    ASSUME NEW x \in 0 .. Word - 1
    PROVE  x % Word = x
BY WordAssumption, Z3

(* The sizes that format computes.                                         *)
LEMMA Sizes ==
    ASSUME NEW l \in Lens, NEW r \in Ratios
    PROVE  /\ block_count(l) \in Nat
           /\ size(l) = 4096 * block_count(l)
           /\ inode_count(l, r) \in Nat
           /\ used_blocks(l, r) \in Nat
           /\ first_db_ptr(l, r) = 4096 * used_blocks(l, r)
           /\ 2048 + 256 * inode_count(l, r) <= 4096 * used_blocks(l, r)
           /\ 4096 * used_blocks(l, r) + 8192 < Word
           /\ 4096 * block_count(l) + 8192 < Word
<1>1. l \in Nat /\ 512 * l <= Word /\ r \in Nat \ {0} /\ Word \in Nat /\ Word > 1048576
  BY LensAssumption, RatiosAssumption, WordAssumption
<1>2. block_count(l) \in Nat /\ 4096 * block_count(l) <= l
  BY <1>1 DEF block_count, DEFAULT_BLOCK_SIZE
<1>3. size(l) = 4096 * block_count(l)
  BY DEF size, DEFAULT_BLOCK_SIZE
<1>4. size(l) \in Nat /\ size(l) <= l
  BY <1>2, <1>3, <1>1
<1>5. inode_count(l, r) \in 0 .. size(l)
  BY <1>4, <1>1, Quotient DEF inode_count
<1>6. inode_count(l, r) \in Nat /\ inode_count(l, r) <= l
  BY <1>5, <1>4, <1>1
<1>7. /\ used_blocks(l, r) \in Nat
      /\ 2048 + 256 * inode_count(l, r) <= 4096 * used_blocks(l, r)
      /\ 4096 * used_blocks(l, r) <= 6143 + 256 * inode_count(l, r)
  BY <1>6 DEF used_blocks, FIRST_INODE_PTR, SUPER_BLOCK_PTR, SUPER_BLOCK_SIZE,
              BOOT_BLOCK_SIZE, INODE_SIZE, DEFAULT_BLOCK_SIZE
<1>8. first_db_ptr(l, r) = 4096 * used_blocks(l, r)
  BY <1>7 DEF first_db_ptr, DEFAULT_BLOCK_SIZE
<1>9. 4096 * used_blocks(l, r) + 8192 < Word
  BY <1>7, <1>6, <1>1
<1>10. 4096 * block_count(l) + 8192 < Word
  BY <1>2, <1>1
<1> QED BY <1>2, <1>3, <1>6, <1>7, <1>8, <1>9, <1>10

(* The check of a write of up to a block at a place that format uses does  *)
(* not wrap.                                                               *)
LEMMA Bounds ==
    ASSUME NEW p \in Nat, NEW n \in Nat, p + n < Word
    PROVE  Plus(p, n) = p + n
<1>1. p + n \in 0 .. Word - 1 BY WordAssumption
<1> QED BY <1>1, InRange DEF Plus

(* When the table fits, the differences do not wrap.                       *)
LEMMA Exact ==
    ASSUME NEW l \in Lens, NEW r \in Ratios, used_blocks(l, r) < block_count(l)
    PROVE  /\ db_count(l, r) = block_count(l) - used_blocks(l, r)
           /\ db_count(l, r) \in Nat \ {0}
           /\ FreeBytes(l, r) = 4096 * db_count(l, r)
<1> DEFINE b == block_count(l)
           u == used_blocks(l, r)
<1>1. /\ b \in Nat /\ u \in Nat /\ u < b /\ 4096 * b + 8192 < Word /\ Word \in Nat
      /\ size(l) = 4096 * b /\ first_db_ptr(l, r) = 4096 * u
  BY Sizes, WordAssumption
<1>2. first_db_ptr(l, r) \div 4096 = u
  <2> HIDE DEF b, u
  <2>1. (4096 * u) \div 4096 = u BY <1>1
  <2> QED BY <2>1, <1>1
<1>3. b - u \in 0 .. Word - 1 /\ b - u \in Nat \ {0}
  <2> HIDE DEF b, u
  <2> QED BY <1>1
<1>4. 4096 * b - 4096 * u \in 0 .. Word - 1 /\ 4096 * b - 4096 * u = 4096 * (b - u)
  <2> HIDE DEF b, u
  <2> QED BY <1>1
<1>5. db_count(l, r) = b - u
  BY <1>2, <1>3, InRange DEF db_count, Minus, DEFAULT_BLOCK_SIZE
<1>6. FreeBytes(l, r) = 4096 * b - 4096 * u
  <2>1. (4096 * b - 4096 * u) % Word = 4096 * b - 4096 * u
    <3> HIDE DEF b, u
    <3> QED BY <1>4, InRange
  <2> QED BY <1>1, <2>1 DEF FreeBytes, Minus
<1> QED BY <1>3, <1>4, <1>5, <1>6

-----------------------------------------------------------------------------
(***************************************************************************)
(* The inductive invariant.  Written gives the super blocks and the nodes  *)
(* that the steps of format before pc have left in memory and on the       *)
(* device; Readable is what survives the end of the process.               *)
(***************************************************************************)
Units   == inode_count(len, bpi)
Blocks  == block_count(len) - used_blocks(len, bpi)
FirstDb == 4096 * used_blocks(len, bpi)

(* The super block as computed, after the first inode was allocated, and   *)
(* after the first data block was.                                         *)
Sb0 == [magic |-> TRUE, inode_count |-> Units, used_inode_count |-> 0,
        db_count |-> db_count(len, bpi), used_db_count |-> 0,
        inode_fl_ptr |-> 2048, db_fl_ptr |-> FirstDb]
Sb1 == InodeTaken(Sb0, IF Units > 1 THEN 2304 ELSE 0)
Sb2 == DbTaken(Sb1, IF Blocks > 1 THEN FirstDb + 4096 ELSE 0)

Late  == {"write_dir", "close_inode", "ok"}
Later == {"flush_db_list"} \union Late
Root  == {"allocate_db"} \union Later
Alloc == {"flush_inode_list", "write_inode"} \union Root
Table == {"allocate_inode"} \union Alloc

SuperBlocksAt ==
    /\ pc \in {"inodes", "blocks", "allocate_inode"} => sb = Sb0 /\ dsb = Sb0
    /\ pc = "flush_inode_list" => sb = Sb1 /\ dsb = Sb0
    /\ pc \in {"write_inode", "allocate_db"} => sb = Sb1 /\ dsb = Sb1
    /\ pc = "flush_db_list" => sb = Sb2 /\ dsb = Sb1
    /\ pc \in Late => sb = Sb2 /\ dsb = Sb2
    /\ pc = "mounted" => sb = dsb

NodesAt ==
    /\ pc \in {"blocks", "allocate_inode"} => at[2048] = Node(0, Units * 256)
    /\ pc \in {"allocate_inode", "flush_inode_list", "write_inode", "allocate_db",
               "flush_db_list"} => at[FirstDb] = Node(0, Blocks * 4096)
    /\ pc \in Alloc /\ Units > 1 => at[2304] = Node(0, (Units - 1) * 256)
    /\ pc \in Later /\ Blocks > 1 => at[FirstDb + 4096] = Node(0, (Blocks - 1) * 4096)
    /\ pc \notin Root /\ pc \notin {"failed", "off", "mounted", "refused"} =>
         at[2048].kind # "inode"

Enough ==
    /\ pc \in {"inodes", "blocks"} \union Table => block_count(len) > 0
    /\ pc \in Table => used_blocks(len, bpi) < block_count(len)
    /\ pc \in Alloc => Units > 0

Readable == at[2048].kind = "inode" => RegionsApart(dsb) /\ HeadsAreNodes(dsb)

Inv ==
    /\ len \in Lens /\ bpi \in Ratios /\ pc \in Steps
    /\ DOMAIN at = Places(len)
    /\ SuperBlocksAt
    /\ NodesAt
    /\ Enough
    /\ Readable
    /\ FailsOnlyIfTooSmall

-----------------------------------------------------------------------------
(* The constants, evaluated.                                               *)
LEMMA Constants ==
    /\ FIRST_INODE_PTR = 2048 /\ INODE_SIZE = 256 /\ DEFAULT_BLOCK_SIZE = 4096
    /\ SUPER_BLOCK_PTR = 1024 /\ SuperBlockLen = 64 /\ FreeListLen = 16
    /\ InodeLen = 234 /\ RootDirLen = 51 /\ ROOT_INODE = 114514
BY DEF FIRST_INODE_PTR, INODE_SIZE, DEFAULT_BLOCK_SIZE, SUPER_BLOCK_PTR, SuperBlockLen,
       FreeListLen, InodeLen, RootDirLen, ROOT_INODE, SUPER_BLOCK_SIZE, BOOT_BLOCK_SIZE

(* The four places are different, and the first is in the table.           *)
LEMMA FourPlaces ==
    ASSUME len \in Lens, bpi \in Ratios
    PROVE  /\ {2048, 2304, FirstDb, FirstDb + 4096} \subseteq Places(len)
           /\ FirstDb \in Nat /\ FirstDb >= 4096
           /\ first_db_ptr(len, bpi) = FirstDb
           /\ Units \in Nat /\ 2048 + 256 * Units <= FirstDb
<1>1. used_blocks(len, bpi) \in Nat /\ Units \in Nat /\ 2048 + 256 * Units <= FirstDb
      /\ first_db_ptr(len, bpi) = FirstDb
  BY Sizes DEF FirstDb, Units
<1>2. FirstDb \in Nat /\ FirstDb >= 4096
  BY <1>1 DEF FirstDb
<1> QED BY <1>1, <1>2, Constants DEF Places

(* The device accepts writes of a node or more at these places exactly     *)
(* when their regions reach that far.                                      *)
LEMMA FourBounds ==
    ASSUME len \in Lens, bpi \in Ratios
    PROVE  /\ block_count(len) \in Nat /\ used_blocks(len, bpi) \in Nat
           /\ write_fits(len, 1024, 64) <=> block_count(len) > 0
           /\ \A n \in {16, 234} : write_fits(len, 2048, n) <=> block_count(len) > 0
           /\ write_fits(len, 2304, 16) <=> block_count(len) > 0
           /\ \A n \in {16, 51} : write_fits(len, FirstDb, n)
                                 <=> used_blocks(len, bpi) < block_count(len)
           /\ write_fits(len, FirstDb + 4096, 16) <=> used_blocks(len, bpi) + 1 < block_count(len)
<1>1. block_count(len) \in Nat /\ used_blocks(len, bpi) \in Nat /\ used_blocks(len, bpi) > 0
  BY Sizes, FourPlaces DEF FirstDb
<1>2. \A p \in {1024, 2048, 2304, FirstDb, FirstDb + 4096}, n \in {16, 51, 64, 234} :
        write_fits(len, p, n) <=> p + n <= 4096 * block_count(len)
  <2> SUFFICES ASSUME NEW p \in {1024, 2048, 2304, FirstDb, FirstDb + 4096},
                      NEW n \in {16, 51, 64, 234}
               PROVE  write_fits(len, p, n) <=> p + n <= 4096 * block_count(len)
    OBVIOUS
  <2>1. 4096 * used_blocks(len, bpi) + 8192 < Word /\ Word \in Nat
    BY Sizes, WordAssumption
  <2>2. p \in Nat /\ n \in Nat /\ p + n < Word
    BY <2>1, <1>1, WordAssumption DEF FirstDb
  <2>4. Plus(p, n) = p + n
    BY <2>2, Bounds
  <2>5. size(len) = 4096 * block_count(len)
    BY Sizes
  <2> QED BY <2>4, <2>5 DEF write_fits
<1> QED BY <1>1, <1>2 DEF FirstDb

(* When the table fits, a super block with the computed counts is sound.   *)
LEMMA Apart ==
    ASSUME len \in Lens, bpi \in Ratios, Units > 0,
           used_blocks(len, bpi) < block_count(len)
    PROVE  /\ RegionsApart(Sb0) /\ RegionsApart(Sb1) /\ RegionsApart(Sb2)
           /\ db_count(len, bpi) = Blocks /\ Blocks \in Nat \ {0}
           /\ FreeBytes(len, bpi) = 4096 * Blocks
<1>1. /\ db_count(len, bpi) = Blocks /\ Blocks \in Nat \ {0}
      /\ FreeBytes(len, bpi) = 4096 * Blocks
  BY Exact DEF Blocks
<1>2. /\ block_count(len) \in Nat /\ used_blocks(len, bpi) \in Nat
      /\ 2048 + 256 * Units <= FirstDb /\ Units \in Nat
  BY Sizes, FourPlaces
<1>3. ASSUME NEW s, s.inode_count = Units, s.db_count = db_count(len, bpi)
      PROVE  RegionsApart(s)
  BY <1>1, <1>2, <1>3, Constants DEF RegionsApart, Blocks, FirstDb
<1>4. /\ Sb0.inode_count = Units /\ Sb0.db_count = db_count(len, bpi)
      /\ Sb1.inode_count = Units /\ Sb1.db_count = db_count(len, bpi)
      /\ Sb2.inode_count = Units /\ Sb2.db_count = db_count(len, bpi)
  BY DEF Sb0, Sb1, Sb2, InodeTaken, DbTaken
<1>5. RegionsApart(Sb0)
  BY <1>3, <1>4
<1>6. RegionsApart(Sb1)
  BY <1>3, <1>4
<1>7. RegionsApart(Sb2)
  BY <1>3, <1>4
<1> QED BY <1>1, <1>5, <1>6, <1>7

-----------------------------------------------------------------------------
(***************************************************************************)
(* The steps.                                                              *)
(***************************************************************************)
LEMMA Initially == Init => Inv
<1> SUFFICES ASSUME Init PROVE Inv
  OBVIOUS
<1>1. len \in Lens /\ bpi \in Ratios /\ pc = "super" /\ at = [p \in Places(len) |-> Blank]
  BY DEF Init
<1>2. DOMAIN at = Places(len) /\ at[2048] = Blank
  BY <1>1, FourPlaces
<1>3. SuperBlocksAt /\ NodesAt /\ Enough /\ Readable /\ FailsOnlyIfTooSmall /\ pc \in Steps
  BY <1>1, <1>2 DEF SuperBlocksAt, NodesAt, Enough, Readable, FailsOnlyIfTooSmall, Blank,
     Steps, Late, Later, Root, Alloc, Table
<1> QED BY <1>1, <1>2, <1>3 DEF Inv

(* What depends only on the device and the ratio.                          *)
LEMMA Fixed ==
    ASSUME UNCHANGED <<len, bpi>>
    PROVE  /\ Units' = Units /\ Blocks' = Blocks /\ FirstDb' = FirstDb
           /\ Sb0' = Sb0 /\ Sb1' = Sb1 /\ Sb2' = Sb2
           /\ Fits' = Fits
           /\ block_count(len)' = block_count(len)
           /\ used_blocks(len, bpi)' = used_blocks(len, bpi)
           /\ Places(len)' = Places(len)
<1>1. len' = len /\ bpi' = bpi OBVIOUS
<1>2. Units' = Units /\ Blocks' = Blocks /\ FirstDb' = FirstDb /\ Fits' = Fits
      /\ block_count(len)' = block_count(len)
      /\ used_blocks(len, bpi)' = used_blocks(len, bpi)
      /\ Places(len)' = Places(len)
  BY <1>1 DEF Units, Blocks, FirstDb, Fits
<1>3. Sb0' = Sb0 /\ Sb1' = Sb1 /\ Sb2' = Sb2
  BY <1>1, <1>2 DEF Sb0, Sb1, Sb2, InodeTaken, DbTaken
<1> QED BY <1>2, <1>3

LEMMA SuperStep == Inv /\ FormatSuper => Inv'
<1> SUFFICES ASSUME Inv, FormatSuper PROVE Inv'
  OBVIOUS
<1>1. /\ pc = "super" /\ at' = at /\ len' = len /\ bpi' = bpi
      /\ sb' = Sb0
      /\ \/ block_count(len) > 0 /\ dsb' = Sb0 /\ pc' = "inodes"
         \/ ~(block_count(len) > 0) /\ dsb' = dsb /\ pc' = "failed"
  BY FourBounds, FourPlaces, Constants DEF FormatSuper, flush_sb, Inv, Sb0, Units
<1>2. at[2048].kind # "inode"
  BY <1>1 DEF Inv, NodesAt, Root, Later, Late
<1>3. pc' = "failed" => ~Fits
  BY <1>1, FourBounds DEF Fits, Inv
<1>4. SuperBlocksAt' /\ NodesAt'
  BY <1>1, <1>2, Fixed DEF SuperBlocksAt, NodesAt, Late, Later, Root, Alloc
<1>5. Enough' /\ Readable' /\ FailsOnlyIfTooSmall'
  BY <1>1, <1>2, <1>3, Fixed DEF Enough, Readable, FailsOnlyIfTooSmall, Late, Later, Root,
     Alloc, Table
<1> QED BY <1>1, <1>4, <1>5, Fixed DEF Inv, Steps

LEMMA InodesStep == Inv /\ FormatInodes => Inv'
<1> SUFFICES ASSUME Inv, FormatInodes PROVE Inv'
  OBVIOUS
<1>1. /\ pc = "inodes" /\ len' = len /\ bpi' = bpi /\ sb' = sb /\ dsb' = dsb
      /\ sb = Sb0 /\ dsb = Sb0 /\ block_count(len) > 0
      /\ len \in Lens /\ bpi \in Ratios
  BY DEF FormatInodes, Inv, SuperBlocksAt, Enough
<1>2. at' = Holding(2048, Node(0, Units * 256)) /\ pc' = "blocks"
  BY <1>1, FourBounds, Constants DEF FormatInodes, Put, Sb0
<1>3. at'[2048] = Node(0, Units * 256) /\ DOMAIN at' = Places(len)
  BY <1>1, <1>2, FourPlaces DEF Inv, Holding
<1>4. SuperBlocksAt' /\ NodesAt'
  BY <1>1, <1>2, <1>3, Fixed DEF SuperBlocksAt, NodesAt, Late, Later, Root, Alloc, Node
<1>5. Enough' /\ Readable' /\ FailsOnlyIfTooSmall'
  BY <1>1, <1>2, <1>3, Fixed DEF Enough, Readable, FailsOnlyIfTooSmall, Late, Later, Root,
     Alloc, Table, Node
<1> QED BY <1>1, <1>2, <1>3, <1>4, <1>5, Fixed DEF Inv, Steps

LEMMA BlocksStep == Inv /\ FormatBlocks => Inv'
<1> SUFFICES ASSUME Inv, FormatBlocks PROVE Inv'
  OBVIOUS
<1>1. /\ pc = "blocks" /\ len' = len /\ bpi' = bpi /\ sb' = sb /\ dsb' = dsb
      /\ sb = Sb0 /\ dsb = Sb0 /\ block_count(len) > 0
      /\ len \in Lens /\ bpi \in Ratios
      /\ at[2048] = Node(0, Units * 256) /\ at[2048].kind # "inode"
  BY DEF FormatBlocks, Inv, SuperBlocksAt, Enough, NodesAt, Node
<1>2. CASE used_blocks(len, bpi) < block_count(len)
  <2>1. FreeBytes(len, bpi) = Blocks * 4096
    BY <1>1, <1>2, Exact DEF Blocks
  <2>2. at' = Holding(FirstDb, Node(0, Blocks * 4096)) /\ pc' = "allocate_inode"
    BY <1>1, <1>2, <2>1, FourBounds, FourPlaces, Constants DEF FormatBlocks, Put
  <2>3. /\ at'[FirstDb] = Node(0, Blocks * 4096) /\ at'[2048] = at[2048]
        /\ DOMAIN at' = Places(len)
    BY <1>1, <2>2, FourPlaces DEF Inv, Holding
  <2>4. SuperBlocksAt' /\ NodesAt'
    BY <1>1, <2>2, <2>3, Fixed DEF SuperBlocksAt, NodesAt, Late, Later, Root, Alloc
  <2>5. Enough' /\ Readable' /\ FailsOnlyIfTooSmall'
    BY <1>1, <1>2, <2>2, <2>3, Fixed DEF Enough, Readable, FailsOnlyIfTooSmall, Late, Later,
       Root, Alloc, Table
  <2> QED BY <1>1, <2>2, <2>3, <2>4, <2>5, Fixed DEF Inv, Steps
<1>3. CASE ~(used_blocks(len, bpi) < block_count(len))
  <2>1. at' = at /\ pc' = "failed"
    BY <1>1, <1>3, FourBounds, FourPlaces, Constants DEF FormatBlocks, Put
  <2>2. SuperBlocksAt' /\ NodesAt' /\ Enough' /\ Readable' /\ FailsOnlyIfTooSmall'
    BY <1>1, <1>3, <2>1, Fixed DEF SuperBlocksAt, NodesAt, Enough, Readable,
       FailsOnlyIfTooSmall, Fits, Late, Later, Root, Alloc, Table
  <2> QED BY <1>1, <2>1, <2>2, Fixed DEF Inv, Steps
<1> QED BY <1>2, <1>3

LEMMA AllocateInodeStep == Inv /\ AllocateInode => Inv'
<1> SUFFICES ASSUME Inv, AllocateInode PROVE Inv'
  OBVIOUS
<1>1. /\ pc = "allocate_inode" /\ len' = len /\ bpi' = bpi /\ dsb' = dsb
      /\ sb = Sb0 /\ dsb = Sb0
      /\ block_count(len) > 0 /\ used_blocks(len, bpi) < block_count(len)
      /\ len \in Lens /\ bpi \in Ratios
      /\ at[2048] = Node(0, Units * 256) /\ at[FirstDb] = Node(0, Blocks * 4096)
      /\ at[2048].kind # "inode" /\ DOMAIN at = Places(len)
      /\ Units \in Nat
  BY FourPlaces DEF AllocateInode, Inv, SuperBlocksAt, Enough, NodesAt, Table, Node
<1>2. CASE Units > 0
  <2>1. /\ Splits(2048, 256) <=> Units > 1
        /\ Left(2048, 256) = (Units - 1) * 256
        /\ at[2048].next = 0
    BY <1>1, <1>2, Constants DEF Splits, Left, Node
  <2>2. CanSplit(2048, 256)
    BY <1>1, FourBounds, Constants DEF CanSplit
  <2>3. /\ pc' = "flush_inode_list" /\ sb' = Sb1
        /\ at' = IF Units > 1 THEN Holding(2304, Node(0, (Units - 1) * 256)) ELSE at
    <3>1. NewHead(2048, 256) = IF Units > 1 THEN 2304 ELSE 0
      BY <2>1 DEF NewHead
    <3>2. AfterSplit(2048, 256) = IF Units > 1 THEN Holding(2304, Node(0, (Units - 1) * 256))
                                               ELSE at
      BY <2>1 DEF AfterSplit
    <3>3. sb.used_inode_count = 0 /\ sb.inode_count = Units /\ sb.inode_fl_ptr = 2048
      BY <1>1 DEF Sb0
    <3>4. /\ pc' = "flush_inode_list" /\ at' = AfterSplit(2048, 256)
          /\ sb' = InodeTaken(sb, NewHead(2048, 256))
      BY <3>3, <1>2, <2>2, Constants DEF AllocateInode
    <3>5. sb' = Sb1
      BY <3>4, <3>1, <1>1 DEF Sb1
    <3> QED BY <3>2, <3>4, <3>5
  <2>4. /\ at'[2048] = at[2048] /\ at'[FirstDb] = at[FirstDb] /\ DOMAIN at' = Places(len)
        /\ Units > 1 => at'[2304] = Node(0, (Units - 1) * 256)
    BY <1>1, <2>3, FourPlaces DEF Holding
  <2>5. SuperBlocksAt' /\ NodesAt'
    BY <1>1, <2>3, <2>4, Fixed DEF SuperBlocksAt, NodesAt, Late, Later, Root, Alloc
  <2>6. Enough' /\ Readable' /\ FailsOnlyIfTooSmall'
    BY <1>1, <1>2, <2>3, <2>4, Fixed DEF Enough, Readable, FailsOnlyIfTooSmall, Late, Later,
       Root, Alloc, Table
  <2> QED BY <1>1, <2>3, <2>4, <2>5, <2>6, Fixed DEF Inv, Steps
<1>3. CASE ~(Units > 0)
  <2>1. at' = at /\ pc' = "failed" /\ sb' = sb
    BY <1>1, <1>3 DEF AllocateInode, Sb0
  <2>2. SuperBlocksAt' /\ NodesAt' /\ Enough' /\ Readable' /\ FailsOnlyIfTooSmall'
    BY <1>1, <1>3, <2>1, Fixed DEF SuperBlocksAt, NodesAt, Enough, Readable,
       FailsOnlyIfTooSmall, Fits, Units, Late, Later, Root, Alloc, Table
  <2> QED BY <1>1, <2>1, <2>2, Fixed DEF Inv, Steps
<1> QED BY <1>2, <1>3

LEMMA FlushInodeListStep == Inv /\ FlushInodeList => Inv'
<1> SUFFICES ASSUME Inv, FlushInodeList PROVE Inv'
  OBVIOUS
<1>1. /\ pc = "flush_inode_list" /\ len' = len /\ bpi' = bpi /\ sb' = sb /\ at' = at
      /\ sb = Sb1 /\ block_count(len) > 0
      /\ at[2048].kind # "inode"
  BY DEF FlushInodeList, Inv, SuperBlocksAt, Enough, NodesAt, Table, Alloc, Root, Later, Late
<1>2. dsb' = Sb1 /\ pc' = "write_inode"
  BY <1>1, FourBounds, Constants DEF FlushInodeList, flush_sb, Inv
<1>3. SuperBlocksAt' /\ NodesAt'
  BY <1>1, <1>2, Fixed DEF Inv, SuperBlocksAt, NodesAt, Late, Later, Root, Alloc
<1>4. Enough' /\ Readable' /\ FailsOnlyIfTooSmall'
  BY <1>1, <1>2, Fixed DEF Inv, Enough, Readable, FailsOnlyIfTooSmall, Late, Later, Root,
     Alloc, Table
<1> QED BY <1>1, <1>2, <1>3, <1>4, Fixed DEF Inv, Steps

(* The two lists of a super block in the two states they can be in when    *)
(* the root is written.                                                    *)
LEMMA Heads1 ==
    ASSUME Inv, pc \in Alloc,
           Units > 1 => at[2304] = Node(0, (Units - 1) * 256),
           at[FirstDb] = Node(0, Blocks * 4096)
    PROVE  HeadsAreNodes(Sb1)
<1>1. Units \in Nat /\ db_count(len, bpi) = Blocks /\ Blocks \in Nat \ {0}
  BY FourPlaces, Apart DEF Inv, Enough, Table
<1>2. /\ Sb1.inode_count = Units /\ Sb1.used_inode_count = 1
      /\ Sb1.db_count = Blocks /\ Sb1.used_db_count = 0 /\ Sb1.db_fl_ptr = FirstDb
      /\ Units > 1 => Sb1.inode_fl_ptr = 2304
  BY <1>1 DEF Sb0, Sb1, InodeTaken
<1> QED BY <1>1, <1>2, Constants DEF HeadsAreNodes

LEMMA Heads2 ==
    ASSUME Inv, pc \in Alloc,
           Units > 1 => at[2304] = Node(0, (Units - 1) * 256),
           Blocks > 1 => at[FirstDb + 4096] = Node(0, (Blocks - 1) * 4096)
    PROVE  HeadsAreNodes(Sb2)
<1>1. Units \in Nat /\ db_count(len, bpi) = Blocks /\ Blocks \in Nat \ {0}
  BY FourPlaces, Apart DEF Inv, Enough, Table
<1>2. /\ Sb2.inode_count = Units /\ Sb2.used_inode_count = 1
      /\ Sb2.db_count = Blocks /\ Sb2.used_db_count = 1
      /\ Units > 1 => Sb2.inode_fl_ptr = 2304
      /\ Blocks > 1 => Sb2.db_fl_ptr = FirstDb + 4096
  BY <1>1 DEF Sb0, Sb1, Sb2, InodeTaken, DbTaken
<1> QED BY <1>1, <1>2, Constants DEF HeadsAreNodes

(* What the invariant says once the root inode is allocated.               *)
LEMMA Allocated ==
    ASSUME Inv, pc \in Alloc
    PROVE  /\ len \in Lens /\ bpi \in Ratios /\ DOMAIN at = Places(len)
           /\ Units \in Nat /\ Units > 0 /\ Blocks \in Nat /\ Blocks > 0
           /\ block_count(len) \in Nat /\ used_blocks(len, bpi) \in Nat
           /\ block_count(len) > 0 /\ used_blocks(len, bpi) < block_count(len)
           /\ RegionsApart(Sb1) /\ RegionsApart(Sb2)
           /\ Units > 1 => at[2304] = Node(0, (Units - 1) * 256)
<1>1. /\ len \in Lens /\ bpi \in Ratios /\ DOMAIN at = Places(len)
      /\ block_count(len) > 0 /\ used_blocks(len, bpi) < block_count(len) /\ Units > 0
      /\ Units > 1 => at[2304] = Node(0, (Units - 1) * 256)
  BY DEF Inv, Enough, Table, NodesAt
<1> QED BY <1>1, Apart, Sizes, FourPlaces

LEMMA WriteInodeStep == Inv /\ WriteInode => Inv'
<1> SUFFICES ASSUME Inv, WriteInode PROVE Inv'
  OBVIOUS
<1>1. /\ pc = "write_inode" /\ len' = len /\ bpi' = bpi /\ sb' = sb /\ dsb' = dsb
      /\ sb = Sb1 /\ dsb = Sb1 /\ at[FirstDb] = Node(0, Blocks * 4096)
      /\ pc \in Alloc
  BY DEF WriteInode, Inv, SuperBlocksAt, NodesAt, Alloc
<1>2. ino_of(FIRST_INODE_PTR) = ROOT_INODE
  BY Constants DEF ino_of
<1>3. at' = Holding(2048, RootDir(0)) /\ pc' = "allocate_db"
  BY <1>1, <1>2, Allocated, FourBounds, Constants DEF WriteInode, Put
<1>4. /\ at'[FirstDb] = at[FirstDb] /\ at'[2304] = at[2304] /\ DOMAIN at' = Places(len)
      /\ \A p \in {2304, FirstDb} : at'[p] = at[p]
  BY <1>1, <1>3, Allocated, FourPlaces DEF Holding
<1>5. SuperBlocksAt' /\ NodesAt' /\ Enough' /\ FailsOnlyIfTooSmall'
  BY <1>1, <1>3, <1>4, Fixed, Allocated DEF SuperBlocksAt, NodesAt, Enough,
     FailsOnlyIfTooSmall, Late, Later, Root, Alloc, Table
<1>6. HeadsAreNodes(Sb1)
  BY <1>1, Allocated, Heads1
<1>7. HeadsAreNodes(Sb1)'
  <2>1. /\ Sb1.inode_count = Units /\ Sb1.used_inode_count = 1
        /\ Sb1.db_fl_ptr = FirstDb
        /\ Units > 1 => Sb1.inode_fl_ptr = 2304
    BY <1>1, Allocated DEF Sb0, Sb1, InodeTaken
  <2> QED BY <1>1, <1>4, <1>6, <2>1, Fixed, Allocated DEF HeadsAreNodes
<1>8. RegionsApart(Sb1)'
  BY <1>1, <1>4, Fixed, Allocated DEF RegionsApart
<1>9. Readable'
  BY <1>1, <1>7, <1>8, Fixed DEF Readable
<1> QED BY <1>1, <1>3, <1>4, <1>5, <1>9, Fixed, Allocated DEF Inv, Steps

LEMMA AllocateDbStep == Inv /\ AllocateDb => Inv'
<1> SUFFICES ASSUME Inv, AllocateDb PROVE Inv'
  OBVIOUS
<1>1. /\ pc = "allocate_db" /\ len' = len /\ bpi' = bpi /\ dsb' = dsb
      /\ sb = Sb1 /\ dsb = Sb1 /\ at[FirstDb] = Node(0, Blocks * 4096)
      /\ pc \in Alloc
  BY DEF AllocateDb, Inv, SuperBlocksAt, NodesAt, Alloc, Root
<1>2. /\ Sb1.used_db_count = 0 /\ Sb1.db_count = Blocks /\ Sb1.db_fl_ptr = FirstDb
  BY <1>1, Allocated, Apart DEF Sb0, Sb1, InodeTaken
<1>3. /\ Splits(FirstDb, 4096) <=> Blocks > 1
      /\ Left(FirstDb, 4096) = (Blocks - 1) * 4096
      /\ at[FirstDb].next = 0
  BY <1>1, Allocated, Constants DEF Splits, Left, Node
<1>4. CanSplit(FirstDb, 4096)
  BY <1>1, <1>3, Allocated, FourBounds, Constants DEF CanSplit, Blocks
<1>5. NewHead(FirstDb, 4096) = IF Blocks > 1 THEN FirstDb + 4096 ELSE 0
  BY <1>3 DEF NewHead
<1>6. AfterSplit(FirstDb, 4096)
        = IF Blocks > 1 THEN Holding(FirstDb + 4096, Node(0, (Blocks - 1) * 4096)) ELSE at
  BY <1>3 DEF AfterSplit
<1>7. /\ pc' = "flush_db_list" /\ at' = AfterSplit(FirstDb, 4096)
      /\ sb' = DbTaken(Sb1, NewHead(FirstDb, 4096))
  BY <1>1, <1>2, <1>4, Allocated, Constants DEF AllocateDb
<1>8. sb' = Sb2
  BY <1>7, <1>5 DEF Sb2
<1>9. /\ \A p \in {2048, 2304, FirstDb} : at'[p] = at[p]
      /\ Blocks > 1 => at'[FirstDb + 4096] = Node(0, (Blocks - 1) * 4096)
      /\ DOMAIN at' = Places(len)
  BY <1>1, <1>6, <1>7, Allocated, FourPlaces DEF Holding
<1>10. SuperBlocksAt' /\ NodesAt' /\ Enough' /\ FailsOnlyIfTooSmall'
  BY <1>1, <1>7, <1>8, <1>9, Fixed, Allocated DEF SuperBlocksAt, NodesAt, Enough,
     FailsOnlyIfTooSmall, Late, Later, Root, Alloc, Table
<1>11. HeadsAreNodes(Sb1)'
  <2>1. HeadsAreNodes(Sb1)
    BY <1>1, Allocated, Heads1
  <2>2. Sb1.inode_count = Units /\ Sb1.used_inode_count = 1
        /\ (Units > 1 => Sb1.inode_fl_ptr = 2304)
    BY <1>1, Allocated DEF Sb0, Sb1, InodeTaken
  <2> QED BY <1>1, <1>2, <1>9, <2>1, <2>2, Fixed, Allocated DEF HeadsAreNodes
<1>12. RegionsApart(Sb1)'
  BY <1>1, Fixed, Allocated DEF RegionsApart
<1>13. Readable'
  BY <1>1, <1>11, <1>12, Fixed DEF Readable
<1> QED BY <1>1, <1>7, <1>9, <1>10, <1>13, Fixed, Allocated DEF Inv, Steps

LEMMA FlushDbListStep == Inv /\ FlushDbList => Inv'
<1> SUFFICES ASSUME Inv, FlushDbList PROVE Inv'
  OBVIOUS
<1>1. /\ pc = "flush_db_list" /\ len' = len /\ bpi' = bpi /\ sb' = sb /\ at' = at
      /\ sb = Sb2 /\ pc \in Alloc
      /\ Blocks > 1 => at[FirstDb + 4096] = Node(0, (Blocks - 1) * 4096)
  BY DEF FlushDbList, Inv, SuperBlocksAt, NodesAt, Alloc, Root, Later
<1>2. dsb' = Sb2 /\ pc' = "write_dir"
  BY <1>1, Allocated, FourBounds, Constants DEF FlushDbList, flush_sb
<1>3. SuperBlocksAt' /\ NodesAt' /\ Enough' /\ FailsOnlyIfTooSmall'
  BY <1>1, <1>2, Fixed, Allocated DEF SuperBlocksAt, NodesAt, Enough,
     FailsOnlyIfTooSmall, Late, Later, Root, Alloc, Table
<1>4. HeadsAreNodes(Sb2) /\ RegionsApart(Sb2)
  BY <1>1, Allocated, Heads2
<1>5. Readable'
  BY <1>1, <1>2, <1>4, Fixed DEF Readable, HeadsAreNodes, RegionsApart
<1> QED BY <1>1, <1>2, <1>3, <1>5, Fixed, Allocated DEF Inv, Steps

(* The last two writes touch no node.                                      *)
LEMMA LastWrites ==
    ASSUME Inv, pc \in {"write_dir", "close_inode"}, pc' \in {"close_inode", "ok"},
           UNCHANGED <<len, bpi, sb, dsb>>, DOMAIN at' = DOMAIN at,
           \A p \in {2304, FirstDb + 4096} : at'[p] = at[p]
    PROVE  Inv'
<1>1. /\ len' = len /\ bpi' = bpi /\ sb' = sb /\ dsb' = dsb
      /\ sb = Sb2 /\ dsb = Sb2 /\ pc \in Alloc
      /\ Blocks > 1 => at[FirstDb + 4096] = Node(0, (Blocks - 1) * 4096)
  BY DEF Inv, SuperBlocksAt, NodesAt, Alloc, Root, Later, Late
<1>2. SuperBlocksAt' /\ NodesAt' /\ Enough' /\ FailsOnlyIfTooSmall'
  BY <1>1, Fixed, Allocated DEF SuperBlocksAt, NodesAt, Enough, FailsOnlyIfTooSmall, Late,
     Later, Root, Alloc, Table
<1>3. HeadsAreNodes(Sb2)'
  <2>1. HeadsAreNodes(Sb2)
    BY <1>1, Allocated, Heads2
  <2>2. /\ Sb2.inode_count = Units /\ Sb2.used_inode_count = 1
        /\ Sb2.db_count = Blocks /\ Sb2.used_db_count = 1
        /\ Units > 1 => Sb2.inode_fl_ptr = 2304
        /\ Blocks > 1 => Sb2.db_fl_ptr = FirstDb + 4096
    BY <1>1, Allocated, Apart DEF Sb0, Sb1, Sb2, InodeTaken, DbTaken
  <2> QED BY <1>1, <2>1, <2>2, Fixed, Allocated DEF HeadsAreNodes
<1>4. RegionsApart(Sb2)'
  BY <1>1, Fixed, Allocated DEF RegionsApart
<1>5. Readable'
  BY <1>1, <1>3, <1>4, Fixed DEF Readable
<1> QED BY <1>1, <1>2, <1>5, Fixed, Allocated DEF Inv, Steps

LEMMA WriteDirStep == Inv /\ WriteDir => Inv'
<1> SUFFICES ASSUME Inv, WriteDir PROVE Inv'
  OBVIOUS
<1>1. pc = "write_dir" /\ UNCHANGED <<len, bpi, sb, dsb>> /\ pc \in Alloc
  BY DEF WriteDir, Alloc, Root, Later, Late
<1>2. at' = Holding(FirstDb, DirData) /\ pc' = "close_inode"
  BY <1>1, Allocated, FourBounds, FourPlaces, Constants DEF WriteDir, Put
<1>3. DOMAIN at' = DOMAIN at /\ \A p \in {2304, FirstDb + 4096} : at'[p] = at[p]
  BY <1>1, <1>2, Allocated, FourPlaces DEF Holding
<1> QED BY <1>1, <1>2, <1>3, LastWrites

LEMMA CloseInodeStep == Inv /\ CloseInode => Inv'
<1> SUFFICES ASSUME Inv, CloseInode PROVE Inv'
  OBVIOUS
<1>1. pc = "close_inode" /\ UNCHANGED <<len, bpi, sb, dsb>> /\ pc \in Alloc
  BY DEF CloseInode, Alloc, Root, Later, Late
<1>2. at' = Holding(2048, RootDir(2)) /\ pc' = "ok"
  BY <1>1, Allocated, FourBounds, Constants DEF CloseInode, Put
<1>3. DOMAIN at' = DOMAIN at /\ \A p \in {2304, FirstDb + 4096} : at'[p] = at[p]
  BY <1>1, <1>2, Allocated, FourPlaces DEF Holding
<1> QED BY <1>1, <1>2, <1>3, LastWrites

(* Whatever is on the device stays when the process ends or opens it.      *)
LEMMA OutsideStep == Inv /\ (Stop \/ Open \/ UNCHANGED fvars) => Inv'
<1> SUFFICES ASSUME Inv, Stop \/ Open \/ UNCHANGED fvars PROVE Inv'
  OBVIOUS
<1>1. CASE UNCHANGED fvars
  BY <1>1 DEF fvars, Inv, Enough, Readable, FailsOnlyIfTooSmall, SuperBlocksAt, NodesAt,
     Units, Blocks, FirstDb, Sb0, Sb1, Sb2, Fits, RegionsApart, HeadsAreNodes,
     InodeTaken, DbTaken
<1>2. CASE Stop \/ Open
  <2>1. /\ len' = len /\ bpi' = bpi /\ dsb' = dsb /\ at' = at
        /\ pc' \in {"off", "mounted", "refused"}
        /\ pc' = "mounted" => sb' = dsb'
    BY <1>2 DEF Stop, Open
  <2>2. SuperBlocksAt' /\ NodesAt' /\ Enough' /\ FailsOnlyIfTooSmall'
    BY <2>1 DEF SuperBlocksAt, NodesAt, Enough, FailsOnlyIfTooSmall, Late, Later, Root,
       Alloc, Table
  <2>3. Readable'
    BY <2>1 DEF Inv, Readable, RegionsApart, HeadsAreNodes
  <2> QED BY <2>1, <2>2, <2>3 DEF Inv, Steps
<1> QED BY <1>1, <1>2

(* Inv holds at every step, the end of the process anywhere included.      *)
THEOREM InvHolds == FormatSpec => []Inv
<1>1. Init => Inv
  BY Initially
<1>2. Inv /\ [Step]_fvars => Inv'
  BY SuperStep, InodesStep, BlocksStep, AllocateInodeStep, FlushInodeListStep,
     WriteInodeStep, AllocateDbStep, FlushDbListStep, WriteDirStep, CloseInodeStep,
     OutsideStep DEF Step
<1> QED BY <1>1, <1>2, PTL DEF FormatSpec

-----------------------------------------------------------------------------
(***************************************************************************)
(* What follows.                                                           *)
(***************************************************************************)
(* format fails only on a device that is too small for the ratio it was    *)
(* called with: the check of write_at catches a table that does not fit,   *)
(* although the computed sizes wrap, and the root gets its number.         *)
THEOREM FailsOnlyTooSmall == FormatSpec => []FailsOnlyIfTooSmall
<1>1. Inv => FailsOnlyIfTooSmall
  BY DEF Inv
<1> QED BY <1>1, InvHolds, PTL

(* Inode numbers and pointers into the table designate each other.         *)
LEMMA InodeNumbers ==
    ASSUME NEW k \in Nat
    PROVE  /\ ptr_of(ROOT_INODE + k) = 2048 + 256 * k
           /\ ino_of(ptr_of(ROOT_INODE + k)) = ROOT_INODE + k
<1>1. ptr_of(ROOT_INODE + k) = 2048 + 256 * k
  BY Constants DEF ptr_of
<1>2. (2048 + 256 * k - 2048) \div 256 = k
  OBVIOUS
<1> QED BY <1>1, <1>2, Constants DEF ino_of

(* What format leaves on a device that is large enough is laid out         *)
(* soundly: regions do not overlap and end with the device, every unit can *)
(* be written, numbers and pointers agree, and the extents are exact.      *)
THEOREM FormatIsSound == FormatSpec => []FormattedIsSound
<1>1. Inv => FormattedIsSound
  <2> SUFFICES ASSUME Inv, pc = "ok" PROVE FormattedIsSound
    BY DEF FormattedIsSound
  <2>1. /\ pc \in Alloc /\ sb = Sb2
    BY DEF Inv, SuperBlocksAt, Alloc, Root, Later, Late
  <2>2. sb.inode_count = Units /\ sb.db_count = Blocks
    BY <2>1, Allocated, Apart DEF Sb0, Sb1, Sb2, InodeTaken, DbTaken
  <2>3. /\ Units \in Nat /\ Blocks \in Nat
        /\ 2048 + 256 * Units <= FirstDb /\ FirstDb \in Nat
        /\ first_db_ptr(len, bpi) = FirstDb
        /\ FirstDb + 4096 * Blocks = 4096 * block_count(len)
        /\ size(len) = 4096 * block_count(len)
        /\ 4096 * block_count(len) + 8192 < Word
        /\ block_count(len) \in Nat /\ Word \in Nat
    BY <2>1, Allocated, FourPlaces, Sizes, WordAssumption DEF Blocks, FirstDb
  <2>4. RegionsApart(sb)
    BY <2>1, Allocated
  <2>5. ASSUME NEW i \in ROOT_INODE .. ROOT_INODE + sb.inode_count - 1
        PROVE  /\ ino_of(ptr_of(i)) = i
               /\ ptr_of(i) >= SUPER_BLOCK_PTR + SuperBlockLen
               /\ ptr_of(i) + INODE_SIZE <= first_db_ptr(len, bpi)
               /\ write_fits(len, ptr_of(i), InodeLen)
    <3>1. PICK k \in Nat : i = ROOT_INODE + k /\ k < Units
      <4>1. i - ROOT_INODE \in Nat /\ i = ROOT_INODE + (i - ROOT_INODE)
            /\ i - ROOT_INODE < Units
        BY <2>2, <2>3, <2>5, Constants
      <4> QED BY <4>1
    <3>2. ptr_of(i) = 2048 + 256 * k /\ ino_of(ptr_of(i)) = i
      BY <3>1, InodeNumbers
    <3>3. Plus(ptr_of(i), 234) = ptr_of(i) + 234
      BY <3>1, <3>2, <2>3, Bounds
    <3> QED BY <3>1, <3>2, <3>3, <2>3, Constants DEF write_fits
  <2>6. ASSUME NEW k \in 0 .. sb.db_count - 1
        PROVE  write_fits(len, first_db_ptr(len, bpi) + k * DEFAULT_BLOCK_SIZE,
                          DEFAULT_BLOCK_SIZE)
    <3>1. /\ FirstDb + k * 4096 \in Nat
          /\ FirstDb + k * 4096 + 4096 <= 4096 * block_count(len)
      BY <2>2, <2>3
    <3>2. Plus(FirstDb + k * 4096, 4096) = FirstDb + k * 4096 + 4096
      BY <3>1, <2>3, Bounds
    <3> QED BY <3>1, <3>2, <2>3, Constants DEF write_fits
  <2>7. FreeBytes(len, bpi) = sb.db_count * DEFAULT_BLOCK_SIZE
    BY <2>1, <2>2, <2>3, Allocated, Apart, Constants
  <2> QED BY <2>4, <2>5, <2>6, <2>7 DEF FormattedIsSound
<1> QED BY <1>1, InvHolds, PTL

(* A new device whose formatting was interrupted after any write is sound  *)
(* if its root can be read.                                                *)
THEOREM InterruptedIsSound == FormatSpec => []ReadableIsSound
<1>1. Inv => ReadableIsSound
  BY Constants DEF Inv, SuperBlocksAt, Readable, ReadableIsSound
<1> QED BY <1>1, InvHolds, PTL
-----------------------------------------------------------------------------
(***************************************************************************)
(* Types.  The invariant says what has been written so far; what is left   *)
(* is that sizes and counts are u64, and that no allocation takes a unit   *)
(* from an extent that has none.                                           *)
(***************************************************************************)
Contents ==
    {Blank, DirData} \union [kind : {"inode"}, nlink : {0, 2}]
    \union [kind : {"node"}, next : {0}, size : 0 .. Word - 1]

AtOK == \A p \in DOMAIN at : at[p] \in Contents

(* A remainder is below Word, so that a difference that wrapped is a u64.  *)
LEMMA Wrapped ==
    ASSUME NEW x \in Int
    PROVE  x % Word \in 0 .. Word - 1
<1>1. Word \in Nat /\ Word > 0 BY WordAssumption
<1> QED BY <1>1, Z3

LEMMA FormatTypes ==
    ASSUME len \in Lens, bpi \in Ratios
    PROVE  /\ Sb0 \in SuperBlocks /\ NoSb \in SuperBlocks
           /\ FreeBytes(len, bpi) \in 0 .. Word - 1
           /\ Units * 256 \in 0 .. Word - 1
<1>1. /\ block_count(len) \in Nat /\ used_blocks(len, bpi) \in Nat
      /\ Units \in Nat /\ 2048 + 256 * Units <= FirstDb /\ FirstDb \in Nat
      /\ first_db_ptr(len, bpi) = FirstDb /\ FirstDb < Word
      /\ size(len) = 4096 * block_count(len) /\ Word \in Nat /\ Word > 0
  BY Sizes, FourPlaces, WordAssumption DEF FirstDb
<1>2. FreeBytes(len, bpi) \in 0 .. Word - 1
  <2>1. size(len) - FirstDb \in Int BY <1>1
  <2> QED BY <1>1, <2>1, Wrapped DEF FreeBytes, Minus
<1>3. db_count(len, bpi) \in 0 .. Word - 1
  <2>1. FirstDb \div 4096 \in Int BY <1>1
  <2>2. block_count(len) - FirstDb \div 4096 \in Int BY <1>1, <2>1
  <2> QED BY <1>1, <2>2, Wrapped, Constants DEF db_count, Minus
<1>4. Sb0 \in SuperBlocks
  BY <1>1, <1>3 DEF Sb0, SuperBlocks
<1>5. NoSb \in SuperBlocks
  <2>1. 0 \in 0 .. Word - 1 BY <1>1
  <2> QED BY <2>1 DEF NoSb, SuperBlocks
<1>6. Units * 256 \in 0 .. Word - 1
  BY <1>1
<1> QED BY <1>2, <1>4, <1>5, <1>6

(* One place gets another content.                                         *)
LEMMA HoldingTypes ==
    ASSUME AtOK, NEW p, NEW c \in Contents, at' = at \/ at' = Holding(p, c)
    PROVE  AtOK'
BY DEF AtOK, Holding, Contents

(* Splitting a node leaves a node.                                         *)
LEMMA SplitTypes ==
    ASSUME AtOK, NEW ptr \in Nat, NEW unit \in Nat, NEW n \in 0 .. Word - 1,
           at[ptr] = Node(0, n), at' = AfterSplit(ptr, unit)
    PROVE  AtOK' /\ NewHead(ptr, unit) \in Nat
<1>1. at[ptr].size = n /\ at[ptr].next = 0 /\ Word \in Nat
  BY WordAssumption DEF Node
<1>2. CASE Splits(ptr, unit)
  <2>1. Left(ptr, unit) = n - unit /\ n - unit \in 0 .. Word - 1
    BY <1>1, <1>2, Constants DEF Splits, Left
  <2>2. Node(0, n - unit) \in Contents
    BY <2>1 DEF Node, Contents
  <2>3. at' = Holding(ptr + unit, Node(0, n - unit))
    BY <1>1, <1>2, <2>1 DEF AfterSplit
  <2>4. AtOK'
    BY <2>2, <2>3, HoldingTypes
  <2> QED BY <1>2, <2>4 DEF NewHead
<1>3. CASE ~Splits(ptr, unit)
  BY <1>1, <1>3 DEF AfterSplit, NewHead, AtOK, Contents
<1> QED BY <1>2, <1>3

(* The first inode and the first data block are counted once.              *)
LEMMA TakenTypes ==
    ASSUME NEW s \in SuperBlocks, NEW head \in Nat
    PROVE  /\ s.used_inode_count = 0 => InodeTaken(s, head) \in SuperBlocks
           /\ s.used_db_count = 0 => DbTaken(s, head) \in SuperBlocks
<1>1. ASSUME s.used_inode_count = 0
      PROVE  InodeTaken(s, head) \in SuperBlocks
  <2>1. s.used_inode_count + 1 \in 0 .. 1
    BY <1>1
  <2> QED BY <2>1 DEF SuperBlocks, InodeTaken
<1>2. ASSUME s.used_db_count = 0
      PROVE  DbTaken(s, head) \in SuperBlocks
  <2>1. s.used_db_count + 1 \in 0 .. 1
    BY <1>2
  <2> QED BY <2>1 DEF SuperBlocks, DbTaken
<1> QED BY <1>1, <1>2

LEMMA TypesStep ==
    ASSUME Inv, TypeOK, [Step]_fvars
    PROVE  sb' \in SuperBlocks /\ dsb' \in SuperBlocks /\ AtOK'
<1>1. /\ len \in Lens /\ bpi \in Ratios /\ sb \in SuperBlocks /\ dsb \in SuperBlocks /\ AtOK
  BY DEF TypeOK, AtOK, Contents
<1>2. /\ Sb0 \in SuperBlocks /\ NoSb \in SuperBlocks
      /\ FreeBytes(len, bpi) \in 0 .. Word - 1 /\ Units * 256 \in 0 .. Word - 1
  BY <1>1, FormatTypes
<1>3. AtOK' <=> \A p \in DOMAIN at' : at'[p] \in Contents
  BY DEF AtOK, Contents
<1>4. CASE FormatSuper
  <2>1. sb' = Sb0 /\ at' = at /\ (dsb' = sb' \/ dsb' = dsb)
    BY <1>1, <1>4, FourPlaces, Constants DEF FormatSuper, flush_sb, Sb0, Units
  <2> QED BY <1>1, <1>2, <1>3, <2>1 DEF AtOK
<1>5. CASE FormatInodes
  <2>1. sb = Sb0 /\ UNCHANGED <<sb, dsb>>
    BY <1>5 DEF FormatInodes, Inv, SuperBlocksAt
  <2>2. Node(0, Units * 256) \in Contents
    BY <1>2 DEF Node, Contents
  <2>3. at' = at \/ at' = Holding(2048, Node(0, Units * 256))
    BY <1>5, <2>1, Constants DEF FormatInodes, Put, Sb0
  <2> QED BY <1>1, <2>1, <2>2, <2>3, HoldingTypes
<1>6. CASE FormatBlocks
  <2>1. UNCHANGED <<sb, dsb>>
    BY <1>6 DEF FormatBlocks
  <2>2. Node(0, FreeBytes(len, bpi)) \in Contents
    BY <1>2 DEF Node, Contents
  <2>3. at' = at \/ at' = Holding(first_db_ptr(len, bpi), Node(0, FreeBytes(len, bpi)))
    BY <1>6 DEF FormatBlocks, Put
  <2> QED BY <1>1, <2>1, <2>2, <2>3, HoldingTypes
<1>7. CASE AllocateInode
  <2>1. sb = Sb0 /\ dsb' = dsb /\ at[2048] = Node(0, Units * 256)
    BY <1>7 DEF AllocateInode, Inv, SuperBlocksAt, NodesAt
  <2>2. sb.inode_fl_ptr = 2048 /\ sb.used_inode_count = 0
    BY <2>1 DEF Sb0
  <2>3. \/ sb' = sb /\ at' = at
        \/ at' = AfterSplit(2048, 256) /\ sb' = InodeTaken(sb, NewHead(2048, 256))
    BY <1>7, <2>2, Constants DEF AllocateInode
  <2>4. CASE sb' = sb /\ at' = at
    BY <1>1, <1>3, <2>1, <2>4 DEF AtOK
  <2>5. CASE at' = AfterSplit(2048, 256) /\ sb' = InodeTaken(sb, NewHead(2048, 256))
    <3>1. AtOK' /\ NewHead(2048, 256) \in Nat
      BY <1>1, <1>2, <2>1, <2>5, SplitTypes
    <3> QED BY <1>1, <2>1, <2>2, <2>5, <3>1, TakenTypes
  <2> QED BY <2>3, <2>4, <2>5
<1>8. CASE FlushInodeList \/ FlushDbList
  <2>1. sb' = sb /\ at' = at /\ (dsb' = sb \/ dsb' = dsb)
    BY <1>8 DEF FlushInodeList, FlushDbList, flush_sb
  <2> QED BY <1>1, <1>3, <2>1 DEF AtOK
<1>9. CASE WriteInode \/ CloseInode
  <2>1. RootDir(0) \in Contents /\ RootDir(2) \in Contents
    BY DEF RootDir, Contents
  <2>2. /\ UNCHANGED <<sb, dsb>>
        /\ at' = at \/ at' = Holding(2048, RootDir(0)) \/ at' = Holding(2048, RootDir(2))
    BY <1>9, Constants DEF WriteInode, CloseInode, Put
  <2> QED BY <1>1, <2>1, <2>2, HoldingTypes
<1>10. CASE AllocateDb
  <2>1. sb = Sb1 /\ dsb' = dsb /\ at[FirstDb] = Node(0, Blocks * 4096) /\ pc \in Alloc
    BY <1>10 DEF AllocateDb, Inv, SuperBlocksAt, NodesAt, Alloc, Root
  <2>2. sb.db_fl_ptr = FirstDb /\ sb.used_db_count = 0 /\ FirstDb \in Nat
    BY <1>1, <2>1, FourPlaces DEF Sb0, Sb1, InodeTaken
  <2>3. \/ sb' = sb /\ at' = at
        \/ at' = AfterSplit(FirstDb, 4096) /\ sb' = DbTaken(sb, NewHead(FirstDb, 4096))
    BY <1>10, <2>2, Constants DEF AllocateDb
  <2>4. CASE sb' = sb /\ at' = at
    BY <1>1, <1>3, <2>1, <2>4 DEF AtOK
  <2>5. CASE at' = AfterSplit(FirstDb, 4096) /\ sb' = DbTaken(sb, NewHead(FirstDb, 4096))
    <3>1. Blocks * 4096 \in 0 .. Word - 1
      <4>1. FreeBytes(len, bpi) = 4096 * Blocks /\ Blocks \in Nat
        BY <2>1, Allocated, Apart
      <4> QED BY <1>2, <4>1
    <3>2. AtOK' /\ NewHead(FirstDb, 4096) \in Nat
      BY <1>1, <2>1, <2>2, <2>5, <3>1, SplitTypes
    <3> QED BY <1>1, <2>1, <2>2, <2>5, <3>2, TakenTypes
  <2> QED BY <2>3, <2>4, <2>5
<1>11. CASE WriteDir
  <2>1. UNCHANGED <<sb, dsb>> /\ (at' = at \/ at' = Holding(first_db_ptr(len, bpi), DirData))
    BY <1>11 DEF WriteDir, Put
  <2>2. DirData \in Contents
    BY DEF Contents
  <2> QED BY <1>1, <2>1, <2>2, HoldingTypes
<1>12. CASE Stop \/ Open \/ UNCHANGED fvars
  <2>1. at' = at /\ dsb' = dsb /\ sb' \in {sb, dsb, NoSb}
    BY <1>12 DEF Stop, Open, fvars
  <2> QED BY <1>1, <1>2, <1>3, <2>1 DEF AtOK
<1> QED BY <1>4, <1>5, <1>6, <1>7, <1>8, <1>9, <1>10, <1>11, <1>12 DEF Step

(* Sizes and counts stay u64 while a device is formatted, interrupted and  *)
(* opened, the wrapped ones that format computes for a device that is too  *)
(* small included; at most one unit of each list is used.                  *)
THEOREM TypeCorrect == FormatSpec => []TypeOK
<1>1. Init => TypeOK
  <2> SUFFICES ASSUME Init PROVE TypeOK
    OBVIOUS
  <2>1. len \in Lens /\ bpi \in Ratios /\ pc = "super" /\ sb = NoSb /\ dsb = NoSb
        /\ at = [p \in Places(len) |-> Blank]
    BY DEF Init
  <2>2. \A p \in DOMAIN at : at[p] \in Contents
    BY <2>1 DEF Contents
  <2> QED BY <2>1, <2>2, FormatTypes DEF TypeOK, Steps, Contents
<1>2. Inv /\ Inv' /\ TypeOK /\ [Step]_fvars => TypeOK'
  <2> SUFFICES ASSUME Inv, Inv', TypeOK, [Step]_fvars PROVE TypeOK'
    OBVIOUS
  <2>1. len' \in Lens /\ bpi' \in Ratios /\ pc' \in Steps
    BY DEF Inv
  <2>2. sb' \in SuperBlocks /\ dsb' \in SuperBlocks /\ AtOK'
    BY TypesStep
  <2> QED BY <2>1, <2>2 DEF TypeOK, AtOK, Contents, SuperBlocks
<1> QED BY <1>1, <1>2, InvHolds, PTL DEF FormatSpec
=============================================================================
