---------------------------- MODULE XattrProofs -----------------------------
(***************************************************************************)
(* Proofs about Xattr.                                                     *)
(***************************************************************************)
EXTENDS Xattr, InductionProofs, SequenceTheorems

(* States within a call.                                                   *)
State ==
    [free : Seq(Block), dfree : Seq(Block), blk : [Block -> BlockContent],
     inode : [Ino -> OnDisk], entry : [Ino -> 0 .. MaxLinks],
     opened : [Ino -> Opened \union {Nil}], fh : [Ino -> 0 .. MaxHandles],
     closing : Seq(Ino), left : Int, ok : BOOLEAN, failed : BOOLEAN, lossy : BOOLEAN]

Ptr(s, i)     == s.inode[i].xattr_ptr
SavedIn(s, i) == IF Ptr(s, i) # 0 /\ s.blk[Ptr(s, i)].kind = "attrs"
                 THEN s.blk[Ptr(s, i)].attrs ELSE NoAttrs
SeenIn(s, i)  == IF s.opened[i] = Nil THEN SavedIn(s, i) ELSE s.opened[i].xattr
NlinkIn(s, i) == IF s.opened[i] = Nil THEN s.inode[i].nlink ELSE s.opened[i].nlink

(* The constants.                                                          *)
LEMMA Constants ==
    /\ NBlocks \in Nat /\ Block = 1 .. NBlocks /\ MaxLinks \in Nat \ {0}
    /\ MaxHandles \in Nat /\ MaxWrites \in Nat /\ Nil \notin Opened
    /\ NoAttrs \in Attrs /\ Lives = -1
    /\ \A f \in Opened : f.xattr_ptr # 0 => f.xattr_ptr \in Block
    /\ \A f \in OnDisk : f.xattr_ptr # 0 => f.xattr_ptr \in Block
<1>1. NoAttrs \in [{} -> Values] /\ {} \in SUBSET Keys
  BY DEF NoAttrs
<1>2. NoAttrs \in Attrs
  BY <1>1 DEF Attrs
<1>3. \A f \in Opened : f.xattr_ptr \in 0 .. NBlocks
  BY DEF Opened
<1>4. \A f \in OnDisk : f.xattr_ptr \in 0 .. NBlocks
  BY DEF OnDisk
<1> QED BY <1>2, <1>3, <1>4, XattrAssumption, NilAssumption DEF Block, Lives

(* The fields of a state.                                                  *)
LEMMA Fields ==
    ASSUME NEW s \in State
    PROVE  /\ s.free \in Seq(Block) /\ s.dfree \in Seq(Block)
           /\ s.blk \in [Block -> BlockContent] /\ s.inode \in [Ino -> OnDisk]
           /\ s.entry \in [Ino -> 0 .. MaxLinks]
           /\ s.opened \in [Ino -> Opened \union {Nil}]
           /\ s.fh \in [Ino -> 0 .. MaxHandles] /\ s.closing \in Seq(Ino)
           /\ s.left \in Int /\ s.ok \in BOOLEAN /\ s.failed \in BOOLEAN /\ s.lossy \in BOOLEAN
  BY DEF State

(* The fields of file i.                                                   *)
LEMMA FilesOf ==
    ASSUME NEW s \in State, NEW i \in Ino
    PROVE  /\ s.inode[i] \in OnDisk /\ s.entry[i] \in 0 .. MaxLinks
           /\ s.opened[i] \in Opened \union {Nil} /\ s.fh[i] \in 0 .. MaxHandles
  BY Fields

(* The same, field by field, but for what a write does to the device.      *)
Alike(s, t) ==
    /\ t.entry = s.entry /\ t.fh = s.fh /\ t.closing = s.closing
    /\ t.failed = s.failed /\ t.lossy = s.lossy

(* One field is another.                                                   *)
LEMMA SetLeft ==
    ASSUME NEW s \in State, NEW n \in Int
    PROVE  LET t == [s EXCEPT !.left = n]
           IN  /\ t \in State /\ Alike(s, t) /\ t.left = n /\ t.ok = s.ok
               /\ t.free = s.free /\ t.dfree = s.dfree /\ t.blk = s.blk
               /\ t.inode = s.inode /\ t.opened = s.opened
  BY DEF State, Alike

(* Assignments to a single field of a state, and what they leave alone:    *)
(* the result of the call,                                                 *)
LEMMA SetOk ==
    ASSUME NEW s \in State, NEW b \in BOOLEAN
    PROVE  LET t == [s EXCEPT !.ok = b]
           IN  /\ t \in State /\ Alike(s, t) /\ t.left = s.left /\ t.ok = b
               /\ t.free = s.free /\ t.dfree = s.dfree /\ t.blk = s.blk
               /\ t.inode = s.inode /\ t.opened = s.opened
  BY DEF State, Alike

(* the inode of a file in memory,                                          *)
LEMMA SetOpened ==
    ASSUME NEW s \in State, NEW i \in Ino, NEW f \in Opened \union {Nil}
    PROVE  LET t == [s EXCEPT !.opened[i] = f]
           IN  /\ t \in State /\ Alike(s, t) /\ t.left = s.left /\ t.ok = s.ok
               /\ t.free = s.free /\ t.dfree = s.dfree /\ t.blk = s.blk
               /\ t.inode = s.inode /\ t.opened[i] = f
               /\ \A j \in Ino \ {i} : t.opened[j] = s.opened[j]
  BY DEF State, Alike

(* the inode on the device,                                                *)
LEMMA SetInode ==
    ASSUME NEW s \in State, NEW i \in Ino, NEW f \in OnDisk
    PROVE  LET t == [s EXCEPT !.inode[i] = f]
           IN  /\ t \in State /\ Alike(s, t) /\ t.left = s.left /\ t.ok = s.ok
               /\ t.free = s.free /\ t.dfree = s.dfree /\ t.blk = s.blk
               /\ t.inode[i] = f /\ t.opened = s.opened
               /\ \A j \in Ino \ {i} : t.inode[j] = s.inode[j]
  BY DEF State, Alike

(* a block on the device,                                                  *)
LEMMA SetBlk ==
    ASSUME NEW s \in State, NEW b \in Block, NEW v \in BlockContent
    PROVE  LET t == [s EXCEPT !.blk[b] = v]
           IN  /\ t \in State /\ Alike(s, t) /\ t.left = s.left /\ t.ok = s.ok
               /\ t.free = s.free /\ t.dfree = s.dfree /\ t.inode = s.inode
               /\ t.opened = s.opened /\ t.blk[b] = v
               /\ \A a \in Block \ {b} : t.blk[a] = s.blk[a]
  BY DEF State, Alike

(* the free blocks in memory,                                              *)
LEMMA SetFree ==
    ASSUME NEW s \in State, NEW q \in Seq(Block)
    PROVE  LET t == [s EXCEPT !.free = q]
           IN  /\ t \in State /\ Alike(s, t) /\ t.left = s.left /\ t.ok = s.ok
               /\ t.free = q /\ t.dfree = s.dfree /\ t.blk = s.blk
               /\ t.inode = s.inode /\ t.opened = s.opened
  BY DEF State, Alike

(* and those on the device.                                                *)
LEMMA SetDfree ==
    ASSUME NEW s \in State, NEW q \in Seq(Block)
    PROVE  LET t == [s EXCEPT !.dfree = q]
           IN  /\ t \in State /\ Alike(s, t) /\ t.left = s.left /\ t.ok = s.ok
               /\ t.free = s.free /\ t.dfree = q /\ t.blk = s.blk
               /\ t.inode = s.inode /\ t.opened = s.opened
  BY DEF State, Alike

(* A write is made unless the process is dead.                             *)
LEMMA WriteOK ==
    ASSUME NEW s \in State, NEW t \in State
    PROVE  LET w == Write(s, t)
           IN  /\ w \in State
               /\ s.left = 0 => w = s
               /\ s.left # 0 =>
                    /\ w.left = s.left - 1 /\ Alike(t, w) /\ w.ok = t.ok
                    /\ w.free = t.free /\ w.dfree = t.dfree /\ w.blk = t.blk
                    /\ w.inode = t.inode /\ w.opened = t.opened
<1>1. s.left - 1 \in Int
  BY Fields
<1> QED BY <1>1, SetLeft DEF Write

(* flush_sb is one write: the free list of the device becomes that in      *)
(* memory, or the process has died before.                                 *)
LEMMA FlushSb ==
    ASSUME NEW s \in State
    PROVE  LET t == flush_sb(s)
           IN  /\ t \in State /\ Alike(s, t)
               /\ s.left = 0 => t = s
               /\ s.left # 0 =>
                    /\ t.left = s.left - 1 /\ t.ok = s.ok
                    /\ t.free = s.free /\ t.dfree = s.free /\ t.blk = s.blk
                    /\ t.inode = s.inode /\ t.opened = s.opened
<1> DEFINE u == [s EXCEPT !.dfree = s.free]
<1>1. /\ u \in State /\ Alike(s, u) /\ u.left = s.left /\ u.ok = s.ok
      /\ u.free = s.free /\ u.dfree = s.free /\ u.blk = s.blk
      /\ u.inode = s.inode /\ u.opened = s.opened
  BY Fields, SetDfree
<1>2. flush_sb(s) = Write(s, u)
  BY DEF flush_sb
<1> HIDE DEF u
<1> QED BY <1>1, <1>2, WriteOK DEF Alike

Record(f) == [nlink |-> f.nlink, xattr_ptr |-> f.xattr_ptr, blocks |-> f.blocks]

(* So is write_inode, of the inode of one file.                            *)
LEMMA WriteInode ==
    ASSUME NEW s \in State, NEW i \in Ino, s.opened[i] # Nil
    PROVE  LET t == write_inode(s, i)
           IN  /\ t \in State /\ Alike(s, t)
               /\ s.left = 0 => t = s
               /\ s.left # 0 =>
                    /\ t.left = s.left - 1 /\ t.ok = s.ok
                    /\ t.free = s.free /\ t.dfree = s.dfree /\ t.blk = s.blk
                    /\ t.opened = s.opened /\ t.inode[i] = Record(s.opened[i])
                    /\ \A j \in Ino \ {i} : t.inode[j] = s.inode[j]
<1> DEFINE r == Record(s.opened[i])
           u == [s EXCEPT !.inode[i] = r]
<1>1. s.opened[i] \in Opened
  BY FilesOf
<1>2. r \in OnDisk
  BY <1>1 DEF Opened, OnDisk, Record
<1>3. write_inode(s, i) = Write(s, u)
  BY DEF write_inode, Record
<1> HIDE DEF r
<1>4. /\ u \in State /\ Alike(s, u) /\ u.left = s.left /\ u.ok = s.ok
      /\ u.free = s.free /\ u.dfree = s.dfree /\ u.blk = s.blk
      /\ u.inode[i] = r /\ u.opened = s.opened
      /\ \A j \in Ino \ {i} : u.inode[j] = s.inode[j]
  BY <1>2, SetInode
<1> HIDE DEF u
<1> QED BY <1>3, <1>4, WriteOK DEF Alike, r

(* free_db frees the block, or the process dies on the way with the device *)
(* as it was.                                                              *)
LEMMA FreeDb ==
    ASSUME NEW s \in State, NEW b \in Block
    PROVE  LET t == free_db(s, b)
           IN  /\ t \in State /\ Alike(s, t) /\ t.opened = s.opened /\ t.ok = s.ok
               /\ t.inode = s.inode
               /\ s.left = 0 => t.left = 0 /\ t.dfree = s.dfree /\ t.blk = s.blk
               /\ s.left < 0 =>
                    /\ t.left < 0 /\ t.free = <<b>> \o s.free /\ t.dfree = t.free
                    /\ t.blk[b] = FreeNode /\ \A a \in Block \ {b} : t.blk[a] = s.blk[a]
<1> DEFINE u == [s EXCEPT !.blk[b] = FreeNode]
           n == Write(s, u)
           m == [n EXCEPT !.free = <<b>> \o @]
<1>1. FreeNode \in BlockContent
  BY DEF BlockContent
<1>2. /\ u \in State /\ Alike(s, u) /\ u.left = s.left /\ u.ok = s.ok
      /\ u.free = s.free /\ u.dfree = s.dfree /\ u.inode = s.inode
      /\ u.opened = s.opened /\ u.blk[b] = FreeNode
      /\ \A a \in Block \ {b} : u.blk[a] = s.blk[a]
  BY <1>1, SetBlk
<1>3. free_db(s, b) = flush_sb(m)
  BY DEF free_db
<1> HIDE DEF u
<1>4. /\ n \in State /\ Alike(s, n) /\ n.ok = s.ok /\ n.free = s.free
      /\ n.dfree = s.dfree /\ n.inode = s.inode /\ n.opened = s.opened
      /\ s.left = 0 => n = s
      /\ s.left < 0 => n.left = s.left - 1 /\ n.blk = u.blk
  BY <1>2, WriteOK DEF Alike
<1>5. s.left \in Int
  BY Fields
<1> HIDE DEF n
<1>6. n.free \in Seq(Block) /\ <<b>> \o n.free \in Seq(Block)
  BY <1>4, Fields
<1>7. /\ m \in State /\ Alike(n, m) /\ m.left = n.left /\ m.ok = n.ok
      /\ m.free = <<b>> \o n.free /\ m.dfree = n.dfree /\ m.blk = n.blk
      /\ m.inode = n.inode /\ m.opened = n.opened
  BY <1>4, <1>6, SetFree
<1> HIDE DEF m
<1>8. /\ flush_sb(m) \in State /\ Alike(m, flush_sb(m))
      /\ m.left = 0 => flush_sb(m) = m
      /\ m.left # 0 =>
           /\ flush_sb(m).left = m.left - 1 /\ flush_sb(m).ok = m.ok
           /\ flush_sb(m).free = m.free /\ flush_sb(m).dfree = m.free /\ flush_sb(m).blk = m.blk
           /\ flush_sb(m).inode = m.inode /\ flush_sb(m).opened = m.opened
  BY <1>7, FlushSb
<1>9. Alike(s, flush_sb(m))
  BY <1>4, <1>7, <1>8 DEF Alike
<1>10. CASE s.left = 0
  BY <1>3, <1>4, <1>7, <1>8, <1>9, <1>10
<1>11. CASE s.left # 0 /\ n.left = 0
  BY <1>2, <1>3, <1>4, <1>5, <1>7, <1>8, <1>9, <1>11
<1>12. CASE s.left # 0 /\ n.left # 0
  <2>1. s.left < 0 => n.left < 0 /\ n.left - 1 < 0
    BY <1>4, <1>5
  <2> QED BY <2>1, <1>2, <1>3, <1>4, <1>7, <1>8, <1>9, <1>12, ZenonT(60)
<1> QED BY <1>10, <1>11, <1>12

(* The first of the free blocks is taken, or another put before them.      *)
LEMMA TailOf ==
    ASSUME NEW q \in Seq(Block), q # <<>>, IsInjective(q)
    PROVE  /\ Head(q) \in Block /\ Head(q) \in Range(q)
           /\ Tail(q) \in Seq(Block) /\ IsInjective(Tail(q))
           /\ Range(Tail(q)) = Range(q) \ {Head(q)}
<1>1. /\ Len(q) \in Nat \ {0} /\ DOMAIN q = 1 .. Len(q) /\ Head(q) = q[1]
      /\ Tail(q) \in Seq(Block) /\ Len(Tail(q)) = Len(q) - 1
      /\ DOMAIN Tail(q) = 1 .. Len(q) - 1
      /\ \A k \in 1 .. Len(q) - 1 : Tail(q)[k] = q[k + 1]
  BY EmptySeq, HeadTailProperties
<1>2. \A k \in 1 .. Len(q) : q[k] \in Block
  BY <1>1
<1>3. IsInjective(Tail(q))
  BY <1>1 DEF IsInjective
<1>4. ASSUME NEW a PROVE a \in Range(Tail(q)) <=> a \in Range(q) \ {Head(q)}
  <2>1. ASSUME a \in Range(Tail(q)) PROVE a \in Range(q) \ {Head(q)}
    <3>1. PICK k \in 1 .. Len(q) - 1 : a = q[k + 1]
      BY <1>1, <2>1 DEF Range
    <3>2. k + 1 \in DOMAIN q /\ 1 \in DOMAIN q /\ k + 1 # 1
      BY <1>1
    <3>3. a # q[1]
      BY <3>1, <3>2 DEF IsInjective
    <3> QED BY <3>1, <3>2, <3>3, <1>1 DEF Range
  <2>2. ASSUME a \in Range(q) \ {Head(q)} PROVE a \in Range(Tail(q))
    <3>1. PICK k \in 1 .. Len(q) : a = q[k]
      BY <1>1, <2>2 DEF Range
    <3>2. k # 1
      BY <3>1, <1>1, <2>2
    <3>3. k - 1 \in 1 .. Len(q) - 1 /\ Tail(q)[k - 1] = a
      BY <3>1, <3>2, <1>1
    <3> QED BY <3>3, <1>1 DEF Range
  <2> QED BY <2>1, <2>2
<1>5. Head(q) \in Range(q)
  BY <1>1 DEF Range
<1> QED BY <1>1, <1>2, <1>3, <1>4, <1>5

(* Putting a block in front of a list of others.                           *)
LEMMA ConsOf ==
    ASSUME NEW q \in Seq(Block), IsInjective(q), NEW b \in Block, b \notin Range(q)
    PROVE  /\ <<b>> \o q \in Seq(Block) /\ IsInjective(<<b>> \o q)
           /\ Range(<<b>> \o q) = Range(q) \union {b}
<1> DEFINE p == <<b>> \o q
<1>1. /\ p \in Seq(Block) /\ Len(q) \in Nat /\ DOMAIN q = 1 .. Len(q)
      /\ Len(p) = Len(q) + 1 /\ DOMAIN p = 1 .. Len(q) + 1 /\ p[1] = b
      /\ \A k \in 2 .. Len(q) + 1 : p[k] = q[k - 1]
  OBVIOUS
<1> HIDE DEF p
<1>2. \A k \in 1 .. Len(q) : q[k] # b /\ q[k] \in Range(q)
  BY <1>1 DEF Range
<1>3. \A k \in 1 .. Len(q) + 1 : k = 1 \/ (k \in 2 .. Len(q) + 1 /\ k - 1 \in 1 .. Len(q))
  BY <1>1
<1>4. IsInjective(p)
  <2> SUFFICES ASSUME NEW k \in 1 .. Len(q) + 1, NEW l \in 1 .. Len(q) + 1, p[k] = p[l]
               PROVE  k = l
    BY <1>1 DEF IsInjective
  <2>1. CASE k = 1 \/ l = 1
    BY <2>1, <1>1, <1>2, <1>3
  <2>2. CASE k # 1 /\ l # 1
    <3>1. q[k - 1] = q[l - 1] /\ k - 1 \in DOMAIN q /\ l - 1 \in DOMAIN q
      BY <2>2, <1>1, <1>3
    <3>2. k - 1 = l - 1
      BY <3>1 DEF IsInjective
    <3> QED BY <3>2
  <2> QED BY <2>1, <2>2
<1>5. Range(p) \subseteq Range(q) \union {b}
  <2> SUFFICES ASSUME NEW k \in 1 .. Len(q) + 1 PROVE p[k] \in Range(q) \union {b}
    BY <1>1 DEF Range
  <2> QED BY <1>1, <1>2, <1>3
<1>6. b \in Range(p)
  <2>1. 1 \in DOMAIN p
    BY <1>1
  <2> QED BY <2>1, <1>1 DEF Range
<1>7. Range(q) \subseteq Range(p)
  <2> SUFFICES ASSUME NEW k \in 1 .. Len(q) PROVE q[k] \in Range(p)
    BY <1>1 DEF Range
  <2>1. k + 1 \in DOMAIN p /\ p[k + 1] = q[k]
    BY <1>1
  <2> QED BY <2>1 DEF Range
<1>8. Range(p) = Range(q) \union {b}
  BY <1>5, <1>6, <1>7
<1> QED BY <1>1, <1>4, <1>8 DEF p

-----------------------------------------------------------------------------
(* The operations of a file, field by field.                               *)
(* A file without change has the same fields but dirty.                    *)
Clean(f) == [f EXCEPT !.dirty = FALSE]

(* What the changes of an inode in memory leave alone: marking it clean,   *)
LEMMA CleanOf ==
    ASSUME NEW f \in Opened
    PROVE  /\ Clean(f) \in Opened /\ Clean(f).nlink = f.nlink
           /\ Clean(f).xattr_ptr = f.xattr_ptr /\ Clean(f).blocks = f.blocks
           /\ Clean(f).xattr = f.xattr /\ ~Clean(f).dirty
  BY DEF Clean, Opened

(* The file has the block b, newly allocated, or none any more.            *)
Given(f, b) == [f EXCEPT !.xattr_ptr = b, !.blocks = @ + 1]
Bare(f)     == [f EXCEPT !.xattr_ptr = 0]

(* giving it a block for its attributes,                                   *)
LEMMA GivenOf ==
    ASSUME NEW f \in Opened, NEW b \in Block
    PROVE  /\ Given(f, b) \in Opened /\ Given(f, b).xattr_ptr = b
           /\ Given(f, b).nlink = f.nlink /\ Given(f, b).xattr = f.xattr
           /\ Given(f, b).dirty = f.dirty
<1>1. f.blocks + 1 \in Nat
  BY DEF Opened
<1>2. b \in 0 .. NBlocks
  BY Constants
<1> QED BY <1>1, <1>2 DEF Given, Opened

(* and taking that away.                                                   *)
LEMMA BareOf ==
    ASSUME NEW f \in Opened
    PROVE  /\ Bare(f) \in Opened /\ Bare(f).xattr_ptr = 0
           /\ Bare(f).nlink = f.nlink /\ Bare(f).xattr = f.xattr
           /\ Bare(f).dirty = f.dirty
<1>1. 0 \in 0 .. NBlocks
  BY Constants
<1> QED BY <1>1 DEF Bare, Opened

(* Allocating the block of the attributes, when one is free.               *)
LEMMA AllocateXattr ==
    ASSUME NEW s \in State, NEW i \in Ino, s.opened[i] # Nil, s.free # <<>>
    PROVE  LET t == allocate_xattr(s, i)
           IN  /\ t \in State /\ Alike(s, t) /\ t.ok = s.ok
               /\ Head(s.free) \in Block /\ t.free = Tail(s.free)
               /\ t.opened[i] = Given(s.opened[i], Head(s.free))
               /\ \A j \in Ino \ {i} : t.opened[j] = s.opened[j]
               /\ t.blk = s.blk /\ t.inode = s.inode
               /\ s.left = 0 => t.left = 0 /\ t.dfree = s.dfree
               /\ s.left # 0 => t.left = s.left - 1 /\ t.dfree = t.free
<1> DEFINE b == Head(s.free)
           f == s.opened[i]
           g == Given(f, b)
           v == [s EXCEPT !.free = Tail(s.free)]
           u == [v EXCEPT !.opened[i] = g]
<1>1. s.free \in Seq(Block) /\ s.opened \in [Ino -> Opened \union {Nil}] /\ f \in Opened
  BY Fields
<1>2. b \in Block /\ Tail(s.free) \in Seq(Block)
  BY <1>1
<1>3. g \in Opened
  BY <1>1, <1>2, GivenOf
<1>4. /\ v \in State /\ Alike(s, v) /\ v.left = s.left /\ v.ok = s.ok
      /\ v.free = Tail(s.free) /\ v.dfree = s.dfree /\ v.blk = s.blk
      /\ v.inode = s.inode /\ v.opened = s.opened
  BY <1>2, SetFree
<1>5. allocate_xattr(s, i) = flush_sb(u)
  <2>1. [s EXCEPT !.free = Tail(s.free), !.opened[i].xattr_ptr = b, !.opened[i].blocks = @ + 1] = u
    BY <1>1 DEF State, Given
  <2> QED BY <2>1 DEF allocate_xattr
<1> HIDE DEF v, g
<1>6. /\ u \in State /\ Alike(v, u) /\ u.left = v.left /\ u.ok = v.ok
      /\ u.free = v.free /\ u.dfree = v.dfree /\ u.blk = v.blk
      /\ u.inode = v.inode /\ u.opened[i] = g
      /\ \A j \in Ino \ {i} : u.opened[j] = v.opened[j]
  <2>1. v \in State /\ g \in Opened \union {Nil}
    BY <1>3, <1>4
  <2> QED BY <2>1, SetOpened
<1> HIDE DEF u
<1>7. /\ flush_sb(u) \in State /\ Alike(u, flush_sb(u))
      /\ u.left = 0 => flush_sb(u) = u
      /\ u.left # 0 =>
           /\ flush_sb(u).left = u.left - 1 /\ flush_sb(u).ok = u.ok
           /\ flush_sb(u).free = u.free /\ flush_sb(u).dfree = u.free /\ flush_sb(u).blk = u.blk
           /\ flush_sb(u).inode = u.inode /\ flush_sb(u).opened = u.opened
  BY <1>6, FlushSb
<1>8. Alike(s, flush_sb(u))
  BY <1>4, <1>6, <1>7 DEF Alike
<1>9. CASE s.left = 0
  BY <1>2, <1>4, <1>5, <1>6, <1>7, <1>8, <1>9 DEF g
<1>10. CASE s.left # 0
  BY <1>2, <1>4, <1>5, <1>6, <1>7, <1>8, <1>10 DEF g
<1> QED BY <1>9, <1>10

(* The inode is written and the file is clean.                             *)
LEMMA InodeWritten ==
    ASSUME NEW s \in State, NEW i \in Ino, s.opened[i] # Nil
    PROVE  LET t == [write_inode(s, i) EXCEPT !.opened[i].dirty = FALSE]
           IN  /\ t \in State /\ Alike(s, t) /\ t.ok = s.ok
               /\ t.free = s.free /\ t.dfree = s.dfree /\ t.blk = s.blk
               /\ t.opened[i] = Clean(s.opened[i])
               /\ \A j \in Ino \ {i} : t.opened[j] = s.opened[j] /\ t.inode[j] = s.inode[j]
               /\ s.left = 0 => t.left = 0 /\ t.inode[i] = s.inode[i]
               /\ s.left # 0 => t.left = s.left - 1 /\ t.inode[i] = Record(s.opened[i])
<1> DEFINE w == write_inode(s, i)
           f == s.opened[i]
           t == [w EXCEPT !.opened[i] = Clean(f)]
<1>1. /\ w \in State /\ Alike(s, w)
      /\ s.left = 0 => w = s
      /\ s.left # 0 =>
           /\ w.left = s.left - 1 /\ w.ok = s.ok
           /\ w.free = s.free /\ w.dfree = s.dfree /\ w.blk = s.blk
           /\ w.opened = s.opened /\ w.inode[i] = Record(s.opened[i])
           /\ \A j \in Ino \ {i} : w.inode[j] = s.inode[j]
  BY WriteInode
<1>2. f \in Opened /\ w.opened = s.opened
  BY <1>1, FilesOf
<1>3. Clean(f) \in Opened \union {Nil}
  BY <1>2, CleanOf
<1> HIDE DEF w
<1>4. [w EXCEPT !.opened[i].dirty = FALSE] = t
  BY <1>2 DEF Clean
<1>5. /\ t \in State /\ Alike(w, t) /\ t.left = w.left /\ t.ok = w.ok
      /\ t.free = w.free /\ t.dfree = w.dfree /\ t.blk = w.blk
      /\ t.inode = w.inode /\ t.opened[i] = Clean(f)
      /\ \A j \in Ino \ {i} : t.opened[j] = w.opened[j]
  BY <1>1, <1>3, SetOpened
<1> HIDE DEF t
<1>6. Alike(s, t)
  BY <1>1, <1>5 DEF Alike
<1>7. CASE s.left = 0
  BY <1>1, <1>2, <1>4, <1>5, <1>6, <1>7 DEF w
<1>8. CASE s.left # 0
  BY <1>1, <1>2, <1>4, <1>5, <1>6, <1>8 DEF w
<1> QED BY <1>7, <1>8

(* Writing attributes that fit into their block is one write, and touches  *)
(* no other block.                                                         *)
LEMMA StoreXattr ==
    ASSUME NEW s \in State, NEW i \in Ino, s.opened[i] # Nil,
           s.opened[i].xattr_ptr # 0, Encoded(s.opened[i].xattr) <= Room
    PROVE  LET t == store_xattr(s, i)
               b == s.opened[i].xattr_ptr
           IN  /\ t \in State /\ Alike(s, t) /\ t.ok = s.ok
               /\ t.free = s.free /\ t.dfree = s.dfree /\ t.inode = s.inode
               /\ t.opened = s.opened
               /\ s.left = 0 => t.left = 0 /\ t.blk = s.blk
               /\ s.left # 0 =>
                    /\ t.left = s.left - 1 /\ t.blk[b] = AttrBlock(s.opened[i].xattr)
                    /\ \A a \in Block \ {b} : t.blk[a] = s.blk[a]
<1> DEFINE f == s.opened[i]
           b == f.xattr_ptr
           v == AttrBlock(f.xattr)
           u == [s EXCEPT !.blk[b] = v]
<1>1. f \in Opened
  BY FilesOf
<1>2. b \in Block
  BY <1>1, Constants
<1>3. v \in BlockContent
  BY <1>1 DEF Opened, BlockContent
<1>4. store_xattr(s, i) = Write(s, u)
  BY DEF store_xattr
<1> HIDE DEF v, b
<1>5. /\ u \in State /\ Alike(s, u) /\ u.left = s.left /\ u.ok = s.ok
      /\ u.free = s.free /\ u.dfree = s.dfree /\ u.inode = s.inode
      /\ u.opened = s.opened /\ u.blk[b] = v
      /\ \A a \in Block \ {b} : u.blk[a] = s.blk[a]
  BY <1>2, <1>3, SetBlk
<1> HIDE DEF u
<1>6. /\ Write(s, u) \in State
      /\ s.left = 0 => Write(s, u) = s
      /\ s.left # 0 =>
           /\ Write(s, u).left = s.left - 1 /\ Alike(u, Write(s, u)) /\ Write(s, u).ok = u.ok
           /\ Write(s, u).free = u.free /\ Write(s, u).dfree = u.dfree /\ Write(s, u).blk = u.blk
           /\ Write(s, u).inode = u.inode /\ Write(s, u).opened = u.opened
  BY <1>5, WriteOK
<1>7. CASE s.left = 0
  BY <1>4, <1>6, <1>7 DEF Alike
<1>8. CASE s.left # 0
  BY <1>4, <1>5, <1>6, <1>8 DEF Alike, v, b
<1> QED BY <1>7, <1>8

(* The attributes are stored, then the inode written: two writes, either   *)
(* of which the process may not live to make.                              *)
Stored(s, i, t) ==
    LET f == s.opened[i]
        b == f.xattr_ptr
    IN  /\ t \in State /\ Alike(s, t) /\ t.ok = s.ok
        /\ t.free = s.free /\ t.dfree = s.dfree
        /\ t.opened[i] = Clean(f)
        /\ \A j \in Ino \ {i} : t.opened[j] = s.opened[j] /\ t.inode[j] = s.inode[j]
        /\ s.left = 0 => t.left = 0 /\ t.blk = s.blk /\ t.inode[i] = s.inode[i]
        /\ s.left # 0 => /\ t.blk[b] = AttrBlock(f.xattr)
                         /\ \A a \in Block \ {b} : t.blk[a] = s.blk[a]
        /\ s.left = 1 => t.left = 0 /\ t.inode[i] = s.inode[i]
        /\ s.left \notin {0, 1} => t.left = s.left - 2 /\ t.inode[i] = Record(f)

(* The attributes reach the device before the inode that leads to them.    *)
LEMMA AttributesWritten ==
    ASSUME NEW s \in State, NEW i \in Ino, s.opened[i] # Nil,
           s.opened[i].xattr_ptr # 0, Encoded(s.opened[i].xattr) <= Room
    PROVE  Stored(s, i, [write_inode(store_xattr(s, i), i) EXCEPT !.opened[i].dirty = FALSE])
<1> DEFINE u == store_xattr(s, i)
           t == [write_inode(u, i) EXCEPT !.opened[i].dirty = FALSE]
           b == s.opened[i].xattr_ptr
<1>1. /\ u \in State /\ Alike(s, u) /\ u.ok = s.ok
      /\ u.free = s.free /\ u.dfree = s.dfree /\ u.inode = s.inode
      /\ u.opened = s.opened
      /\ s.left = 0 => u.left = 0 /\ u.blk = s.blk
      /\ s.left # 0 =>
           /\ u.left = s.left - 1 /\ u.blk[b] = AttrBlock(s.opened[i].xattr)
           /\ \A a \in Block \ {b} : u.blk[a] = s.blk[a]
  BY StoreXattr
<1> HIDE DEF u
<1>2. /\ t \in State /\ Alike(u, t) /\ t.ok = u.ok
      /\ t.free = u.free /\ t.dfree = u.dfree /\ t.blk = u.blk
      /\ t.opened[i] = Clean(u.opened[i])
      /\ \A j \in Ino \ {i} : t.opened[j] = u.opened[j] /\ t.inode[j] = u.inode[j]
      /\ u.left = 0 => t.left = 0 /\ t.inode[i] = u.inode[i]
      /\ u.left # 0 => t.left = u.left - 1 /\ t.inode[i] = Record(u.opened[i])
  <2>1. u \in State /\ u.opened[i] # Nil
    BY <1>1
  <2> QED BY <2>1, InodeWritten
<1> HIDE DEF t
<1>3. Alike(s, t) /\ s.left \in Int
  BY <1>1, <1>2, Fields DEF Alike
<1>4. ASSUME s.left = 0 PROVE Stored(s, i, t)
  BY <1>1, <1>2, <1>3, <1>4 DEF Stored
<1>5. ASSUME s.left = 1 PROVE Stored(s, i, t)
  BY <1>1, <1>2, <1>3, <1>5 DEF Stored
<1>6. ASSUME s.left \notin {0, 1} PROVE Stored(s, i, t)
  BY <1>1, <1>2, <1>3, <1>6 DEF Stored
<1>7. Stored(s, i, t)
  BY <1>4, <1>5, <1>6
<1> QED BY <1>7 DEF t, u

(* Every outcome of flush.                                                 *)
LEMMA FlushCases ==
    ASSUME NEW s \in State, NEW i \in Ino, s.opened[i] # Nil, s.ok,
           Encoded(s.opened[i].xattr) <= Room
    PROVE  LET f == s.opened[i]
               t == flush(s, i)
               u == allocate_xattr(s, i)
               v == [free_db(s, f.xattr_ptr) EXCEPT !.opened[i].xattr_ptr = 0]
               w == [s EXCEPT !.ok = FALSE]
           IN  IF ~f.dirty \/ f.nlink = 0 THEN t = s
               ELSE IF f.xattr = NoAttrs
               THEN IF f.xattr_ptr = 0
                    THEN t = [write_inode(s, i) EXCEPT !.opened[i].dirty = FALSE]
                    ELSE t = [write_inode(v, i) EXCEPT !.opened[i].dirty = FALSE] \/ ~v.ok
               ELSE IF f.xattr_ptr # 0 THEN Stored(s, i, t)
               ELSE IF s.free = <<>> THEN t = w ELSE Stored(u, i, t)
<1> DEFINE f == s.opened[i]
           t == flush(s, i)
           u == allocate_xattr(s, i)
           v == [free_db(s, f.xattr_ptr) EXCEPT !.opened[i].xattr_ptr = 0]
           w == [s EXCEPT !.ok = FALSE]
<1>0. f \in Opened
  BY FilesOf
<1>1. CASE ~f.dirty \/ f.nlink = 0
  BY <1>1 DEF flush
<1>2. ASSUME ~(~f.dirty \/ f.nlink = 0)
      PROVE  /\ write_xattr(s, i).ok =>
                  t = [write_inode(write_xattr(s, i), i) EXCEPT !.opened[i].dirty = FALSE]
             /\ ~write_xattr(s, i).ok => t = write_xattr(s, i)
  BY <1>2, ZenonT(60) DEF flush
<1> HIDE DEF t
<1>3. CASE ~(~f.dirty \/ f.nlink = 0) /\ f.xattr = NoAttrs /\ f.xattr_ptr = 0
  <2>1. write_xattr(s, i) = s
    BY <1>3 DEF write_xattr
  <2> QED BY <2>1, <1>2, <1>3 DEF t
<1>4. CASE ~(~f.dirty \/ f.nlink = 0) /\ f.xattr = NoAttrs /\ f.xattr_ptr # 0
  <2>1. write_xattr(s, i) = v
    BY <1>4 DEF write_xattr
  <2> HIDE DEF v
  <2>2. t = [write_inode(v, i) EXCEPT !.opened[i].dirty = FALSE] \/ ~v.ok
    BY <2>1, <1>2, <1>4
  <2> QED BY <2>2, <1>4, ZenonT(60) DEF v, t
<1>5. CASE ~(~f.dirty \/ f.nlink = 0) /\ f.xattr # NoAttrs /\ f.xattr_ptr # 0
  <2>1. write_xattr(s, i) = store_xattr(s, i)
    BY <1>5 DEF write_xattr
  <2>2. store_xattr(s, i).ok = s.ok
    BY <1>5, StoreXattr
  <2>3. t = [write_inode(store_xattr(s, i), i) EXCEPT !.opened[i].dirty = FALSE]
    BY <2>1, <2>2, <1>2, <1>5
  <2>4. Stored(s, i, t)
    BY <2>3, <1>5, AttributesWritten
  <2> QED BY <2>4, <1>5 DEF t
<1>6. CASE ~(~f.dirty \/ f.nlink = 0) /\ f.xattr # NoAttrs /\ f.xattr_ptr = 0 /\ s.free = <<>>
  <2>1. u = w
    BY <1>6 DEF allocate_xattr
  <2>2. ~w.ok
    BY SetOk
  <2>3. write_xattr(s, i) = w
    <3> HIDE DEF w, u
    <3>1. write_xattr(s, i) = IF u.ok THEN store_xattr(u, i) ELSE u
      BY <1>6 DEF write_xattr, u
    <3> QED BY <3>1, <2>1, <2>2
  <2>4. t = w
    BY <2>2, <2>3, <1>2, <1>6
  <2> QED BY <2>4, <1>6 DEF t
<1>7. CASE ~(~f.dirty \/ f.nlink = 0) /\ f.xattr # NoAttrs /\ f.xattr_ptr = 0 /\ s.free # <<>>
  <2>1. u \in State /\ u.ok /\ Head(s.free) \in Block /\ u.opened[i] = Given(f, Head(s.free))
    BY <1>7, AllocateXattr
  <2>2. u.opened[i] \in Opened /\ u.opened[i].xattr = f.xattr /\ u.opened[i].xattr_ptr # 0
        /\ u.opened[i] # Nil
    <3>1. Head(s.free) # 0 /\ Nil \notin Opened
      BY <2>1, Constants
    <3> QED BY <1>0, <2>1, <3>1, GivenOf
  <2>3. write_xattr(s, i) = store_xattr(u, i)
    <3> HIDE DEF u
    <3>1. write_xattr(s, i) = IF u.ok THEN store_xattr(u, i) ELSE u
      BY <1>7 DEF write_xattr, u
    <3> QED BY <3>1, <2>1
  <2> HIDE DEF u
  <2>4. store_xattr(u, i).ok = u.ok
    BY <2>1, <2>2, StoreXattr
  <2>5. t = [write_inode(store_xattr(u, i), i) EXCEPT !.opened[i].dirty = FALSE]
    BY <2>1, <2>3, <2>4, <1>2, <1>7
  <2>6. Stored(u, i, t)
    BY <2>1, <2>2, <2>5, AttributesWritten
  <2> QED BY <2>6, <1>7, ZenonT(60) DEF t, u
<1> QED BY <1>1, <1>3, <1>4, <1>5, <1>6, <1>7

-----------------------------------------------------------------------------
(* The invariant of states within a call.                                  *)
(* What the device holds at every moment, also when the process is dead.   *)
(* names[i] is what the links of i count: s.entry[i], but in a call that   *)
(* has changed the directory and not yet, or never, the link count.        *)
Disk(s, c, names) ==
    /\ IsInjective(s.dfree)
    /\ \A i \in Ino : Ptr(s, i) # 0 =>
         /\ Ptr(s, i) \notin Range(s.dfree)
         /\ s.blk[Ptr(s, i)].kind = "attrs" /\ s.blk[Ptr(s, i)].attrs # NoAttrs
         /\ \A j \in Ino : Ptr(s, j) = Ptr(s, i) => j = i
    /\ c => \A i \in Ino : s.inode[i].nlink = names[i] /\ names[i] > 0

(* What memory has of file i.                                              *)
Cached(s, c, i, names) ==
    LET f == s.opened[i]
    IN  /\ s.fh[i] > 0 => f # Nil
        /\ NlinkIn(s, i) = names[i]
        /\ f # Nil =>
             /\ f.xattr_ptr = Ptr(s, i)
             /\ ~f.dirty => f.nlink = s.inode[i].nlink /\ f.xattr = SavedIn(s, i)
             /\ c /\ f.xattr = NoAttrs => f.xattr_ptr = 0

Live(s, c, names) ==
    /\ s.dfree = s.free
    /\ \A i \in Ino : Cached(s, c, i, names)
    /\ ~c => \A b \in Block : b \in Range(s.free) \/ \E i \in Ino : Ptr(s, i) = b

Sound(s, c, names) ==
    /\ s \in State /\ Disk(s, c, names)
    /\ s.left # 0 => Live(s, c, names)
    /\ ~c => s.left < 0

(* From s to t the attributes of j stay, and may be saved, or the file is  *)
(* reclaimed.                                                              *)
Kind(s, t, j, names) ==
    \/ /\ SavedIn(t, j) = SavedIn(s, j) \/ (s.left # 0 /\ SavedIn(t, j) = SeenIn(s, j))
       /\ t.left # 0 => SeenIn(t, j) = SeenIn(s, j)
    \/ /\ names[j] = 0 /\ s.fh[j] = 0
       /\ SavedIn(t, j) = NoAttrs
       /\ t.left # 0 => SeenIn(t, j) = NoAttrs

Calm(s, t, names) ==
    /\ s.left = 0 => t.left = 0
    /\ \A j \in Ino : Kind(s, t, j, names)

(* What changes no inode and no block loses no attributes.                 *)
LEMMA CalmSame ==
    ASSUME NEW names, NEW s, NEW t, t.left = s.left, t.inode = s.inode,
           t.blk = s.blk, t.opened = s.opened
    PROVE  Calm(s, t, names)
  BY DEF Calm, Kind, SavedIn, SeenIn, Ptr

(* Calm steps can be put together.                                         *)
LEMMA CalmTrans ==
    ASSUME NEW names, NEW s, NEW t, NEW u, Calm(s, t, names), Calm(t, u,
           names), t.fh = s.fh
    PROVE  Calm(s, u, names)
<1> SUFFICES ASSUME NEW j \in Ino PROVE Kind(s, u, j, names)
  BY DEF Calm
<1>1. /\ Kind(s, t, j, names) /\ Kind(t, u, j, names)
      /\ (s.left = 0 => t.left = 0) /\ (t.left = 0 => u.left = 0)
  BY DEF Calm
<1> QED BY <1>1 DEF Kind

(* After death nothing reaches the device.                                 *)
LEMMA DeadOK ==
    ASSUME NEW names, NEW s, NEW c, Sound(s, c, names), s.left = 0,
           NEW t \in State, Alike(s, t),
           t.left = 0, t.dfree = s.dfree, t.blk = s.blk, t.inode = s.inode
    PROVE  Sound(t, c, names) /\ Calm(s, t, names)
<1>1. Disk(t, c, names)
  BY DEF Sound, Disk, Ptr, Alike
<1>2. \A j \in Ino : SavedIn(t, j) = SavedIn(s, j)
  BY DEF SavedIn, Ptr
<1> QED BY <1>1, <1>2 DEF Sound, Calm, Kind

(* A file that a step leaves alone.                                        *)
LEMMA OtherFile ==
    ASSUME NEW names, NEW s, NEW t, NEW c, NEW j \in Ino, Cached(s, c, j,
           names),
           t.fh[j] = s.fh[j], t.opened[j] = s.opened[j],
           t.inode[j] = s.inode[j], Ptr(s, j) # 0 => t.blk[Ptr(s, j)] = s.blk[Ptr(s, j)]
    PROVE  Cached(t, c, j, names) /\ SavedIn(t, j) = SavedIn(s, j) /\ SeenIn(t, j) = SeenIn(s, j)
<1>1. SavedIn(t, j) = SavedIn(s, j)
  BY DEF SavedIn, Ptr
<1> QED BY <1>1 DEF Cached, SeenIn, NlinkIn, Ptr

(* The encoded attributes of a file fill at most a block.                  *)
AttributesFit == \A m \in Attrs : Encoded(m) <= Room

(* What flush of file i leads to.                                          *)
Flushed(s, c, i, t, names) ==
    /\ Sound(t, c, names) /\ Alike(s, t) /\ Calm(s, t, names)
    /\ t.opened[i] # Nil /\ t.opened[i].nlink = s.opened[i].nlink
    /\ \A j \in Ino \ {i} : t.opened[j] = s.opened[j] /\ t.inode[j] = s.inode[j]
    /\ t.ok /\ t.left # 0 => t.opened[i].nlink = 0 \/ ~t.opened[i].dirty

(* File i has a block to store its attributes in, its own or a new one     *)
(* that no file on the device has.                                         *)
Ready(s, c, i, u) ==
    LET b == u.opened[i].xattr_ptr
    IN  /\ u \in State /\ Alike(s, u) /\ u.ok
        /\ u.inode = s.inode /\ u.blk = s.blk /\ u.dfree = u.free
        /\ \A j \in Ino \ {i} : u.opened[j] = s.opened[j]
        /\ u.opened[i] \in Opened /\ u.opened[i].xattr = s.opened[i].xattr
        /\ u.opened[i].nlink = s.opened[i].nlink
        /\ b \in Block /\ b \notin Range(u.dfree) /\ Ptr(s, i) \in {0, b}
        /\ \A j \in Ino \ {i} : Ptr(s, j) # b
        /\ IsInjective(u.dfree) /\ Range(u.dfree) \subseteq Range(s.dfree)
        /\ ~c => /\ u.left < 0
                 /\ \A a \in Block : a = b \/ a \in Range(u.dfree) \/ \E j \in Ino : Ptr(s, j) = a

(* A file whose attributes have a block is flushed: every write, and every *)
(* prefix of the writes, leaves the device sound.                          *)
LEMMA StoredOK ==
    ASSUME NEW names, NEW s, NEW c, Sound(s, c, names), s.left # 0,
           NEW i \in Ino,
           s.opened[i] # Nil, s.opened[i].xattr # NoAttrs,
           NEW u, Ready(s, c, i, u), NEW t, Stored(u, i, t)
    PROVE  Flushed(s, c, i, t, names)
<1> DEFINE g == u.opened[i]
           b == g.xattr_ptr
           m == g.xattr
<1>1. /\ s \in State /\ Disk(s, c, names) /\ Live(s, c, names) /\ (~c => s.left < 0)
      /\ \A j \in Ino : Cached(s, c, j, names)
  BY DEF Sound, Live
<1>2. /\ u \in State /\ Alike(s, u) /\ u.ok
      /\ u.inode = s.inode /\ u.blk = s.blk /\ u.dfree = u.free
      /\ \A j \in Ino \ {i} : u.opened[j] = s.opened[j]
      /\ g \in Opened /\ m = s.opened[i].xattr
      /\ g.nlink = s.opened[i].nlink
      /\ b \in Block /\ b \notin Range(u.dfree) /\ Ptr(s, i) \in {0, b}
      /\ \A j \in Ino \ {i} : Ptr(s, j) # b
      /\ IsInjective(u.dfree) /\ Range(u.dfree) \subseteq Range(s.dfree)
      /\ ~c => /\ u.left < 0
               /\ \A a \in Block : a = b \/ a \in Range(u.dfree) \/ \E j \in Ino : Ptr(s, j) = a
  BY DEF Ready
<1>3. /\ t \in State /\ Alike(u, t) /\ t.ok = u.ok
      /\ t.free = u.free /\ t.dfree = u.dfree
      /\ t.opened[i] = Clean(g)
      /\ \A j \in Ino \ {i} : t.opened[j] = u.opened[j] /\ t.inode[j] = u.inode[j]
      /\ u.left = 0 => t.left = 0 /\ t.blk = u.blk /\ t.inode[i] = u.inode[i]
      /\ u.left # 0 => /\ t.blk[b] = AttrBlock(m)
                       /\ \A a \in Block \ {b} : t.blk[a] = u.blk[a]
      /\ u.left = 1 => t.left = 0 /\ t.inode[i] = u.inode[i]
      /\ u.left \notin {0, 1} => t.left = u.left - 2 /\ t.inode[i] = Record(g)
  BY DEF Stored
<1>4. /\ Clean(g) \in Opened /\ Clean(g) # Nil /\ Clean(g).nlink = g.nlink
      /\ Clean(g).xattr_ptr = b /\ Clean(g).xattr = m /\ ~Clean(g).dirty
  BY <1>2, CleanOf, Constants
<1>5. u.left \in Int /\ b # 0 /\ m # NoAttrs
  BY <1>2, Fields, Constants
<1> HIDE DEF g, b, m
<1>6. AttrBlock(m).kind = "attrs" /\ AttrBlock(m).attrs = m
  BY DEF AttrBlock
<1>7. Record(g).nlink = g.nlink /\ Record(g).xattr_ptr = b
  BY DEF Record, b
<1>8. Alike(s, t)
  BY <1>2, <1>3 DEF Alike
<1>9. \A j \in Ino : s.inode[j] \in OnDisk /\ t.inode[j] \in OnDisk
  BY <1>1, <1>3, FilesOf
<1>10. \A j \in Ino : Ptr(s, j) # 0 => Ptr(s, j) \in Block
  BY <1>9, Constants DEF Ptr
<1>11. \A j \in Ino \ {i} : Ptr(t, j) = Ptr(s, j)
  BY <1>2, <1>3 DEF Ptr
<1>12. Ptr(t, i) = Ptr(s, i) \/ (Ptr(t, i) = b /\ u.left # 0)
  BY <1>2, <1>3, <1>7 DEF Ptr
<1>13. \A a \in Block \ {b} : t.blk[a] = s.blk[a]
  BY <1>2, <1>3
<1>14. Ptr(t, i) # 0 => t.blk[b].kind = "attrs" /\ t.blk[b].attrs # NoAttrs /\ Ptr(t, i) = b
  BY <1>1, <1>2, <1>3, <1>5, <1>6, <1>12 DEF Disk
<1>15. g.nlink = names[i] /\ t.inode[i].nlink \in {s.inode[i].nlink, g.nlink}
  BY <1>1, <1>2, <1>3, <1>7 DEF Cached, NlinkIn
<1>16. Disk(t, c, names)
  <2>1. ASSUME NEW j \in Ino, Ptr(t, j) # 0
        PROVE  /\ Ptr(t, j) \notin Range(t.dfree)
               /\ t.blk[Ptr(t, j)].kind = "attrs" /\ t.blk[Ptr(t, j)].attrs # NoAttrs
               /\ \A k \in Ino : Ptr(t, k) = Ptr(t, j) => k = j
    <3>1. CASE j = i
      BY <3>1, <2>1, <1>2, <1>3, <1>11, <1>14
    <3>2. CASE j # i
      <4>1. Ptr(t, j) = Ptr(s, j) /\ Ptr(s, j) # b /\ Ptr(s, j) \in Block
        BY <3>2, <2>1, <1>2, <1>10, <1>11
      <4>2. t.blk[Ptr(t, j)] = s.blk[Ptr(s, j)]
        BY <4>1, <1>13
      <4>3. \A k \in Ino : Ptr(t, k) = Ptr(t, j) => k = j
        BY <4>1, <2>1, <1>1, <1>11, <1>12, <1>14 DEF Disk
      <4>4. Ptr(s, j) \notin Range(s.dfree) /\ s.blk[Ptr(s, j)].kind = "attrs"
            /\ s.blk[Ptr(s, j)].attrs # NoAttrs
        BY <4>1, <2>1, <1>1 DEF Disk
      <4> QED BY <4>1, <4>2, <4>3, <4>4, <1>2, <1>3
    <3> QED BY <3>1, <3>2
  <2>2. ASSUME c, NEW j \in Ino PROVE t.inode[j].nlink = names[j] /\ names[j] > 0
    <3>1. s.inode[j].nlink = names[j] /\ names[j] > 0
      BY <2>2, <1>1, <1>8 DEF Disk, Alike
    <3> QED BY <3>1, <1>2, <1>3, <1>15
  <2> QED BY <2>1, <2>2, <1>2, <1>3 DEF Disk
<1>17. \A j \in Ino \ {i} : /\ Cached(t, c, j, names) /\ SavedIn(t, j) = SavedIn(s, j)
                            /\ SeenIn(t, j) = SeenIn(s, j)
  <2> SUFFICES ASSUME NEW j \in Ino \ {i}
               PROVE  /\ Cached(t, c, j, names) /\ SavedIn(t, j) = SavedIn(s, j)
                      /\ SeenIn(t, j) = SeenIn(s, j)
    OBVIOUS
  <2>1. /\ t.fh[j] = s.fh[j] /\ t.opened[j] = s.opened[j]
        /\ t.inode[j] = s.inode[j]
    BY <1>2, <1>3, <1>8 DEF Alike
  <2>2. Ptr(s, j) # 0 => t.blk[Ptr(s, j)] = s.blk[Ptr(s, j)]
    BY <1>2, <1>10, <1>13
  <2> QED BY <2>1, <2>2, <1>1, OtherFile
<1>18. SeenIn(s, i) = m /\ SeenIn(t, i) = m
  BY <1>2, <1>3, <1>4 DEF SeenIn
<1>19. SavedIn(t, i) = SavedIn(s, i) \/ SavedIn(t, i) = m
  <2>1. CASE u.left = 0
    BY <2>1, <1>2, <1>3 DEF SavedIn, Ptr
  <2>2. CASE u.left # 0 /\ Ptr(t, i) = b
    BY <2>2, <1>3, <1>5, <1>6 DEF SavedIn
  <2>3. CASE u.left # 0 /\ Ptr(t, i) # b
    <3>1. Ptr(t, i) = 0 /\ Ptr(s, i) = 0
      BY <2>3, <1>2, <1>12
    <3> QED BY <3>1 DEF SavedIn
  <2> QED BY <2>1, <2>2, <2>3
<1>20. Calm(s, t, names)
  BY <1>17, <1>18, <1>19 DEF Calm, Kind
<1>21. ASSUME t.left # 0 PROVE Live(t, c, names)
  <2>1. t.inode[i] = Record(g) /\ u.left # 0 /\ Ptr(t, i) = b
    BY <1>21, <1>3, <1>7 DEF Ptr
  <2>2. SavedIn(t, i) = m
    BY <2>1, <1>3, <1>5, <1>6 DEF SavedIn
  <2>4. Cached(t, c, i, names)
    BY <2>1, <2>2, <1>3, <1>4, <1>5, <1>7, <1>8, <1>15 DEF Alike, Cached, NlinkIn
  <2>5. ASSUME ~c, NEW a \in Block PROVE a \in Range(t.free) \/ \E j \in Ino : Ptr(t, j) = a
    <3>1. a = b \/ a \in Range(u.dfree) \/ \E j \in Ino : Ptr(s, j) = a
      BY <2>5, <1>2
    <3>2. CASE a = b
      BY <3>2, <2>1
    <3>3. ASSUME NEW j \in Ino, Ptr(s, j) = a PROVE \E k \in Ino : Ptr(t, k) = a
      <4>1. CASE j = i
        <5>1. a # 0
          BY Constants
        <5> QED BY <5>1, <4>1, <3>3, <2>1, <1>2
      <4> QED BY <4>1, <3>3, <1>11
    <3> QED BY <3>1, <3>2, <3>3, <1>2, <1>3
  <2> QED BY <2>4, <2>5, <1>2, <1>3, <1>17 DEF Live
<1>22. ~c => t.left < 0
  BY <1>2, <1>3, <1>5
<1>23. Sound(t, c, names)
  BY <1>3, <1>16, <1>21, <1>22 DEF Sound
<1> QED BY <1>2, <1>3, <1>4, <1>8, <1>20, <1>23 DEF Flushed

(* The inode is written with attributes that need no block.                *)
LEMMA BareOK ==
    ASSUME NEW names, NEW s, NEW c, Sound(s, c, names), s.left # 0,
           NEW i \in Ino,
           s.opened[i] # Nil, s.opened[i].xattr = NoAttrs,
           NEW u \in State, Alike(s, u), u.ok, u.opened[i] \in Opened,
           u.opened[i].xattr = NoAttrs, u.opened[i].nlink = s.opened[i].nlink,
           u.opened[i].xattr_ptr = 0, u.inode = s.inode, u.left # 0, ~c => u.left < 0,
           u.dfree = u.free, IsInjective(u.dfree),
           \A j \in Ino \ {i} : u.opened[j] = s.opened[j],
           \A a \in Block : a # Ptr(s, i) => u.blk[a] = s.blk[a],
           \A a \in Range(u.free) : a \in Range(s.free) \/ a = Ptr(s, i),
           \A a \in Block : a \in Range(s.free) \/ a = Ptr(s, i) => a \in Range(u.free)
    PROVE  Flushed(s, c, i, [write_inode(u, i) EXCEPT !.opened[i].dirty = FALSE], names)
<1> DEFINE t == [write_inode(u, i) EXCEPT !.opened[i].dirty = FALSE]
           g == u.opened[i]
<1>1. /\ s \in State /\ Disk(s, c, names) /\ Live(s, c, names) /\ s.dfree = s.free
      /\ \A j \in Ino : Cached(s, c, j, names)
  BY DEF Sound, Live
<1>2. g # Nil
  BY Constants
<1>3. /\ t \in State /\ Alike(u, t) /\ t.ok = u.ok
      /\ t.free = u.free /\ t.dfree = u.dfree /\ t.blk = u.blk
      /\ t.opened[i] = Clean(g)
      /\ \A j \in Ino \ {i} : t.opened[j] = u.opened[j] /\ t.inode[j] = u.inode[j]
      /\ t.left = u.left - 1 /\ t.inode[i] = Record(g)
  BY <1>2, InodeWritten, ZenonT(60)
<1> HIDE DEF t
<1>4. /\ Clean(g) \in Opened /\ Clean(g) # Nil /\ Clean(g).nlink = g.nlink
      /\ Clean(g).xattr_ptr = 0 /\ Clean(g).xattr = NoAttrs /\ ~Clean(g).dirty
  BY CleanOf, Constants
<1>5. Record(g).nlink = g.nlink /\ Record(g).xattr_ptr = 0 /\ u.left \in Int
  BY Fields DEF Record
<1> HIDE DEF g
<1>6. Alike(s, t)
  BY <1>3 DEF Alike
<1>7. \A j \in Ino : s.inode[j] \in OnDisk
  BY <1>1, FilesOf
<1>8. \A j \in Ino : Ptr(s, j) # 0 => Ptr(s, j) \in Block
  BY <1>7, Constants DEF Ptr
<1>9. Ptr(t, i) = 0 /\ \A j \in Ino \ {i} : Ptr(t, j) = Ptr(s, j)
  BY <1>3, <1>5 DEF Ptr
<1>10. \A j \in Ino \ {i} : Ptr(s, j) # 0 => t.blk[Ptr(s, j)] = s.blk[Ptr(s, j)]
  BY <1>1, <1>3, <1>8 DEF Disk
<1>11. g.nlink = names[i] /\ t.inode[i].nlink = g.nlink
  BY <1>1, <1>3, <1>5 DEF Cached, NlinkIn, g
<1>12. Disk(t, c, names)
  <2>1. ASSUME NEW j \in Ino, Ptr(t, j) # 0
        PROVE  /\ Ptr(t, j) \notin Range(t.dfree)
               /\ t.blk[Ptr(t, j)].kind = "attrs" /\ t.blk[Ptr(t, j)].attrs # NoAttrs
               /\ \A k \in Ino : Ptr(t, k) = Ptr(t, j) => k = j
    <3>1. j # i /\ Ptr(t, j) = Ptr(s, j)
      BY <2>1, <1>9
    <3>2. \A k \in Ino : Ptr(s, k) = Ptr(s, j) => k = j
      BY <3>1, <2>1, <1>1 DEF Disk
    <3>3. Ptr(s, j) \notin Range(s.dfree) /\ s.blk[Ptr(s, j)].kind = "attrs"
          /\ s.blk[Ptr(s, j)].attrs # NoAttrs
      BY <3>1, <2>1, <1>1 DEF Disk
    <3>4. Ptr(s, j) \notin Range(t.dfree)
      BY <3>1, <3>2, <3>3, <1>1, <1>3
    <3>5. \A k \in Ino : Ptr(t, k) = Ptr(t, j) => k = j
      BY <3>1, <3>2, <2>1, <1>9
    <3> QED BY <3>1, <3>3, <3>4, <3>5, <2>1, <1>10
  <2>2. ASSUME c, NEW j \in Ino PROVE t.inode[j].nlink = names[j] /\ names[j] > 0
    <3>1. s.inode[j].nlink = names[j] /\ names[j] > 0
      BY <2>2, <1>1, <1>6 DEF Disk, Alike
    <3> QED BY <3>1, <1>3, <1>11
  <2> QED BY <2>1, <2>2, <1>3 DEF Disk
<1>13. \A j \in Ino \ {i} : /\ Cached(t, c, j, names) /\ SavedIn(t, j) = SavedIn(s, j)
                            /\ SeenIn(t, j) = SeenIn(s, j)
  <2> SUFFICES ASSUME NEW j \in Ino \ {i}
               PROVE  /\ Cached(t, c, j, names) /\ SavedIn(t, j) = SavedIn(s, j)
                      /\ SeenIn(t, j) = SeenIn(s, j)
    OBVIOUS
  <2>1. /\ t.fh[j] = s.fh[j] /\ t.opened[j] = s.opened[j]
        /\ t.inode[j] = s.inode[j]
    BY <1>3, <1>6 DEF Alike
  <2> QED BY <2>1, <1>1, <1>10, OtherFile
<1>14. SeenIn(s, i) = NoAttrs /\ SeenIn(t, i) = NoAttrs /\ SavedIn(t, i) = NoAttrs
  BY <1>3, <1>4, <1>9 DEF SeenIn, SavedIn
<1>15. Calm(s, t, names)
  BY <1>13, <1>14 DEF Calm, Kind
<1>16. Live(t, c, names)
  <2>2. Cached(t, c, i, names)
    BY <1>3, <1>4, <1>6, <1>9, <1>11, <1>14 DEF Alike, Cached, NlinkIn
  <2>3. ASSUME ~c, NEW a \in Block PROVE a \in Range(t.free) \/ \E j \in Ino : Ptr(t, j) = a
    <3>1. a \in Range(s.free) \/ \E j \in Ino : Ptr(s, j) = a
      BY <2>3, <1>1 DEF Live
    <3> QED BY <3>1, <1>3, <1>9
  <2> QED BY <2>2, <2>3, <1>3, <1>13 DEF Live
<1>17. ~c => t.left < 0
  BY <1>3, <1>5
<1>18. Sound(t, c, names)
  BY <1>3, <1>12, <1>16, <1>17 DEF Sound
<1>19. Flushed(s, c, i, t, names)
  BY <1>3, <1>4, <1>6, <1>15, <1>18 DEF Flushed, g
<1> QED BY <1>19 DEF t

(* A flush of a dead process.                                              *)
LEMMA DeadFlushed ==
    ASSUME NEW names, NEW s, NEW c, Sound(s, c, names), s.left = 0,
           NEW i \in Ino,
           NEW t \in State, Alike(s, t), t.left = 0, t.dfree = s.dfree, t.blk = s.blk,
           \A j \in Ino : t.inode[j] = s.inode[j],
           \A j \in Ino \ {i} : t.opened[j] = s.opened[j],
           t.opened[i] # Nil, t.opened[i].nlink = s.opened[i].nlink
    PROVE  Flushed(s, c, i, t, names)
<1>1. t.inode = s.inode
  <2>1. t.inode \in [Ino -> OnDisk] /\ s.inode \in [Ino -> OnDisk]
    BY Fields DEF Sound
  <2> QED BY <2>1
<1> QED BY <1>1, DeadOK DEF Flushed

(* flush keeps the invariant and the attributes, whatever its outcome.     *)
LEMMA FlushOK ==
    ASSUME NEW names, AttributesFit, NEW s, NEW c, Sound(s, c, names), s.ok,
           NEW i \in Ino, s.opened[i] # Nil
    PROVE  Flushed(s, c, i, flush(s, i), names)
<1> DEFINE f == s.opened[i]
           b == f.xattr_ptr
           t == flush(s, i)
           u == allocate_xattr(s, i)
           v == [free_db(s, b) EXCEPT !.opened[i].xattr_ptr = 0]
           w == [s EXCEPT !.ok = FALSE]
<1>1. s \in State /\ f \in Opened /\ s.left \in Int /\ (b # 0 => b \in Block)
  BY FilesOf, Fields, Constants DEF Sound
<1>2. f.xattr \in Attrs /\ Encoded(f.xattr) <= Room
  BY <1>1 DEF Opened, AttributesFit
<1>3. IF ~f.dirty \/ f.nlink = 0 THEN t = s
      ELSE IF f.xattr = NoAttrs
      THEN IF b = 0
           THEN t = [write_inode(s, i) EXCEPT !.opened[i].dirty = FALSE]
           ELSE t = [write_inode(v, i) EXCEPT !.opened[i].dirty = FALSE] \/ ~v.ok
      ELSE IF b # 0 THEN Stored(s, i, t)
      ELSE IF s.free = <<>> THEN t = w ELSE Stored(u, i, t)
  BY <1>1, <1>2, FlushCases
<1>4. s.left # 0 => /\ Cached(s, c, i, names) /\ s.dfree = s.free /\ b = Ptr(s, i)
                    /\ ~c => \A a \in Block : a \in Range(s.free) \/ \E j \in Ino : Ptr(s, j) = a
  BY DEF Sound, Live, Cached
<1>5. Disk(s, c, names) /\ IsInjective(s.dfree) /\ (~c => s.left < 0)
  BY DEF Sound, Disk
<1>6. Alike(s, s)
  BY DEF Alike
<1> HIDE DEF t
<1>7. CASE ~f.dirty \/ f.nlink = 0
  <2>1. t = s
    BY <1>7, <1>3
  <2>2. Calm(s, s, names)
    BY ONLY CalmSame
  <2> QED BY <2>1, <2>2, <1>6, <1>7 DEF Flushed, t
<1>8. CASE ~(~f.dirty \/ f.nlink = 0) /\ f.xattr = NoAttrs /\ b = 0
  <2> DEFINE r == [write_inode(s, i) EXCEPT !.opened[i].dirty = FALSE]
  <2>1. t = r
    BY <1>8, <1>3
  <2>2. CASE s.left = 0
    <3>1. /\ r \in State /\ Alike(s, r)
          /\ r.dfree = s.dfree /\ r.blk = s.blk
          /\ r.opened[i] = Clean(f) /\ r.left = 0 /\ r.inode[i] = s.inode[i]
          /\ \A j \in Ino \ {i} : r.opened[j] = s.opened[j] /\ r.inode[j] = s.inode[j]
      <4>1. s \in State /\ i \in Ino /\ s.opened[i] # Nil /\ s.left = 0
        BY <2>2, <1>1
      <4> QED BY ONLY <4>1, InodeWritten DEF r, f
    <3>2. Clean(f) # Nil /\ Clean(f).nlink = f.nlink
      BY <1>1, CleanOf, Constants
    <3> HIDE DEF r
    <3>3. Flushed(s, c, i, r, names)
      BY <2>2, <3>1, <3>2, DeadFlushed
    <3> QED BY <2>1, <3>3 DEF t
  <2>3. CASE s.left # 0
    <3>1. Ptr(s, i) = 0 /\ \A a \in Range(s.free) : a \in Block
      <4>1. s.free \in Seq(Block)
        BY <1>1, Fields
      <4> QED BY <4>1, <2>3, <1>4, <1>8 DEF Range
    <3>2. \A a \in Block : a # 0
      BY Constants
    <3> HIDE DEF f, b
    <3>3. Flushed(s, c, i, r, names)
      BY <2>3, <3>1, <3>2, <1>1, <1>4, <1>5, <1>6, <1>8, BareOK DEF f, b
    <3> QED BY <2>1, <3>3 DEF t
  <2> QED BY <2>2, <2>3
<1>9. CASE ~(~f.dirty \/ f.nlink = 0) /\ f.xattr = NoAttrs /\ b # 0
  <2> DEFINE d == free_db(s, b)
  <2>1. /\ d \in State /\ Alike(s, d) /\ d.opened = s.opened /\ d.ok = s.ok
        /\ d.inode = s.inode
        /\ s.left = 0 => d.left = 0 /\ d.dfree = s.dfree /\ d.blk = s.blk
        /\ s.left < 0 =>
             /\ d.left < 0 /\ d.free = <<b>> \o s.free /\ d.dfree = d.free
             /\ d.blk[b] = FreeNode /\ \A a \in Block \ {b} : d.blk[a] = s.blk[a]
    BY <1>1, <1>9, FreeDb
  <2> HIDE DEF d, b
  <2>2. v = [d EXCEPT !.opened[i] = Bare(f)]
    BY <2>1 DEF d, Bare
  <2>3. /\ Bare(f) \in Opened /\ Bare(f).xattr_ptr = 0 /\ Bare(f) # Nil
        /\ Bare(f).nlink = f.nlink /\ Bare(f).xattr = f.xattr
    BY <1>1, BareOf, Constants
  <2> HIDE DEF v
  <2>4. /\ v \in State /\ Alike(d, v) /\ v.left = d.left /\ v.ok = d.ok
        /\ v.free = d.free /\ v.dfree = d.dfree /\ v.blk = d.blk
        /\ v.inode = d.inode /\ v.opened[i] = Bare(f)
        /\ \A j \in Ino \ {i} : v.opened[j] = d.opened[j]
    <3>1. d \in State /\ Bare(f) \in Opened \union {Nil}
      BY <2>1, <2>3
    <3> QED BY <3>1, <2>2, SetOpened
  <2> DEFINE r == [write_inode(v, i) EXCEPT !.opened[i].dirty = FALSE]
  <2>5. t = r
    BY <1>9, <1>3, <2>1, <2>4
  <2>6. Alike(s, v)
    BY <2>1, <2>4 DEF Alike
  <2>7. CASE s.left = 0
    <3>1. /\ r \in State /\ Alike(v, r)
          /\ r.dfree = v.dfree /\ r.blk = v.blk
          /\ r.opened[i] = Clean(v.opened[i]) /\ r.left = 0 /\ r.inode[i] = v.inode[i]
          /\ \A j \in Ino \ {i} : r.opened[j] = v.opened[j] /\ r.inode[j] = v.inode[j]
      <4>1. v \in State /\ v.opened[i] # Nil /\ v.left = 0
        BY <2>1, <2>3, <2>4, <2>7
      <4> QED BY <4>1, InodeWritten
    <3>2. Clean(Bare(f)) # Nil /\ Clean(Bare(f)).nlink = f.nlink
      BY <2>3, CleanOf, Constants
    <3> HIDE DEF r
    <3>3. Alike(s, r)
      BY <2>6, <3>1 DEF Alike
    <3>4. Flushed(s, c, i, r, names)
      BY <2>1, <2>4, <2>7, <3>1, <3>2, <3>3, DeadFlushed
    <3> QED BY <2>5, <3>4 DEF t
  <2>8. CASE s.left # 0
    <3>1. ~c /\ s.left < 0 /\ b = Ptr(s, i) /\ s.dfree = s.free
      BY <2>8, <1>4, <1>5, <1>9 DEF Cached, b
    <3>2. b \in Block /\ b \notin Range(s.free) /\ s.free \in Seq(Block) /\ IsInjective(s.free)
      <4>1. b \in Block /\ Ptr(s, i) # 0
        BY <3>1, <1>1, <1>9
      <4>2. s.free \in Seq(Block) /\ IsInjective(s.free)
        BY <3>1, <1>1, <1>5, Fields
      <4> QED BY <4>1, <4>2, <3>1, <1>5 DEF Disk
    <3>3. IsInjective(v.free) /\ Range(v.free) = Range(s.free) \union {b}
      <4>1. v.free = <<b>> \o s.free
        BY <3>1, <2>1, <2>4
      <4>2. IsInjective(<<b>> \o s.free) /\ Range(<<b>> \o s.free) = Range(s.free) \union {b}
        BY <3>2, ConsOf
      <4> QED BY <4>1, <4>2
    <3>4. /\ v \in State /\ Alike(s, v) /\ v.ok /\ v.opened[i] \in Opened
          /\ v.opened[i].xattr = NoAttrs /\ v.opened[i].nlink = s.opened[i].nlink
          /\ v.opened[i].xattr_ptr = 0 /\ v.inode = s.inode /\ v.left # 0 /\ v.left < 0
          /\ v.dfree = v.free /\ IsInjective(v.dfree)
          /\ \A j \in Ino \ {i} : v.opened[j] = s.opened[j]
          /\ \A a \in Block : a # Ptr(s, i) => v.blk[a] = s.blk[a]
          /\ \A a \in Range(v.free) : a \in Range(s.free) \/ a = Ptr(s, i)
          /\ \A a \in Block : a \in Range(s.free) \/ a = Ptr(s, i) => a \in Range(v.free)
      BY <3>1, <3>3, <2>1, <2>3, <2>4, <2>6, <1>9
    <3>5. Flushed(s, c, i, r, names)
      BY <2>8, <3>4, <1>9, BareOK
    <3> QED BY <2>5, <3>5 DEF t
  <2> QED BY <2>7, <2>8
<1>10. CASE ~(~f.dirty \/ f.nlink = 0) /\ f.xattr # NoAttrs /\ b # 0
  <2>1. Stored(s, i, t)
    BY <1>10, <1>3
  <2>2. CASE s.left = 0
    <3>1. Clean(f) # Nil /\ Clean(f).nlink = f.nlink
      BY <1>1, CleanOf, Constants
    <3>2. Flushed(s, c, i, t, names)
      BY <2>1, <2>2, <3>1, DeadFlushed DEF Stored
    <3> QED BY <3>2 DEF t
  <2>3. CASE s.left # 0
    <3>1. Ptr(s, i) = b /\ b \in Block /\ s.dfree = s.free /\ b \notin Range(s.dfree)
          /\ \A j \in Ino \ {i} : Ptr(s, j) # b
      BY <2>3, <1>1, <1>4, <1>5, <1>10 DEF Disk
    <3>2. Ready(s, c, i, s)
      BY <3>1, <2>3, <1>1, <1>4, <1>5, <1>6 DEF Ready
    <3>3. Flushed(s, c, i, t, names)
      BY <2>1, <2>3, <3>2, <1>10, StoredOK
    <3> QED BY <3>3 DEF t
  <2> QED BY <2>2, <2>3
<1>11. CASE ~(~f.dirty \/ f.nlink = 0) /\ f.xattr # NoAttrs /\ b = 0 /\ s.free = <<>>
  <2>1. t = w
    BY <1>11, <1>3
  <2>2. /\ w \in State /\ Alike(s, w) /\ w.left = s.left /\ ~w.ok
        /\ w.free = s.free /\ w.dfree = s.dfree /\ w.blk = s.blk
        /\ w.inode = s.inode /\ w.opened = s.opened
    BY <1>1, SetOk
  <2> HIDE DEF w
  <2>3. Calm(s, w, names)
    BY <2>2, CalmSame
  <2>4. Disk(w, c, names)
    BY <2>2, <1>5 DEF Disk, Ptr, Alike
  <2>5. ASSUME s.left # 0 PROVE Live(w, c, names)
    <3>1. \A j \in Ino : Cached(w, c, j, names)
      BY <2>2, <2>5 DEF Sound, Live, Cached, NlinkIn, SavedIn, Ptr, Alike
    <3> QED BY <3>1, <2>2, <2>5, <1>4 DEF Live, Ptr
  <2>6. Flushed(s, c, i, w, names)
    BY <2>2, <2>3, <2>4, <2>5, <1>5 DEF Flushed, Sound
  <2> QED BY <2>1, <2>6 DEF t
<1>12. CASE ~(~f.dirty \/ f.nlink = 0) /\ f.xattr # NoAttrs /\ b = 0 /\ s.free # <<>>
  <2> DEFINE h == Head(s.free)
             g == Given(f, h)
  <2>1. Stored(u, i, t)
    BY <1>12, <1>3
  <2>2. /\ u \in State /\ Alike(s, u) /\ u.ok = s.ok
        /\ h \in Block /\ u.free = Tail(s.free)
        /\ u.opened[i] = g
        /\ \A j \in Ino \ {i} : u.opened[j] = s.opened[j]
        /\ u.blk = s.blk /\ u.inode = s.inode
        /\ s.left = 0 => u.left = 0 /\ u.dfree = s.dfree
        /\ s.left # 0 => u.left = s.left - 1 /\ u.dfree = u.free
    BY <1>1, <1>12, AllocateXattr
  <2> HIDE DEF u, h
  <2>3. g \in Opened /\ g.xattr_ptr = h /\ g.nlink = f.nlink /\ g.xattr = f.xattr /\ g # Nil
    BY <2>2, <1>1, GivenOf, Constants
  <2> HIDE DEF g
  <2>4. CASE s.left = 0
    <3>1. Clean(g) # Nil /\ Clean(g).nlink = f.nlink
      BY <2>3, CleanOf, Constants
    <3>2. Alike(s, t)
      BY <2>1, <2>2 DEF Stored, Alike
    <3>3. Flushed(s, c, i, t, names)
      BY <2>1, <2>2, <2>4, <3>1, <3>2, DeadFlushed DEF Stored
    <3> QED BY <3>3 DEF t
  <2>5. CASE s.left # 0
    <3>1. Ptr(s, i) = 0 /\ s.dfree = s.free /\ s.free \in Seq(Block) /\ h # 0
      BY <2>2, <2>5, <1>1, <1>4, <1>12, Fields, Constants
    <3>2. /\ h \in Range(s.free) /\ IsInjective(u.free) /\ Range(u.free) = Range(s.free) \ {h}
      BY <3>1, <2>2, <1>5, <1>12, TailOf DEF h
    <3>3. \A j \in Ino \ {i} : Ptr(s, j) # h
      BY <3>1, <3>2, <1>5 DEF Disk
    <3>4. ASSUME ~c PROVE u.left < 0
      BY <3>4, <2>2, <2>5, <1>1, <1>5
    <3>5. ASSUME ~c, NEW a \in Block
          PROVE  a = h \/ a \in Range(u.dfree) \/ \E j \in Ino : Ptr(s, j) = a
      BY <3>5, <3>2, <2>2, <2>5, <1>4
    <3>6. Ready(s, c, i, u)
      BY <3>1, <3>2, <3>3, <3>4, <3>5, <2>2, <2>3, <2>5 DEF Ready
    <3>7. Flushed(s, c, i, t, names)
      BY <2>1, <2>5, <3>6, <1>12, StoredOK
    <3> QED BY <3>7 DEF t
  <2> QED BY <2>4, <2>5
<1> QED BY <1>7, <1>8, <1>9, <1>10, <1>11, <1>12

(* destroy frees the attributes' block and the inode, when the process     *)
(* does not die.                                                           *)
LEMMA Destroy ==
    ASSUME NEW s \in State, NEW i \in Ino, s.opened[i] # Nil
    PROVE  LET t == destroy(s, i)
               b == s.opened[i].xattr_ptr
           IN  /\ t \in State /\ Alike(s, t) /\ t.opened = s.opened /\ t.ok = s.ok
               /\ s.left = 0 => /\ t.left = 0 /\ t.dfree = s.dfree /\ t.blk = s.blk
                                /\ t.inode = s.inode
               /\ s.left < 0 =>
                    /\ t.left < 0 /\ t.dfree = t.free
                    /\ t.inode[i] = NoInode /\ \A j \in Ino \ {i} : t.inode[j] = s.inode[j]
                    /\ t.free = IF b = 0 THEN s.free ELSE <<b>> \o s.free
                    /\ \A a \in Block \ {b} : t.blk[a] = s.blk[a]
<1> DEFINE b == s.opened[i].xattr_ptr
           u == IF b = 0 THEN s ELSE free_db(s, b)
           v == [u EXCEPT !.inode[i] = NoInode]
           w == Write(u, v)
           t == flush_sb(w)
<1>1. destroy(s, i) = t
  BY DEF destroy
<1>2. b # 0 => b \in Block
  BY FilesOf, Constants
<1>3. NoInode \in OnDisk
  BY Constants DEF NoInode, NewInode, OnDisk
<1>4. s.left \in Int
  BY Fields
<1>5. /\ u \in State /\ Alike(s, u) /\ u.opened = s.opened /\ u.ok = s.ok /\ u.inode = s.inode
      /\ s.left = 0 => u.left = 0 /\ u.dfree = s.dfree /\ u.blk = s.blk
      /\ s.left < 0 =>
           /\ u.left < 0 /\ u.free = IF b = 0 THEN s.free ELSE <<b>> \o s.free
           /\ \A a \in Block \ {b} : u.blk[a] = s.blk[a]
  <2> HIDE DEF b
  <2>1. CASE b = 0
    BY <2>1 DEF Alike
  <2>2. CASE b # 0
    <3>1. b \in Block
      BY <2>2, <1>2
    <3> DEFINE d == free_db(s, b)
    <3>2. /\ d \in State /\ Alike(s, d) /\ d.opened = s.opened /\ d.ok = s.ok
          /\ d.inode = s.inode
          /\ s.left = 0 => d.left = 0 /\ d.dfree = s.dfree /\ d.blk = s.blk
          /\ s.left < 0 =>
               /\ d.left < 0 /\ d.free = <<b>> \o s.free /\ d.dfree = d.free
               /\ d.blk[b] = FreeNode /\ \A a \in Block \ {b} : d.blk[a] = s.blk[a]
      BY <3>1, FreeDb
    <3>3. u = d
      BY <2>2
    <3> HIDE DEF d, u
    <3> QED BY <3>2, <3>3, <2>2
  <2> QED BY <2>1, <2>2
<1> HIDE DEF u
<1>6. /\ v \in State /\ Alike(u, v) /\ v.left = u.left /\ v.ok = u.ok
      /\ v.free = u.free /\ v.dfree = u.dfree /\ v.blk = u.blk
      /\ v.inode[i] = NoInode /\ v.opened = u.opened
      /\ \A j \in Ino \ {i} : v.inode[j] = u.inode[j]
  BY <1>3, <1>5, SetInode
<1> HIDE DEF v
<1>7. /\ w \in State /\ Alike(u, w) /\ w.ok = u.ok /\ w.opened = u.opened
      /\ u.left = 0 => w = u
      /\ u.left # 0 => /\ w.left = u.left - 1 /\ w.free = v.free /\ w.blk = v.blk
                       /\ w.inode = v.inode
  BY <1>5, <1>6, WriteOK DEF Alike
<1> HIDE DEF w
<1>8. /\ t \in State /\ Alike(w, t) /\ t.ok = w.ok /\ t.opened = w.opened
      /\ w.left = 0 => t = w
      /\ w.left # 0 =>
           /\ t.left = w.left - 1 /\ t.free = w.free /\ t.dfree = w.free /\ t.blk = w.blk
           /\ t.inode = w.inode
  BY <1>7, FlushSb
<1> HIDE DEF t, b
<1>9. Alike(s, t) /\ t.opened = s.opened /\ t.ok = s.ok
  BY <1>5, <1>7, <1>8 DEF Alike
<1>10. s.left = 0 => t.left = 0 /\ t.dfree = s.dfree /\ t.blk = s.blk /\ t.inode = s.inode
  BY <1>5, <1>7, <1>8
<1>11. ASSUME s.left < 0
       PROVE  /\ t.left < 0 /\ t.dfree = t.free
              /\ t.inode[i] = NoInode /\ \A j \in Ino \ {i} : t.inode[j] = s.inode[j]
              /\ t.free = IF b = 0 THEN s.free ELSE <<b>> \o s.free
              /\ \A a \in Block \ {b} : t.blk[a] = s.blk[a]
  <2>1. u.left \in Int /\ w.left \in Int
    BY <1>5, <1>7, Fields
  <2>2. w.left = u.left - 1 /\ w.left < 0 /\ t.left = w.left - 1 /\ t.left < 0
    BY <2>1, <1>5, <1>7, <1>8, <1>11
  <2> QED BY <2>2, <1>5, <1>6, <1>7, <1>8, <1>11
<1> QED BY <1>1, <1>8, <1>9, <1>10, <1>11 DEF b

(* What a turn of close_files_in_list for file i leads to.                 *)
Closed(s, c, i, t, names) ==
    /\ Sound(t, c, names) /\ Alike(s, t) /\ Calm(s, t, names)
    /\ \A j \in Ino : s.opened[j] = Nil => t.opened[j] = Nil /\ t.inode[j] = s.inode[j]
    /\ \A j \in Ino \ {i} : t.opened[j] = s.opened[j]
    /\ t.ok => t.opened[i] = Nil \/ s.fh[i] > 0

(* A clean file goes from memory.                                          *)
LEMMA ForgetOK ==
    ASSUME NEW names, NEW s, NEW c, Sound(s, c, names), NEW i \in Ino,
           s.opened[i] # Nil, s.fh[i] = 0,
           s.left # 0 => ~s.opened[i].dirty
    PROVE  Closed(s, c, i, [s EXCEPT !.opened[i] = Nil], names)
<1> DEFINE t == [s EXCEPT !.opened[i] = Nil]
<1>1. /\ t \in State /\ Alike(s, t) /\ t.left = s.left /\ t.ok = s.ok
      /\ t.free = s.free /\ t.dfree = s.dfree /\ t.blk = s.blk
      /\ t.inode = s.inode /\ t.opened[i] = Nil
      /\ \A j \in Ino \ {i} : t.opened[j] = s.opened[j]
  BY SetOpened DEF Sound
<1> HIDE DEF t
<1>2. CASE s.left = 0
  BY <1>1, <1>2, DeadOK DEF Closed, t
<1>3. CASE s.left # 0
  <2>1. Disk(s, c, names) /\ Live(s, c, names) /\ \A j \in Ino : Cached(s, c, j, names)
    BY <1>3 DEF Sound, Live
  <2>2. Disk(t, c, names)
    BY <2>1, <1>1 DEF Disk, Ptr, Alike
  <2>3. \A j \in Ino \ {i} : Cached(t, c, j, names) /\ SavedIn(t, j) = SavedIn(s, j)
                             /\ SeenIn(t, j) = SeenIn(s, j)
    BY <2>1, <1>1, OtherFile DEF Alike
  <2>4. SavedIn(t, i) = SavedIn(s, i)
    BY <1>1 DEF SavedIn, Ptr
  <2>5. SeenIn(t, i) = SeenIn(s, i)
    BY <2>1, <2>4, <1>1, <1>3 DEF Cached, SeenIn
  <2>6. Cached(t, c, i, names)
    BY <2>1, <1>1, <1>3 DEF Cached, NlinkIn, Alike
  <2>7. Live(t, c, names)
    BY <2>1, <2>3, <2>6, <1>1 DEF Live, Ptr
  <2>8. Calm(s, t, names)
    BY <2>3, <2>4, <2>5, <1>1 DEF Calm, Kind
  <2>9. Closed(s, c, i, t, names)
    BY <2>2, <2>7, <2>8, <1>1 DEF Closed, Sound
  <2> QED BY <2>9 DEF t
<1> QED BY <1>2, <1>3

(* A file without names and handles is destroyed.                          *)
LEMMA DestroyOK ==
    ASSUME NEW names, NEW s, NEW c, Sound(s, c, names), NEW i \in Ino,
           s.opened[i] # Nil, s.fh[i] = 0,
           s.opened[i].nlink = 0
    PROVE  Closed(s, c, i, [destroy(s, i) EXCEPT !.opened[i] = Nil], names)
<1> DEFINE d == destroy(s, i)
           t == [d EXCEPT !.opened[i] = Nil]
           b == s.opened[i].xattr_ptr
<1>1. /\ d \in State /\ Alike(s, d) /\ d.opened = s.opened /\ d.ok = s.ok
      /\ s.left = 0 => /\ d.left = 0 /\ d.dfree = s.dfree /\ d.blk = s.blk
                       /\ d.inode = s.inode
      /\ s.left < 0 =>
           /\ d.left < 0 /\ d.dfree = d.free
           /\ d.inode[i] = NoInode /\ \A j \in Ino \ {i} : d.inode[j] = s.inode[j]
           /\ d.free = IF b = 0 THEN s.free ELSE <<b>> \o s.free
           /\ \A a \in Block \ {b} : d.blk[a] = s.blk[a]
  BY Destroy DEF Sound
<1> HIDE DEF d
<1>2. /\ t \in State /\ Alike(d, t) /\ t.left = d.left /\ t.ok = d.ok
      /\ t.free = d.free /\ t.dfree = d.dfree /\ t.blk = d.blk
      /\ t.inode = d.inode /\ t.opened[i] = Nil
      /\ \A j \in Ino \ {i} : t.opened[j] = d.opened[j]
  BY <1>1, SetOpened
<1> HIDE DEF t, b
<1>3. Alike(s, t)
  BY <1>1, <1>2 DEF Alike
<1>4. CASE s.left = 0
  <2>1. Sound(t, c, names) /\ Calm(s, t, names)
    BY <1>1, <1>2, <1>3, <1>4, DeadOK
  <2>2. Closed(s, c, i, t, names)
    BY <2>1, <1>1, <1>2, <1>3, <1>4 DEF Closed
  <2> QED BY <2>2 DEF t, d
<1>5. CASE s.left # 0
  <2>1. Disk(s, c, names) /\ Live(s, c, names) /\ \A j \in Ino : Cached(s, c, j, names)
    BY <1>5 DEF Sound, Live
  <2>2. names[i] = 0 /\ b = Ptr(s, i) /\ s.dfree = s.free
    BY <2>1, <1>3 DEF Cached, NlinkIn, b, Live, Alike
  <2>3. ~c
    BY <2>1, <2>2 DEF Disk
  <2>4. s.left < 0
    BY <2>3 DEF Sound
  <2>5. s \in State /\ s.free \in Seq(Block) /\ IsInjective(s.free)
    BY <2>1, <2>2, Fields DEF Sound, Disk
  <2>6. /\ t.left < 0 /\ t.dfree = t.free
        /\ t.inode[i] = NoInode /\ \A j \in Ino \ {i} : t.inode[j] = s.inode[j]
        /\ t.free = IF b = 0 THEN s.free ELSE <<b>> \o s.free
        /\ \A a \in Block \ {b} : t.blk[a] = s.blk[a]
        /\ \A j \in Ino \ {i} : t.opened[j] = s.opened[j]
    BY <2>4, <1>1, <1>2
  <2>7. NoInode.nlink = 0 /\ NoInode.xattr_ptr = 0
    BY DEF NoInode, NewInode
  <2>8. Ptr(t, i) = 0 /\ \A j \in Ino \ {i} : Ptr(t, j) = Ptr(s, j)
    BY <2>6, <2>7 DEF Ptr
  <2>9. \A j \in Ino : s.inode[j] \in OnDisk
    BY <2>5, FilesOf
  <2>10. \A j \in Ino : Ptr(s, j) # 0 => Ptr(s, j) \in Block
    BY <2>9, Constants DEF Ptr
  <2>11. \A j \in Ino \ {i} : Ptr(s, j) # 0 => Ptr(s, j) # b
    BY <2>1, <2>2 DEF Disk
  <2>12. IsInjective(t.free) /\ Range(t.free) = Range(s.free) \union ({b} \ {0})
    <3>1. CASE b = 0
      BY <3>1, <2>5, <2>6
    <3>2. CASE b # 0
      <4>1. b \in Block /\ b \notin Range(s.free)
        BY <3>2, <2>1, <2>2, <2>10 DEF Disk
      <4>2. IsInjective(<<b>> \o s.free) /\ Range(<<b>> \o s.free) = Range(s.free) \union {b}
        BY <4>1, <2>5, ConsOf
      <4> QED BY <3>2, <4>2, <2>6
    <3> QED BY <3>1, <3>2
  <2>13. \A j \in Ino \ {i} : Ptr(s, j) # 0 => t.blk[Ptr(s, j)] = s.blk[Ptr(s, j)]
    BY <2>6, <2>10, <2>11
  <2>14. Disk(t, c, names)
    <3> SUFFICES ASSUME NEW j \in Ino, Ptr(t, j) # 0
                 PROVE  /\ Ptr(t, j) \notin Range(t.dfree)
                        /\ t.blk[Ptr(t, j)].kind = "attrs" /\ t.blk[Ptr(t, j)].attrs # NoAttrs
                        /\ \A k \in Ino : Ptr(t, k) = Ptr(t, j) => k = j
      BY <2>3, <2>6, <2>12 DEF Disk
    <3>1. j # i /\ Ptr(t, j) = Ptr(s, j) /\ Ptr(s, j) # b
      BY <2>8, <2>11
    <3>2. /\ Ptr(s, j) \notin Range(s.dfree) /\ s.blk[Ptr(s, j)].kind = "attrs"
          /\ s.blk[Ptr(s, j)].attrs # NoAttrs
          /\ \A k \in Ino : Ptr(s, k) = Ptr(s, j) => k = j
      BY <3>1, <2>1 DEF Disk
    <3>3. \A k \in Ino : Ptr(t, k) = Ptr(t, j) => k = j
      BY <3>1, <3>2, <2>8
    <3> QED BY <3>1, <3>2, <3>3, <2>2, <2>6, <2>12, <2>13
  <2>15. \A j \in Ino \ {i} : Cached(t, c, j, names) /\ SavedIn(t, j) = SavedIn(s, j)
                              /\ SeenIn(t, j) = SeenIn(s, j)
    BY <2>1, <2>6, <2>13, <1>3, OtherFile DEF Alike
  <2>16. SavedIn(t, i) = NoAttrs /\ SeenIn(t, i) = NoAttrs
    BY <2>8, <1>2 DEF SavedIn, SeenIn
  <2>17. Cached(t, c, i, names)
    BY <2>2, <2>6, <2>7, <1>2, <1>3 DEF Cached, NlinkIn, Alike
  <2>18. Live(t, c, names)
    <3> SUFFICES ASSUME NEW a \in Block
                 PROVE  a \in Range(t.free) \/ \E j \in Ino : Ptr(t, j) = a
      BY <2>6, <2>15, <2>17 DEF Live
    <3>1. a # 0 /\ (a \in Range(s.free) \/ \E j \in Ino : Ptr(s, j) = a)
      BY <2>1, <2>3, Constants DEF Live
    <3> QED BY <3>1, <2>2, <2>8, <2>12
  <2>19. Calm(s, t, names)
    BY <2>2, <2>15, <2>16, <1>5 DEF Calm, Kind
  <2>20. Closed(s, c, i, t, names)
    BY <2>3, <2>6, <2>14, <2>18, <2>19, <1>2, <1>3 DEF Closed, Sound
  <2> QED BY <2>20 DEF t, d
<1> QED BY <1>4, <1>5

(* Closing one file, whether it is kept, written, destroyed or fails for   *)
(* lack of a block.                                                        *)
LEMMA CloseOK ==
    ASSUME NEW names, AttributesFit, NEW s, NEW c, Sound(s, c, names), s.ok,
           NEW i \in Ino
    PROVE  Closed(s, c, i, close(s, i), names)
<1> DEFINE t == close(s, i)
           u == flush(s, i)
<1>0. s \in State /\ s.fh[i] \in Nat
  BY FilesOf, Constants DEF Sound
<1>1. CASE s.opened[i] = Nil \/ s.fh[i] > 0
  <2>1. t = s
    BY <1>1 DEF close
  <2> QED BY <2>1, <1>1, CalmSame DEF Closed, Alike
<1>2. CASE s.opened[i] # Nil /\ s.fh[i] = 0
  <2>1. Flushed(s, c, i, u, names)
    BY <1>2, FlushOK
  <2>2. t = IF u.ok THEN [IF u.opened[i].nlink = 0 THEN destroy(u, i) ELSE u EXCEPT !.opened[i] = Nil]
            ELSE u
    BY <1>2 DEF close
  <2> HIDE DEF u, t
  <2>3. /\ Sound(u, c, names) /\ Alike(s, u) /\ Calm(s, u, names) /\ u.opened[i] # Nil
        /\ \A j \in Ino \ {i} : u.opened[j] = s.opened[j] /\ u.inode[j] = s.inode[j]
        /\ u.ok /\ u.left # 0 => u.opened[i].nlink = 0 \/ ~u.opened[i].dirty
        /\ u.fh[i] = 0 /\ u.entry = s.entry /\ u.fh = s.fh
    BY <2>1, <1>2 DEF Flushed, Alike
  <2>4. CASE ~u.ok
    <3>1. Closed(s, c, i, u, names)
      BY <2>3, <2>4, <1>2 DEF Closed
    <3> QED BY <2>2, <2>4, <3>1 DEF t
  <2>5. CASE u.ok
    <3>1. Closed(u, c, i, t, names)
      <4>1. CASE u.opened[i].nlink = 0
        BY <4>1, <2>2, <2>3, <2>5, DestroyOK
      <4>2. CASE u.opened[i].nlink # 0
        BY <4>2, <2>2, <2>3, <2>5, ForgetOK
      <4> QED BY <4>1, <4>2
    <3>2. Calm(s, t, names)
      BY <3>1, <2>3, CalmTrans DEF Closed
    <3>3. Alike(s, t)
      BY <3>1, <2>3 DEF Closed, Alike
    <3>4. Closed(s, c, i, t, names)
      BY <3>1, <3>2, <3>3, <2>3, <1>2 DEF Closed
    <3> QED BY <3>4 DEF t
  <2> QED BY <2>4, <2>5
<1> QED BY <1>0, <1>1, <1>2

-----------------------------------------------------------------------------
(* The close list.                                                         *)
LEMMA SetClosing ==
    ASSUME NEW s \in State, NEW q \in Seq(Ino)
    PROVE  LET t == [s EXCEPT !.closing = q]
           IN  /\ t \in State /\ t.closing = q /\ t.left = s.left /\ t.ok = s.ok
               /\ t.free = s.free /\ t.dfree = s.dfree /\ t.blk = s.blk
               /\ t.inode = s.inode /\ t.opened = s.opened /\ t.entry = s.entry
               /\ t.fh = s.fh /\ t.failed = s.failed /\ t.lossy = s.lossy
  BY DEF State

(* The close list, ok, failed and lossy are not in the invariant.          *)
LEMMA SoundSame ==
    ASSUME NEW names, NEW s, NEW c, Sound(s, c, names), NEW t \in State,
           t.left = s.left,
           t.free = s.free, t.dfree = s.dfree, t.blk = s.blk, t.inode = s.inode,
           t.opened = s.opened, t.fh = s.fh
    PROVE  Sound(t, c, names) /\ Calm(s, t, names)
<1>1. Disk(t, c, names)
  BY DEF Sound, Disk, Ptr
<1>2. ASSUME s.left # 0 PROVE Live(t, c, names)
  <2>1. \A j \in Ino : Cached(t, c, j, names)
    BY <1>2, OtherFile DEF Sound, Live
  <2> QED BY <2>1, <1>2 DEF Sound, Live, Ptr
<1> QED BY <1>1, <1>2, CalmSame DEF Sound

(* Dropping the last entry of a list.                                      *)
LEMMA FrontOf ==
    ASSUME NEW q \in Seq(Ino)
    PROVE  /\ Front(q) \in Seq(Ino)
           /\ \A k \in 1 .. Len(q) : Front(SubSeq(q, 1, k)) = SubSeq(q, 1, k - 1)
<1>1. Front(q) \in Seq(Ino)
  <2>1. CASE q = <<>>
    <3>1. Front(q) = <<>>
      BY <2>1, SubSeqEmpty DEF Front
    <3> QED BY <3>1
  <2>2. CASE q # <<>>
    <3>1. Len(q) \in Nat /\ Len(q) # 0
      BY <2>2, EmptySeq
    <3>2. 1 \in 1 .. Len(q) + 1 /\ Len(q) - 1 \in 0 .. Len(q)
      BY <3>1
    <3> QED BY <3>2, SubSeqProperties DEF Front
  <2> QED BY <2>1, <2>2
<1>2. ASSUME NEW k \in 1 .. Len(q) PROVE Front(SubSeq(q, 1, k)) = SubSeq(q, 1, k - 1)
  <2> DEFINE p == SubSeq(q, 1, k)
  <2>1. Len(q) \in Nat
    OBVIOUS
  <2>2. p \in Seq(Ino) /\ Len(p) = k
    <3>1. 1 \in 1 .. Len(q) + 1 /\ k \in 0 .. Len(q) /\ 1 <= k
      BY <2>1
    <3> QED BY <3>1, SubSeqProperties
  <2>3. Front(p) = SubSeq(p, 1, k - 1)
    BY <2>2 DEF Front
  <2>4. SubSeq(SubSeq(q, 1, k), 1, k - 1) = SubSeq(q, 1, k - 1)
    OBVIOUS
  <2> QED BY <2>3, <2>4
<1> QED BY <1>1, <1>2

(* What working off the close list leads to: if it does not fail, nothing  *)
(* that waited on it is left in memory without a handle.                   *)
Worked(s, c, t, names) ==
    /\ Sound(t, c, names) /\ Calm(s, t, names)
    /\ t.entry = s.entry /\ t.fh = s.fh /\ t.failed = s.failed /\ t.lossy = s.lossy
    /\ \A j \in Ino : s.opened[j] = Nil => t.opened[j] = Nil /\ t.inode[j] = s.inode[j]
    /\ t.ok => /\ t.closing = <<>>
               /\ \A j \in Range(s.closing) : t.opened[j] = Nil \/ s.fh[j] > 0

(* One turn, for the inode at position k of the list q.                    *)
Turned(s, c, q, k, t, names) ==
    /\ Sound(t, c, names) /\ Calm(s, t, names)
    /\ t.entry = s.entry /\ t.fh = s.fh /\ t.failed = s.failed /\ t.lossy = s.lossy
    /\ \A j \in Ino : s.opened[j] = Nil => t.opened[j] = Nil /\ t.inode[j] = s.inode[j]
    /\ t.ok => /\ t.closing = SubSeq(q, 1, k - 1)
               /\ \A m \in k .. Len(q) : t.opened[q[m]] = Nil \/ s.fh[q[m]] > 0

(* One turn of the loop over the close list, from its end.                 *)
LEMMA TurnOK ==
    ASSUME NEW names, AttributesFit, NEW s, NEW c, NEW q \in Seq(Ino),
           NEW k \in 1 .. Len(q),
           NEW v, Turned(s, c, q, k + 1, v, names)
    PROVE  Turned(s, c, q, k, close_last(q[k], v), names)
<1> DEFINE i == q[k]
           u == [v EXCEPT !.closing = Front(@)]
           t == close(u, i)
<1>1. i \in Ino /\ v \in State /\ v.closing \in Seq(Ino) /\ Front(v.closing) \in Seq(Ino)
  <2>1. v \in State /\ i \in Ino
    BY DEF Turned, Sound
  <2>2. v.closing \in Seq(Ino)
    BY <2>1, Fields
  <2> QED BY <2>1, <2>2, FrontOf
<1>2. CASE ~v.ok
  <2>1. close_last(i, v) = v
    BY <1>2 DEF close_last
  <2> QED BY <2>1, <1>2 DEF Turned
<1>3. CASE v.ok
  <2>1. close_last(i, v) = t
    BY <1>3 DEF close_last
  <2>2. /\ u \in State /\ u.closing = Front(v.closing) /\ u.left = v.left /\ u.ok = v.ok
        /\ u.free = v.free /\ u.dfree = v.dfree /\ u.blk = v.blk
        /\ u.inode = v.inode /\ u.opened = v.opened /\ u.entry = v.entry
        /\ u.fh = v.fh /\ u.failed = v.failed /\ u.lossy = v.lossy
    BY <1>1, SetClosing
  <2> HIDE DEF u, i
  <2>3. Sound(u, c, names) /\ Calm(v, u, names)
    BY <2>2, SoundSame DEF Turned
  <2>4. Closed(u, c, i, t, names)
    BY <2>2, <2>3, <1>1, <1>3, CloseOK
  <2> HIDE DEF t
  <2>5. Calm(s, u, names)
    BY <2>3, CalmTrans DEF Turned
  <2>6. Calm(s, t, names)
    BY <2>2, <2>4, <2>5, CalmTrans DEF Turned, Closed
  <2>7. /\ t.entry = s.entry /\ t.fh = s.fh /\ t.failed = s.failed /\ t.lossy = s.lossy
        /\ t.closing = u.closing
    BY <2>2, <2>4 DEF Closed, Alike, Turned
  <2>8. \A j \in Ino : s.opened[j] = Nil => t.opened[j] = Nil /\ t.inode[j] = s.inode[j]
    BY <2>2, <2>4 DEF Closed, Turned
  <2>9. u.closing = SubSeq(q, 1, k - 1)
    <3>1. v.closing = SubSeq(q, 1, (k + 1) - 1) /\ (k + 1) - 1 = k
      BY <1>3 DEF Turned
    <3> QED BY <3>1, <2>2, FrontOf
  <2>10. ASSUME t.ok, NEW m \in k .. Len(q) PROVE t.opened[q[m]] = Nil \/ s.fh[q[m]] > 0
    <3>1. q[m] \in Ino /\ u.fh = s.fh
      BY <2>2 DEF Turned
    <3>2. CASE q[m] = i
      BY <3>1, <3>2, <2>4, <2>10 DEF Closed
    <3>3. CASE q[m] # i
      <4>1. m \in k + 1 .. Len(q)
        BY <3>3 DEF i
      <4>2. v.opened[q[m]] = Nil \/ s.fh[q[m]] > 0
        BY <4>1, <1>3 DEF Turned
      <4>3. t.opened[q[m]] = v.opened[q[m]]
        BY <3>1, <3>3, <2>2, <2>4 DEF Closed
      <4> QED BY <4>2, <4>3
    <3> QED BY <3>2, <3>3
  <2>11. Sound(t, c, names)
    BY <2>4 DEF Closed
  <2>12. Turned(s, c, q, k, t, names)
    BY <2>6, <2>7, <2>8, <2>9, <2>10, <2>11 DEF Turned
  <2> QED BY <2>1, <2>12 DEF i
<1> QED BY <1>2, <1>3

(* close_files_in_list, by induction over the list.                        *)
LEMMA CloseListOK ==
    ASSUME NEW names, AttributesFit, NEW s, NEW c, Sound(s, c, names), s.ok
    PROVE  Worked(s, c, close_files_in_list(s), names)
<1> DEFINE q == s.closing
           n == Len(q)
           S == DOMAIN q
           V == {t \in State : Sound(t, c, names)}
           first(U) == Min(U)
           pick == [U \in (SUBSET S) \ {{}} |-> first(U)]
           G == [a \in S \X V |-> close_last(q[a[1]], a[2])]
           Eqn(g) == g = [U \in SUBSET S |->
                            IF U = {} THEN s ELSE close_last(q[first(U)], g[U \ {first(U)}])]
           iter == CHOOSE g : Eqn(g)
<1>1. s \in State /\ q \in Seq(Ino) /\ n \in Nat /\ S = 1 .. n /\ IsFiniteSet(S)
  <2>1. s \in State /\ q \in Seq(Ino)
    BY Fields DEF Sound
  <2>2. n \in Nat /\ S = 1 .. n
    BY <2>1
  <2> QED BY <2>1, <2>2, FS_Interval
<1>2. \A k \in S : q[k] \in Ino
  BY <1>1
<1>3. S \in SUBSET Nat
  BY <1>1
<1>4. ASSUME NEW U \in SUBSET S, U # {} PROVE first(U) \in U /\ \A z \in U : first(U) <= z
  <2>1. \E y \in U : \A z \in U : y <= z
    BY <1>3, <1>4, Least
  <2> QED BY <2>1, Zenon DEF Min
<1> HIDE DEF first
<1>5. IsPick(pick, S) /\ \A U \in (SUBSET S) \ {{}} : pick[U] = first(U)
  BY <1>4 DEF IsPick
<1>6. \A k \in S, v \in V : close_last(q[k], v) \in V
  <2> SUFFICES ASSUME NEW k \in S, NEW v \in V PROVE close_last(q[k], v) \in V
    OBVIOUS
  <2> DEFINE u == [v EXCEPT !.closing = Front(@)]
  <2>1. v \in State /\ Sound(v, c, names) /\ Front(v.closing) \in Seq(Ino)
    BY Fields, FrontOf
  <2>2. CASE ~v.ok
    BY <2>2 DEF close_last
  <2>3. CASE v.ok
    <3>1. close_last(q[k], v) = close(u, q[k])
      BY <2>3 DEF close_last
    <3>2. /\ u \in State /\ u.left = v.left /\ u.ok = v.ok
          /\ u.free = v.free /\ u.dfree = v.dfree /\ u.blk = v.blk
          /\ u.inode = v.inode /\ u.opened = v.opened /\ u.entry = v.entry
          /\ u.fh = v.fh
      BY <2>1, SetClosing
    <3> HIDE DEF u
    <3>3. Sound(u, c, names)
      BY <2>1, <3>2, SoundSame
    <3>4. Closed(u, c, q[k], close(u, q[k]), names)
      BY <3>2, <3>3, <2>3, <1>2, CloseOK
    <3> QED BY <3>1, <3>4 DEF Closed, Sound
  <2> QED BY <2>2, <2>3
<1>7. G \in [S \X V -> V] /\ \A k \in S, v \in V : G[<<k, v>>] = close_last(q[k], v)
  BY <1>6
<1>8. s \in V
  BY <1>1
<1> HIDE DEF V, G, pick
<1>9. PICK g : IsFold(g, S, V, s, G, pick)
  BY <1>1, <1>5, <1>7, <1>8, FoldExists
<1>10. Eqn(g)
  <2>0. /\ g \in [SUBSET S -> V]
        /\ \A U \in SUBSET S : g[U] = IF U = {} THEN s ELSE G[<<pick[U], g[U \ {pick[U]}]>>]
    BY <1>9 DEF IsFold
  <2>1. ASSUME NEW U \in SUBSET S, U # {}
        PROVE  g[U] = close_last(q[first(U)], g[U \ {first(U)}])
    <3>1. pick[U] = first(U) /\ first(U) \in S /\ g[U \ {first(U)}] \in V
      BY <2>0, <2>1, <1>4, <1>5
    <3>2. g[U] = G[<<first(U), g[U \ {first(U)}]>>]
      BY <3>1, <2>0, <2>1
    <3> HIDE DEF q
    <3> QED BY <3>1, <3>2, <1>7
  <2> QED BY <2>0, <2>1
<1>11. Eqn(iter)
  BY <1>10
<1> HIDE DEF iter
<1>12. /\ iter[{}] = s
       /\ \A U \in (SUBSET S) \ {{}} : iter[U] = close_last(q[first(U)], iter[U \ {first(U)}])
  <2>1. iter = [U \in SUBSET S |->
                  IF U = {} THEN s ELSE close_last(q[first(U)], iter[U \ {first(U)}])]
    BY <1>11
  <2>2. {} \in SUBSET S
    OBVIOUS
  <2> QED BY <2>1, <2>2, Zenon
<1>13. Turned(s, c, q, n + 1, s, names)
  <2>1. SubSeq(q, 1, (n + 1) - 1) = q
    BY <1>1, SubSeqFull
  <2>2. (n + 1) .. n = {}
    BY <1>1
  <2> QED BY <2>1, <2>2, <1>1, CalmSame DEF Turned
<1> DEFINE Q == {U \in SUBSET S :
                  \A k \in 1 .. n + 1 : U = k .. n => Turned(s, c, q, k, iter[U], names)}
<1>14. {} \in Q
  <2> SUFFICES ASSUME NEW k \in 1 .. n + 1, {} = k .. n PROVE Turned(s, c, q, k, iter[{}], names)
    OBVIOUS
  <2>1. k = n + 1
    <3>1. CASE k \in 1 .. n
      <4>1. k \in k .. n
        BY <3>1, <1>1
      <4> QED BY <4>1
    <3>2. CASE k \notin 1 .. n
      <4> HIDE DEF n
      <4> QED BY <3>2, <1>1
    <3> QED BY <3>1, <3>2
  <2> QED BY <2>1, <1>12, <1>13
<1>15. ASSUME NEW U \in SUBSET S, U # {}, U \ {first(U)} \in Q PROVE U \in Q
  <2> SUFFICES ASSUME NEW k \in 1 .. n + 1, U = k .. n PROVE Turned(s, c, q, k, iter[U], names)
    OBVIOUS
  <2>1. k \in 1 .. n /\ k \in U
    BY <1>1, <1>15
  <2>2. first(U) = k
    <3>1. first(U) \in k .. n /\ first(U) <= k
      BY <2>1, <1>4, <1>15
    <3> QED BY <3>1, <1>1
  <2>3. U \ {k} = (k + 1) .. n /\ k + 1 \in 1 .. n + 1
    BY <2>1, <1>1
  <2>4. Turned(s, c, q, k + 1, iter[U \ {k}], names)
    BY <2>2, <2>3, <1>15
  <2>5. iter[U] = close_last(q[k], iter[U \ {k}])
    BY <2>2, <1>12, <1>15
  <2> QED BY <2>1, <2>4, <2>5, <1>1, TurnOK
<1>16. \A U \in SUBSET S : U \in Q
  <2>1. \A U \in SUBSET S : U # {} => \E y \in U : U \ {y} \in Q => U \in Q
    <3> HIDE DEF Q
    <3> QED BY <1>4, <1>15
  <2> HIDE DEF Q
  <2> QED BY <2>1, <1>1, <1>14, SubsetInduction, Zenon
<1>17. Turned(s, c, q, 1, iter[S], names)
  BY <1>1, <1>16
<1>18. close_files_in_list(s) = iter[S]
  BY DEF close_files_in_list, FoldRight, MapThenFoldSet, iter, first
<1>19. SubSeq(q, 1, 1 - 1) = <<>>
  BY SubSeqEmpty
<1>20. \A j \in Range(q) : \E k \in 1 .. n : q[k] = j
  BY <1>1 DEF Range
<1> QED BY <1>17, <1>18, <1>19, <1>20, ZenonT(60) DEF Turned, Worked

(* While no call has failed, what is in memory has a handle or waits on    *)
(* the close list.                                                         *)
Kept(s) ==
    s.ok /\ ~s.failed /\ s.left # 0 =>
      \A j \in Ino : s.opened[j] # Nil => s.fh[j] > 0 \/ j \in Range(s.closing)

(* When the list has been worked off, it has a handle, D aside.            *)
Tidy(s, D) ==
    s.ok /\ ~s.failed /\ s.left # 0 => \A j \in Ino \ D : s.opened[j] # Nil => s.fh[j] > 0

(* After the close list has been worked off, everything cached has a       *)
(* handle.                                                                 *)
LEMMA WorkedTidy ==
    ASSUME NEW names, NEW s, NEW c, NEW t, s.ok, Worked(s, c, t, names), Kept(s)
    PROVE  Tidy(t, {})
  BY DEF Worked, Kept, Tidy, Calm

(* The inode and the attributes are read: the block of the attributes      *)
(* always decodes.                                                         *)
Loaded(s, i) ==
    [nlink |-> s.inode[i].nlink, xattr_ptr |-> Ptr(s, i), blocks |-> s.inode[i].blocks,
     xattr |-> SavedIn(s, i), dirty |-> FALSE]

(* That is what load does, on a device that is sound.                      *)
LEMMA LoadOK ==
    ASSUME NEW names, NEW s \in State, NEW c, Disk(s, c, names), NEW i \in Ino
    PROVE  /\ Loaded(s, i) \in Opened
           /\ load(s, i) = [s EXCEPT !.opened[i] = Loaded(s, i)]
<1> DEFINE p == Ptr(s, i)
           d == IF p = 0 THEN AttrBlock(NoAttrs) ELSE s.blk[p]
<1>1. s.inode[i] \in OnDisk /\ s.blk \in [Block -> BlockContent]
  BY FilesOf, Fields
<1>2. p # 0 => p \in Block /\ s.blk[p] \in BlockContent
  BY <1>1, Constants DEF Ptr
<1>3. p # 0 => s.blk[p].kind = "attrs"
  BY DEF Disk
<1>4. \A b \in BlockContent : b.kind = "attrs" => b.attrs \in Attrs
  BY DEF BlockContent, FreeNode, Torn, AttrBlock
<1>5. d.kind = "attrs" /\ d.attrs = SavedIn(s, i)
  BY <1>3 DEF SavedIn, AttrBlock
<1>6. SavedIn(s, i) \in Attrs
  BY <1>2, <1>3, <1>4, Constants DEF SavedIn
<1>7. Loaded(s, i) \in Opened
  BY <1>1, <1>6 DEF Loaded, Opened, OnDisk, Ptr
<1>8. load(s, i) = [s EXCEPT !.opened[i] = Loaded(s, i)]
  BY <1>5 DEF load, Loaded, Ptr
<1> QED BY <1>7, <1>8

(* Donkey::open, with what was on the close list.                          *)
Opens(s, c, i, t, names) ==
    /\ Sound(t, c, names) /\ Calm(s, t, names) /\ Tidy(t, {i})
    /\ t.entry = s.entry /\ t.fh = s.fh /\ t.failed = s.failed /\ t.lossy = s.lossy
    /\ t.ok => t.opened[i] # Nil /\ t.closing = <<>>

(* open: the close list is worked off, and the file is read unless it is   *)
(* cached.                                                                 *)
LEMMA OpenOK ==
    ASSUME NEW names, AttributesFit, NEW s, NEW c, Sound(s, c, names), s.ok,
           Kept(s), NEW i \in Ino
    PROVE  Opens(s, c, i, open(s, i), names)
<1> DEFINE u == close_files_in_list(s)
           f == Loaded(u, i)
           t == [u EXCEPT !.opened[i] = f]
<1>1. Worked(s, c, u, names) /\ Tidy(u, {})
  BY CloseListOK, WorkedTidy
<1>2. open(s, i) = IF u.ok /\ u.opened[i] = Nil THEN load(u, i) ELSE u
  BY DEF open
<1> HIDE DEF u
<1>3. CASE ~(u.ok /\ u.opened[i] = Nil)
  BY <1>1, <1>2, <1>3 DEF Worked, Opens, Tidy
<1>4. CASE u.ok /\ u.opened[i] = Nil
  <2>1. u \in State /\ Disk(u, c, names) /\ Sound(u, c, names)
    BY <1>1 DEF Worked, Sound
  <2>2. open(s, i) = t /\ f \in Opened
    BY <2>1, <1>2, <1>4, LoadOK
  <2>3. f.nlink = u.inode[i].nlink /\ f.xattr_ptr = Ptr(u, i) /\ f.xattr = SavedIn(u, i)
    BY DEF Loaded
  <2>4. f # Nil /\ f \in Opened \union {Nil}
    BY <2>2, Constants
  <2> HIDE DEF f
  <2>5. /\ t \in State /\ Alike(u, t) /\ t.left = u.left /\ t.ok = u.ok
        /\ t.free = u.free /\ t.dfree = u.dfree /\ t.blk = u.blk
        /\ t.inode = u.inode /\ t.opened[i] = f
        /\ \A j \in Ino \ {i} : t.opened[j] = u.opened[j]
    BY <2>1, <2>4, SetOpened
  <2> HIDE DEF t
  <2>6. Disk(t, c, names)
    BY <2>1, <2>5 DEF Disk, Ptr, Alike
  <2>7. SavedIn(t, i) = SavedIn(u, i) /\ SeenIn(t, i) = SeenIn(u, i)
    BY <2>3, <2>4, <2>5, <1>4 DEF SavedIn, SeenIn, Ptr
  <2>8. \A j \in Ino \ {i} : SavedIn(t, j) = SavedIn(u, j) /\ SeenIn(t, j) = SeenIn(u, j)
    BY <2>5 DEF SavedIn, SeenIn, Ptr
  <2>9. Calm(u, t, names)
    BY <2>5, <2>7, <2>8 DEF Calm, Kind
  <2>10. ASSUME u.left # 0 PROVE Live(t, c, names)
    <3>1. Live(u, c, names)
      BY <2>1, <2>10 DEF Sound
    <3>2. \A j \in Ino \ {i} : Cached(t, c, j, names)
      BY <2>5, <3>1, OtherFile DEF Live, Alike
    <3>3. f.xattr = NoAttrs => f.xattr_ptr = 0
      BY <2>1, <2>3 DEF Disk, SavedIn
    <3>4. Cached(t, c, i, names)
      BY <2>3, <2>4, <2>5, <2>7, <3>1, <3>3, <1>4 DEF Cached, NlinkIn, Live, Ptr, Alike
    <3> QED BY <2>5, <3>1, <3>2, <3>4 DEF Live, Ptr
  <2>11. Sound(t, c, names)
    BY <2>1, <2>5, <2>6, <2>10 DEF Sound
  <2>12. Calm(s, t, names)
    BY <2>9, <1>1, CalmTrans DEF Worked
  <2>13. Tidy(t, {i})
    BY <2>5, <1>1 DEF Tidy, Alike
  <2>14. /\ t.entry = s.entry /\ t.fh = s.fh /\ t.failed = s.failed /\ t.lossy = s.lossy
         /\ t.ok /\ t.closing = <<>>
    BY <2>5, <1>1, <1>4 DEF Worked, Alike
  <2>15. Opens(s, c, i, t, names)
    BY <2>4, <2>5, <2>11, <2>12, <2>13, <2>14 DEF Opens
  <2> QED BY <2>2, <2>15
<1> QED BY <1>3, <1>4

(* A change of an open file in memory.                                     *)
LEMMA EditOK ==
    ASSUME NEW names, NEW s, NEW c, Sound(s, c, names), NEW i \in Ino,
           s.opened[i] # Nil, NEW f \in Opened,
           f.xattr_ptr = s.opened[i].xattr_ptr, f.nlink = s.opened[i].nlink,
           ~f.dirty => ~s.opened[i].dirty /\ f.xattr = s.opened[i].xattr,
           c /\ s.left # 0 /\ f.xattr = NoAttrs => f.xattr_ptr = 0
    PROVE  LET t == [s EXCEPT !.opened[i] = f]
           IN  /\ Sound(t, c, names) /\ t.left = s.left /\ t.ok = s.ok /\ Alike(s, t)
               /\ t.opened[i] = f /\ f # Nil
               /\ \A j \in Ino \ {i} : t.opened[j] = s.opened[j] /\ SeenIn(t, j) = SeenIn(s, j)
               /\ \A j \in Ino : SavedIn(t, j) = SavedIn(s, j)
               /\ SeenIn(t, i) = f.xattr
<1> DEFINE t == [s EXCEPT !.opened[i] = f]
<1>1. s \in State /\ Disk(s, c, names) /\ f # Nil /\ f \in Opened \union {Nil}
  BY Constants DEF Sound
<1>2. /\ t \in State /\ Alike(s, t) /\ t.left = s.left /\ t.ok = s.ok
      /\ t.free = s.free /\ t.dfree = s.dfree /\ t.blk = s.blk
      /\ t.inode = s.inode /\ t.opened[i] = f
      /\ \A j \in Ino \ {i} : t.opened[j] = s.opened[j]
  BY <1>1, SetOpened
<1> HIDE DEF t
<1>3. \A j \in Ino : SavedIn(t, j) = SavedIn(s, j) /\ Ptr(t, j) = Ptr(s, j)
  BY <1>2 DEF SavedIn, Ptr
<1>4. \A j \in Ino \ {i} : SeenIn(t, j) = SeenIn(s, j)
  BY <1>2, <1>3 DEF SeenIn
<1>5. SeenIn(t, i) = f.xattr
  BY <1>1, <1>2 DEF SeenIn
<1>6. Disk(t, c, names)
  BY <1>1, <1>2 DEF Disk, Ptr, Alike
<1>7. ASSUME s.left # 0 PROVE Live(t, c, names)
  <2>1. Live(s, c, names)
    BY <1>7 DEF Sound
  <2>2. \A j \in Ino \ {i} : Cached(t, c, j, names)
    BY <2>1, <1>2, OtherFile DEF Live, Alike
  <2>3. Cached(s, c, i, names)
    BY <2>1 DEF Live
  <2>4. Cached(t, c, i, names)
    BY <2>3, <1>1, <1>2, <1>3, <1>7 DEF Cached, NlinkIn, Alike
  <2> QED BY <2>1, <2>2, <2>4, <1>2, <1>3 DEF Live
<1>8. Sound(t, c, names)
  BY <1>2, <1>6, <1>7 DEF Sound
<1> QED BY <1>1, <1>2, <1>3, <1>4, <1>5, <1>8 DEF t

(* A handle of i goes out of scope.                                        *)
Drops(s, c, i, t, names) ==
    /\ Sound(t, c, names) /\ Calm(s, t, names) /\ t.left = s.left /\ t.ok = s.ok
    /\ t.entry = s.entry /\ t.fh = s.fh /\ t.failed = s.failed /\ t.lossy = s.lossy
    /\ t.inode = s.inode /\ t.opened = s.opened
    /\ i \in Range(t.closing) /\ Range(s.closing) \subseteq Range(t.closing)
    /\ \A j \in Ino : SavedIn(t, j) = SavedIn(s, j) /\ SeenIn(t, j) = SeenIn(s, j)
    /\ s.closing = <<>> /\ Tidy(s, {i}) => Kept(t)
    /\ Kept(s) => Kept(t)

(* A handle that goes out of scope puts its inode on the close list.       *)
LEMMA DroppedOK ==
    ASSUME NEW names, NEW s, NEW c, Sound(s, c, names), NEW i \in Ino
    PROVE  Drops(s, c, i, dropped(s, i), names)
<1> DEFINE t == dropped(s, i)
           q == Append(s.closing, i)
<1>1. s \in State /\ s.closing \in Seq(Ino)
  BY Fields DEF Sound
<1>2. q \in Seq(Ino) /\ i \in Range(q) /\ Range(s.closing) \subseteq Range(q)
  <2>1. /\ q \in Seq(Ino) /\ Len(q) = Len(s.closing) + 1 /\ Len(s.closing) \in Nat
        /\ DOMAIN q = 1 .. Len(s.closing) + 1 /\ DOMAIN s.closing = 1 .. Len(s.closing)
        /\ \A k \in 1 .. Len(s.closing) : q[k] = s.closing[k]
        /\ q[Len(s.closing) + 1] = i
    BY <1>1
  <2> HIDE DEF q
  <2>2. Len(s.closing) + 1 \in DOMAIN q
    BY <2>1
  <2>3. \A k \in DOMAIN s.closing : k \in DOMAIN q
    BY <2>1
  <2> QED BY <2>1, <2>2, <2>3 DEF Range
<1>3. t = [s EXCEPT !.closing = q]
  BY DEF dropped
<1> HIDE DEF t, q
<1>4. /\ t \in State /\ t.closing = q /\ t.left = s.left /\ t.ok = s.ok
      /\ t.free = s.free /\ t.dfree = s.dfree /\ t.blk = s.blk
      /\ t.inode = s.inode /\ t.opened = s.opened /\ t.entry = s.entry
      /\ t.fh = s.fh /\ t.failed = s.failed /\ t.lossy = s.lossy
  BY <1>1, <1>2, <1>3, SetClosing
<1>5. Sound(t, c, names) /\ Calm(s, t, names)
  BY <1>4, SoundSame
<1>6. \A j \in Ino : SavedIn(t, j) = SavedIn(s, j) /\ SeenIn(t, j) = SeenIn(s, j)
  BY <1>4 DEF SavedIn, SeenIn, Ptr
<1>7. Tidy(s, {i}) => Kept(t)
  BY <1>2, <1>4 DEF Tidy, Kept
<1>8. Kept(s) => Kept(t)
  BY <1>2, <1>4 DEF Kept
<1> QED BY <1>2, <1>4, <1>5, <1>6, <1>7, <1>8 DEF Drops, t

(* The kernel gets a handle of an open file, or gives one back.            *)
LEMMA HandleOK ==
    ASSUME NEW names, NEW s, NEW c, Sound(s, c, names), NEW i \in Ino,
           NEW n \in 0 .. MaxHandles,
           n > 0 => s.opened[i] # Nil
    PROVE  LET t == [s EXCEPT !.fh[i] = n]
           IN  /\ Sound(t, c, names) /\ t.left = s.left /\ t.ok = s.ok
               /\ t.entry = s.entry /\ t.fh = [s.fh EXCEPT ![i] = n]
               /\ t.failed = s.failed /\ t.lossy = s.lossy
               /\ t.inode = s.inode /\ t.opened = s.opened /\ t.closing = s.closing
               /\ \A j \in Ino : SavedIn(t, j) = SavedIn(s, j) /\ SeenIn(t, j) = SeenIn(s, j)
<1> DEFINE t == [s EXCEPT !.fh[i] = n]
<1>1. s \in State /\ Disk(s, c, names) /\ s.fh \in [Ino -> 0 .. MaxHandles]
  BY Fields DEF Sound
<1>2. /\ t \in State /\ t.closing = s.closing /\ t.left = s.left /\ t.ok = s.ok
      /\ t.free = s.free /\ t.dfree = s.dfree /\ t.blk = s.blk
      /\ t.inode = s.inode /\ t.opened = s.opened /\ t.entry = s.entry
      /\ t.fh = [s.fh EXCEPT ![i] = n] /\ t.failed = s.failed /\ t.lossy = s.lossy
  BY <1>1 DEF State
<1> HIDE DEF t
<1>3. t.fh[i] = n /\ \A j \in Ino \ {i} : t.fh[j] = s.fh[j]
  BY <1>1, <1>2
<1>4. Disk(t, c, names)
  BY <1>1, <1>2 DEF Disk, Ptr
<1>5. \A j \in Ino : SavedIn(t, j) = SavedIn(s, j) /\ SeenIn(t, j) = SeenIn(s, j)
  BY <1>2 DEF SavedIn, SeenIn, Ptr
<1>6. ASSUME s.left # 0 PROVE Live(t, c, names)
  <2>1. Live(s, c, names)
    BY <1>6 DEF Sound
  <2>2. \A j \in Ino \ {i} : Cached(t, c, j, names)
    BY <2>1, <1>2, <1>3, OtherFile DEF Live
  <2>3. Cached(s, c, i, names)
    BY <2>1 DEF Live
  <2>4. Cached(t, c, i, names)
    BY <2>3, <1>2, <1>3, <1>5 DEF Cached, NlinkIn, Ptr
  <2> QED BY <2>1, <2>2, <2>4, <1>2 DEF Live, Ptr
<1>7. Sound(t, c, names)
  BY <1>2, <1>4, <1>6 DEF Sound
<1> QED BY <1>2, <1>5, <1>7 DEF t

(* A process without memory: what is saved is what is seen.                *)
LEMMA RestartOK ==
    ASSUME NEW names, NEW s, NEW c, Sound(s, c, names)
    PROVE  LET t == Restarted(s)
           IN  /\ t \in State /\ t.left = Lives /\ t.ok /\ ~t.failed /\ t.lossy = s.lossy
               /\ t.entry = s.entry /\ t.fh = [i \in Ino |-> 0] /\ t.closing = <<>>
               /\ t.opened = [i \in Ino |-> Nil] /\ t.free = t.dfree
               /\ Disk(t, c, names) /\ Kept(t)
               /\ ~c => \A b \in Block : b \in Range(t.free) \/ \E i \in Ino : Ptr(t, i) = b
               /\ \A j \in Ino : SavedIn(t, j) = SavedIn(s, j) /\ SeenIn(t, j) = SavedIn(s, j)
               /\ (\A j \in Ino : s.inode[j].nlink = names[j]) => Sound(t, c, names)
<1> DEFINE t == Restarted(s)
<1>1. s \in State /\ s.dfree \in Seq(Block) /\ 0 \in 0 .. MaxHandles /\ Lives \in Int
      /\ <<>> \in Seq(Ino)
  BY Fields, Constants DEF Sound
<1>2. t \in State
  BY <1>1 DEF Restarted, State
<1>3. /\ t.left = Lives /\ t.ok /\ ~t.failed /\ t.lossy = s.lossy
      /\ t.entry = s.entry /\ t.fh = [i \in Ino |-> 0] /\ t.closing = <<>>
      /\ t.opened = [i \in Ino |-> Nil] /\ t.free = s.dfree /\ t.dfree = s.dfree
      /\ t.blk = s.blk /\ t.inode = s.inode
  BY <1>1 DEF Restarted, State
<1> HIDE DEF t
<1>4. Disk(t, c, names)
  BY <1>3 DEF Sound, Disk, Ptr
<1>5. Kept(t)
  BY <1>3 DEF Kept
<1>6. ~c => \A b \in Block : b \in Range(t.free) \/ \E i \in Ino : Ptr(t, i) = b
  BY <1>1, <1>3, Fields DEF Sound, Live, Ptr
<1>7. \A j \in Ino : SavedIn(t, j) = SavedIn(s, j) /\ SeenIn(t, j) = SavedIn(s, j)
  BY <1>3 DEF SavedIn, SeenIn, Ptr
<1>8. ASSUME \A j \in Ino : s.inode[j].nlink = names[j] PROVE Sound(t, c, names)
  <2>1. \A j \in Ino : Cached(t, c, j, names)
    BY <1>3, <1>8 DEF Cached, NlinkIn
  <2>2. Live(t, c, names) /\ t.left < 0
    BY <2>1, <1>3, <1>6, Constants DEF Live
  <2> QED BY <2>2, <1>2, <1>4 DEF Sound
<1> QED BY <1>2, <1>3, <1>4, <1>5, <1>6, <1>7, <1>8 DEF t

-----------------------------------------------------------------------------
(***************************************************************************)
(* The invariant between calls, and calls.                                 *)
(***************************************************************************)
Inv ==
    /\ x \in State /\ x.left = Lives /\ x.ok /\ crashes \in BOOLEAN
    /\ Disk(x, crashes, x.entry) /\ x.dfree = x.free
    /\ ~crashes => \A b \in Block : b \in Range(x.free) \/ \E i \in Ino : Ptr(x, i) = b
    /\ \A i \in Ino : x.opened[i] # Nil => x.opened[i].xattr_ptr = Ptr(x, i)
    /\ ~x.lossy => Sound(x, crashes, x.entry) /\ Kept(x)

(* The refinement mapping in terms of a state,                             *)
LEMMA SeenSaved ==
    ASSUME NEW i \in Ino
    PROVE  Saved[i] = SavedIn(x, i) /\ Seen[i] = SeenIn(x, i)
  BY DEF Saved, Seen, SavedIn, SeenIn, Ptr

(* and after a step.                                                       *)
LEMMA SeenSavedNext ==
    ASSUME NEW i \in Ino
    PROVE  Saved'[i] = SavedIn(x', i) /\ Seen'[i] = SeenIn(x', i)
  BY DEF Saved, Seen, SavedIn, SeenIn, Ptr

(* A state of a call that x led to.                                        *)
During(s) ==
    /\ Sound(s, crashes, x.entry) /\ Calm(x, s, x.entry)
    /\ s.entry = x.entry /\ s.fh = x.fh /\ s.failed = x.failed /\ ~s.lossy

(* A call begins in a sound state.                                         *)
LEMMA BeginOK ==
    ASSUME Inv, ~x.lossy, NEW n \in Writes
    PROVE  /\ During(Begin(n)) /\ Kept(Begin(n)) /\ Begin(n).ok /\ Begin(n).left = n
           /\ Begin(n).opened = x.opened /\ Begin(n).inode = x.inode
<1> DEFINE s == Begin(n)
<1>1. n \in Int /\ (~crashes => n < 0)
  BY Constants DEF Writes
<1>2. x \in State /\ x.ok /\ x.left = -1 /\ Sound(x, crashes, x.entry) /\ Kept(x)
  BY Constants DEF Inv
<1>3. s = [x EXCEPT !.left = n]
  BY DEF Begin
<1> HIDE DEF s
<1>4. /\ s \in State /\ Alike(x, s) /\ s.left = n /\ s.ok = x.ok
      /\ s.free = x.free /\ s.dfree = x.dfree /\ s.blk = x.blk
      /\ s.inode = x.inode /\ s.opened = x.opened
  BY <1>1, <1>2, <1>3, SetLeft
<1>5. Disk(s, crashes, x.entry)
  BY <1>2, <1>4 DEF Sound, Disk, Ptr, Alike
<1>6. Live(s, crashes, x.entry)
  <2>1. Live(x, crashes, x.entry)
    BY <1>2 DEF Sound
  <2>2. \A j \in Ino : Cached(s, crashes, j, x.entry)
    BY <2>1, <1>4, OtherFile DEF Live, Alike
  <2> QED BY <2>1, <2>2, <1>4 DEF Live, Ptr
<1>7. \A j \in Ino : SavedIn(s, j) = SavedIn(x, j) /\ SeenIn(s, j) = SeenIn(x, j)
  BY <1>4 DEF SavedIn, SeenIn, Ptr
<1>8. Calm(x, s, x.entry)
  BY <1>2, <1>7 DEF Calm, Kind
<1>9. Kept(s)
  BY <1>2, <1>4 DEF Kept, Alike
<1>10. Sound(s, crashes, x.entry)
  BY <1>1, <1>4, <1>5, <1>6 DEF Sound
<1>11. During(s)
  BY <1>4, <1>8, <1>10 DEF During, Alike
<1> QED BY <1>2, <1>4, <1>9, <1>11 DEF s

(* A call that neither fails nor is cut off.                               *)
LEMMA EndedDone ==
    ASSUME Inv, NEW s, NEW names, Sound(s, crashes, names), names = s.entry, Kept(s),
           ~s.lossy, s.ok, s.left # 0, NEW r, Ended(s, r)
    PROVE  /\ Inv' /\ ~x'.lossy /\ reply' = r /\ x'.failed = s.failed
           /\ x'.entry = s.entry /\ x'.fh = s.fh
           /\ \A j \in Ino : SavedIn(x', j) = SavedIn(s, j) /\ SeenIn(x', j) = SeenIn(s, j)
<1> DEFINE t == [s EXCEPT !.left = Lives, !.ok = TRUE, !.failed = @ \/ ~s.ok]
<1>1. s \in State /\ s.failed \in BOOLEAN /\ Lives \in Int /\ Lives < 0
  BY Fields, Constants DEF Sound
<1>2. x' = t /\ reply' = r /\ crashes' = crashes
  BY DEF Ended
<1>3. /\ t \in State /\ t.left = Lives /\ t.ok /\ t.free = s.free /\ t.dfree = s.dfree
      /\ t.blk = s.blk /\ t.inode = s.inode /\ t.opened = s.opened /\ t.entry = s.entry
      /\ t.fh = s.fh /\ t.failed = s.failed /\ t.lossy = s.lossy /\ t.closing = s.closing
  <2>1. (s.failed \/ ~s.ok) = s.failed
    BY <1>1
  <2>2. t = [s EXCEPT !.left = Lives, !.ok = TRUE, !.failed = s.failed]
    BY <2>1
  <2> HIDE DEF t
  <2>3. t \in State
    BY <2>2, <1>1 DEF State
  <2> QED BY <2>2, <2>3, <1>1 DEF State
<1> HIDE DEF t
<1>4. Disk(t, crashes, names) /\ Live(s, crashes, names)
  BY <1>3 DEF Sound, Disk, Ptr
<1>5. Live(t, crashes, names)
  <2>1. \A j \in Ino : Cached(t, crashes, j, names)
    BY <1>3, <1>4, OtherFile DEF Live
  <2> QED BY <2>1, <1>3, <1>4 DEF Live, Ptr
<1>6. Sound(t, crashes, names) /\ Kept(t)
  BY <1>1, <1>3, <1>4, <1>5 DEF Sound, Kept
<1>7. \A j \in Ino : SavedIn(t, j) = SavedIn(s, j) /\ SeenIn(t, j) = SeenIn(s, j)
  BY <1>3 DEF SavedIn, SeenIn, Ptr
<1>8. \A j \in Ino : t.opened[j] # Nil => t.opened[j].xattr_ptr = Ptr(t, j)
  BY <1>5 DEF Live, Cached
<1>9. Inv'
  BY <1>2, <1>3, <1>4, <1>5, <1>6, <1>8 DEF Inv, Live
<1> QED BY <1>2, <1>3, <1>7, <1>9

(* A call that fails, the process alive.                                   *)
LEMMA EndedFailed ==
    ASSUME Inv, NEW s, NEW names, Sound(s, crashes, names),
           names = s.entry \/ (s.lossy /\ ~crashes),
           ~s.ok, s.left # 0, NEW r, Ended(s, r)
    PROVE  /\ Inv' /\ x'.lossy = s.lossy /\ reply' = Error /\ x'.failed
           /\ x'.entry = s.entry /\ x'.fh = s.fh
           /\ \A j \in Ino : NlinkIn(x', j) = NlinkIn(s, j)
           /\ \A j \in Ino : SavedIn(x', j) = SavedIn(s, j) /\ SeenIn(x', j) = SeenIn(s, j)
<1> DEFINE t == [s EXCEPT !.left = Lives, !.ok = TRUE, !.failed = @ \/ ~s.ok]
<1>1. s \in State /\ s.failed \in BOOLEAN /\ Lives \in Int /\ Lives < 0
  BY Fields, Constants DEF Sound
<1>2. x' = t /\ reply' = Error /\ crashes' = crashes
  BY DEF Ended
<1>3. /\ t \in State /\ t.left = Lives /\ t.ok /\ t.free = s.free /\ t.dfree = s.dfree
      /\ t.blk = s.blk /\ t.inode = s.inode /\ t.opened = s.opened /\ t.entry = s.entry
      /\ t.fh = s.fh /\ t.failed /\ t.lossy = s.lossy /\ t.closing = s.closing
  <2>1. (s.failed \/ ~s.ok) = TRUE
    BY <1>1
  <2>2. t = [s EXCEPT !.left = Lives, !.ok = TRUE, !.failed = TRUE]
    BY <2>1
  <2> HIDE DEF t
  <2>3. t \in State
    BY <2>2, <1>1 DEF State
  <2> QED BY <2>2, <2>3, <1>1 DEF State
<1> HIDE DEF t
<1>4. Disk(t, crashes, names) /\ Live(s, crashes, names)
  BY <1>3 DEF Sound, Disk, Ptr
<1>5. Live(t, crashes, names)
  <2>1. \A j \in Ino : Cached(t, crashes, j, names)
    BY <1>3, <1>4, OtherFile DEF Live
  <2> QED BY <2>1, <1>3, <1>4 DEF Live, Ptr
<1>6. Sound(t, crashes, names) /\ Kept(t)
  BY <1>1, <1>3, <1>4, <1>5 DEF Sound, Kept
<1>7. \A j \in Ino : SavedIn(t, j) = SavedIn(s, j) /\ SeenIn(t, j) = SeenIn(s, j)
  BY <1>3 DEF SavedIn, SeenIn, Ptr
<1>8. \A j \in Ino : t.opened[j] # Nil => t.opened[j].xattr_ptr = Ptr(t, j)
  BY <1>5 DEF Live, Cached
<1>9. Disk(t, crashes, t.entry) /\ (~t.lossy => Sound(t, crashes, t.entry))
  BY <1>3, <1>4, <1>6 DEF Disk
<1>10. \A j \in Ino : NlinkIn(t, j) = NlinkIn(s, j)
  BY <1>3 DEF NlinkIn
<1>11. ~crashes => \A b \in Block : b \in Range(t.free) \/ \E i \in Ino : Ptr(t, i) = b
  BY <1>5 DEF Live
<1>12. Inv'
  <2>1. t.dfree = t.free /\ crashes \in BOOLEAN
    BY <1>5 DEF Live, Inv
  <2> QED BY <2>1, <1>2, <1>3, <1>6, <1>8, <1>9, <1>11 DEF Inv
<1> QED BY <1>2, <1>3, <1>7, <1>10, <1>12

(* A call in which the process dies.                                       *)
LEMMA EndedDead ==
    ASSUME Inv, NEW s, NEW names, Sound(s, crashes, names), names = s.entry, ~s.lossy,
           s.left = 0, NEW r, Ended(s, r)
    PROVE  /\ Inv' /\ ~x'.lossy /\ reply' = Error /\ ~x'.failed /\ x'.entry = s.entry
           /\ x'.fh = [i \in Ino |-> 0]
           /\ \A j \in Ino : SavedIn(x', j) = SavedIn(s, j) /\ SeenIn(x', j) = SavedIn(s, j)
<1> DEFINE t == Restarted(s)
<1>1. x' = t /\ reply' = Error /\ crashes' = crashes /\ crashes \in BOOLEAN
  BY DEF Ended, Inv
<1>2. crashes
  BY <1>1 DEF Sound
<1>3. \A j \in Ino : s.inode[j].nlink = names[j]
  BY <1>2 DEF Sound, Disk
<1>4. /\ t \in State /\ t.left = Lives /\ t.ok /\ ~t.failed /\ t.lossy = s.lossy
      /\ t.entry = s.entry /\ t.fh = [i \in Ino |-> 0] /\ t.closing = <<>>
      /\ t.opened = [i \in Ino |-> Nil] /\ t.free = t.dfree
      /\ Disk(t, crashes, names) /\ Kept(t) /\ Sound(t, crashes, names)
      /\ ~crashes => \A b \in Block : b \in Range(t.free) \/ \E i \in Ino : Ptr(t, i) = b
      /\ \A j \in Ino : SavedIn(t, j) = SavedIn(s, j) /\ SeenIn(t, j) = SavedIn(s, j)
  <2>1. /\ t \in State /\ t.left = Lives /\ t.ok /\ ~t.failed /\ t.lossy = s.lossy
        /\ t.entry = s.entry /\ t.fh = [i \in Ino |-> 0] /\ t.closing = <<>>
        /\ t.opened = [i \in Ino |-> Nil] /\ t.free = t.dfree
        /\ Disk(t, crashes, names) /\ Kept(t)
        /\ ~crashes => \A b \in Block : b \in Range(t.free) \/ \E i \in Ino : Ptr(t, i) = b
        /\ \A j \in Ino : SavedIn(t, j) = SavedIn(s, j) /\ SeenIn(t, j) = SavedIn(s, j)
        /\ (\A j \in Ino : s.inode[j].nlink = names[j]) => Sound(t, crashes, names)
    <3>1. Sound(s, crashes, names)
      OBVIOUS
    <3> QED BY ONLY <3>1, RestartOK DEF t
  <2> HIDE DEF t
  <2> QED BY <2>1, <1>3
<1> HIDE DEF t
<1>5. Inv'
  BY <1>1, <1>4 DEF Inv
<1> QED BY <1>1, <1>4, <1>5

-----------------------------------------------------------------------------
(* The calls implement Attributes.                                         *)
(* From x to the end of a call, the attributes of j stay or j is           *)
(* reclaimed.                                                              *)
LEMMA SameOf ==
    ASSUME Inv, NEW s, Calm(x, s, x.entry), s.left # 0, NEW j \in Ino,
           SavedIn(x', j) = SavedIn(s, j), SeenIn(x', j) = SeenIn(s, j)
    PROVE  Abs!Same(j)
<1>1. Kind(x, s, j, x.entry)
  BY DEF Calm
<1> QED BY <1>1, SeenSaved, SeenSavedNext
        DEF Kind, Abs!Same, Abs!Becomes, Abs!Reclaimed, NoAttrs, Abs!NoAttrs

(* The process dies within a call that changes no names.                   *)
LEMMA CrashOK ==
    ASSUME Inv, NEW s, Sound(s, crashes, x.entry), ~s.lossy, s.entry = x.entry, s.left = 0,
           \A j \in Ino : \/ SavedIn(s, j) \in {SavedIn(x, j), SeenIn(x, j)}
                          \/ x.entry[j] = 0 /\ SavedIn(s, j) = NoAttrs,
           NEW r, Ended(s, r)
    PROVE  Inv' /\ ~x'.lossy /\ Abs!Next
<1>1. /\ Inv' /\ ~x'.lossy /\ reply' = Error /\ ~x'.failed /\ x'.entry = s.entry
      /\ x'.fh = [i \in Ino |-> 0]
      /\ \A j \in Ino : SavedIn(x', j) = SavedIn(s, j) /\ SeenIn(x', j) = SavedIn(s, j)
  BY EndedDead
<1>2. Seen' = Saved'
  <2>1. \A j \in Ino : Seen'[j] = Saved'[j]
    BY <1>1, SeenSavedNext
  <2> QED BY <2>1 DEF Seen, Saved
<1>3. ASSUME NEW j \in Ino
      PROVE  \/ Saved'[j] \in {Saved[j], Seen[j]}
             \/ x.entry[j] = 0 /\ Saved'[j] = NoAttrs
  BY <1>1, SeenSaved, SeenSavedNext
<1>4. Abs!Restart
  BY <1>1, <1>2, <1>3 DEF Abs!Restart, NoAttrs, Abs!NoAttrs
<1>5. Abs!Crash
  BY <1>1, <1>4 DEF Abs!Crash, Error, Abs!Error
<1> QED BY <1>1, <1>5 DEF Abs!Next

(* A call that fails or is cut off has changed nothing.                    *)
LEMMA CutOK ==
    ASSUME Inv, NEW s, During(s), ~s.ok \/ s.left = 0, NEW r, Ended(s, r)
    PROVE  Inv' /\ ~x'.lossy /\ Abs!Next
<1>1. CASE s.left # 0
  <2>1. /\ Inv' /\ ~x'.lossy /\ reply' = Error /\ x'.failed /\ x'.entry = s.entry /\ x'.fh = s.fh
        /\ \A j \in Ino : SavedIn(x', j) = SavedIn(s, j) /\ SeenIn(x', j) = SeenIn(s, j)
    <3>1. Sound(s, crashes, s.entry) /\ ~s.lossy /\ ~s.ok
      BY <1>1 DEF During
    <3> QED BY <1>1, <3>1, EndedFailed
  <2>2. Abs!Quiet
    BY <1>1, <2>1, SameOf DEF During, Abs!Quiet
  <2>3. Abs!Fails
    BY <2>1, <2>2 DEF During, Abs!Fails, Error, Abs!Error
  <2> QED BY <2>1, <2>3 DEF Abs!Next
<1>2. CASE s.left = 0
  <2>1. \A j \in Ino : \/ SavedIn(s, j) \in {SavedIn(x, j), SeenIn(x, j)}
                       \/ x.entry[j] = 0 /\ SavedIn(s, j) = NoAttrs
    BY DEF During, Calm, Kind
  <2> QED BY <2>1, <1>2, CrashOK DEF During
<1> QED BY <1>1, <1>2

(* A call that opens a file.                                               *)
LEMMA OpenDuring ==
    ASSUME AttributesFit, Inv, ~x.lossy, NEW n \in Writes, NEW i \in Ino
    PROVE  LET u == open(Begin(n), i)
           IN  /\ During(u) /\ Tidy(u, {i})
               /\ u.ok => u.opened[i] # Nil /\ u.closing = <<>>
<1> DEFINE s == Begin(n)
           u == open(s, i)
<1>1. During(s) /\ Kept(s) /\ s.ok
  BY BeginOK
<1> HIDE DEF s
<1>2. Opens(s, crashes, i, u, x.entry)
  BY <1>1, OpenOK DEF During
<1> HIDE DEF u
<1>3. Calm(x, u, x.entry)
  BY <1>1, <1>2, CalmTrans DEF During, Opens
<1>4. During(u)
  BY <1>1, <1>2, <1>3 DEF During, Opens
<1> QED BY <1>2, <1>4 DEF Opens, u, s

(* A file in use is not reclaimed.                                         *)
LEMMA InUseSeen ==
    ASSUME NEW s, Calm(x, s, x.entry), NEW i \in InUse
    PROVE  /\ i \in Ino
           /\ SavedIn(s, i) \in {SavedIn(x, i), SeenIn(x, i)}
           /\ s.left # 0 => SeenIn(s, i) = SeenIn(x, i)
<1>1. i \in Ino /\ (x.entry[i] > 0 \/ x.fh[i] > 0)
  BY DEF InUse
<1>2. Kind(x, s, i, x.entry) /\ ~(x.entry[i] = 0 /\ x.fh[i] = 0)
  BY <1>1 DEF Calm
<1> QED BY <1>1, <1>2 DEF Kind

(* A call that changes the attributes of file i.                           *)
Changed(f, m) == [f EXCEPT !.xattr = m, !.dirty = TRUE]

(* What setting the attributes of an inode in memory leaves alone.         *)
LEMMA ChangedOf ==
    ASSUME NEW f \in Opened, NEW m \in Attrs
    PROVE  /\ Changed(f, m) \in Opened /\ Changed(f, m).nlink = f.nlink
           /\ Changed(f, m).xattr_ptr = f.xattr_ptr /\ Changed(f, m).xattr = m
           /\ Changed(f, m).dirty
  BY DEF Changed, Opened

(* A call that opened a file has changed its attributes and drops its      *)
(* handle: setxattr and removexattr end so.                                *)
LEMMA ChangeOK ==
    ASSUME Inv, NEW i \in InUse, NEW u, During(u), Tidy(u, {i}),
           u.ok, u.opened[i] # Nil, u.closing = <<>>,
           NEW m, NEW l \in Attrs, u.left # 0 => l = m,
           crashes /\ u.left # 0 /\ m = NoAttrs => SeenIn(x, i) = NoAttrs,
           Ended(dropped([u EXCEPT !.opened[i] = Changed(u.opened[i], l)], i), Ok)
    PROVE  Inv' /\ ~x'.lossy /\ (Abs!Next \/ Abs!Update(i, m))
<1> DEFINE f == u.opened[i]
           g == Changed(f, l)
           v == [u EXCEPT !.opened[i] = g]
           s == dropped(v, i)
<1>0. i \in Ino
  BY DEF InUse
<1>1. Sound(u, crashes, x.entry) /\ f \in Opened
  BY <1>0, FilesOf DEF During, Sound
<1>2. g \in Opened /\ g.nlink = f.nlink /\ g.xattr_ptr = f.xattr_ptr /\ g.xattr = l /\ g.dirty
  BY <1>1, ChangedOf
<1>3. crashes /\ u.left # 0 /\ g.xattr = NoAttrs => g.xattr_ptr = 0
  <2>1. u.left # 0 => SeenIn(x, i) = f.xattr /\ Cached(u, crashes, i, x.entry)
    BY <1>0, <1>1, InUseSeen DEF During, SeenIn, Sound, Live
  <2> QED BY <2>1, <1>2 DEF Cached
<1> HIDE DEF g
<1>4. /\ Sound(v, crashes, x.entry) /\ v.left = u.left /\ v.ok = u.ok /\ Alike(u, v)
      /\ v.opened[i] = g /\ g # Nil
      /\ \A j \in Ino \ {i} : v.opened[j] = u.opened[j] /\ SeenIn(v, j) = SeenIn(u, j)
      /\ \A j \in Ino : SavedIn(v, j) = SavedIn(u, j)
      /\ SeenIn(v, i) = g.xattr
  <2>1. /\ g \in Opened /\ g.xattr_ptr = u.opened[i].xattr_ptr /\ g.nlink = u.opened[i].nlink
        /\ ~g.dirty => ~u.opened[i].dirty /\ g.xattr = u.opened[i].xattr
    BY <1>2
  <2> HIDE DEF f
  <2>2. Sound(u, crashes, x.entry) /\ i \in Ino /\ u.opened[i] # Nil
    BY <1>0, <1>1
  <2> QED BY ONLY <2>1, <2>2, <1>3, EditOK DEF v
<1> HIDE DEF v
<1>5. /\ Sound(s, crashes, x.entry) /\ s.left = v.left /\ s.ok = v.ok
      /\ s.entry = v.entry /\ s.fh = v.fh /\ s.failed = v.failed /\ s.lossy = v.lossy
      /\ \A j \in Ino : SavedIn(s, j) = SavedIn(v, j) /\ SeenIn(s, j) = SeenIn(v, j)
      /\ v.closing = <<>> /\ Tidy(v, {i}) => Kept(s)
  <2>1. Drops(v, crashes, i, s, x.entry)
    BY <1>0, <1>4, DroppedOK
  <2> HIDE DEF s
  <2> QED BY <2>1 DEF Drops
<1> HIDE DEF s
<1>6. Kept(s)
  <2>1. v.closing = <<>> /\ Tidy(v, {i})
    BY <1>4 DEF Alike, Tidy
  <2> QED BY <2>1, <1>5
<1>7. Ended(s, Ok)
  BY DEF s, v, g
<1>8. /\ s.entry = x.entry /\ s.fh = x.fh /\ s.failed = x.failed /\ ~s.lossy /\ s.ok
      /\ s.left = u.left
  BY <1>4, <1>5 DEF During, Alike
<1>9. CASE s.left = 0
  <2>1. Calm(x, s, x.entry)
    BY <1>4, <1>5, <1>8, <1>9 DEF During, Calm, Kind, Inv
  <2>2. During(s)
    BY <2>1, <1>5, <1>8 DEF During
  <2> QED BY <2>2, <1>7, <1>9, CutOK
<1>10. CASE s.left # 0
  <2>1. /\ Inv' /\ ~x'.lossy /\ reply' = Ok /\ x'.failed = s.failed
        /\ x'.entry = s.entry /\ x'.fh = s.fh
        /\ \A j \in Ino : SavedIn(x', j) = SavedIn(s, j) /\ SeenIn(x', j) = SeenIn(s, j)
    BY <1>5, <1>6, <1>7, <1>8, <1>10, EndedDone
  <2>2. \A j \in Ino \ {i} : Abs!Same(j)
    BY <2>1, <1>4, <1>5, <1>8, <1>10, SameOf DEF During
  <2>3. Abs!Becomes(i, m)
    <3>1. SeenIn(x', i) = m
      BY <2>1, <1>0, <1>2, <1>4, <1>5, <1>8, <1>10
    <3>2. SavedIn(x', i) \in {SavedIn(x, i), SeenIn(x, i)}
      BY <2>1, <1>0, <1>4, <1>5, InUseSeen DEF During
    <3> QED BY <3>1, <3>2, <1>0, SeenSaved, SeenSavedNext DEF Abs!Becomes
  <2>4. Abs!Update(i, m)
    BY <2>1, <2>2, <2>3, <1>8 DEF Abs!Update, Abs!Fine, Ok, Abs!Ok
  <2> QED BY <2>1, <2>4
<1> QED BY <1>9, <1>10

(* What setxattr and removexattr make of a map.                            *)
LEMMA AttrsEdits ==
    ASSUME NEW m \in Attrs, NEW k \in Keys
    PROVE  /\ Without(m, k) \in Attrs
           /\ Without(m, k) = NoAttrs => m = NoAttrs \/ DOMAIN m = {k}
           /\ \A v \in Values : With(m, k, v) \in Attrs /\ With(m, k, v) # NoAttrs
<1>1. PICK S \in SUBSET Keys : m \in [S -> Values]
  BY DEF Attrs
<1>2. Without(m, k) \in [S \ {k} -> Values]
  BY <1>1 DEF Without
<1>3. Without(m, k) \in Attrs
  <2>1. S \ {k} \in SUBSET Keys
    BY <1>1
  <2> QED BY <2>1, <1>2 DEF Attrs
<1>4. DOMAIN NoAttrs = {}
  BY DEF NoAttrs
<1>5. S = {} => m = NoAttrs
  BY <1>1 DEF NoAttrs
<1>6. Without(m, k) = NoAttrs => m = NoAttrs \/ DOMAIN m = {k}
  BY <1>1, <1>2, <1>4, <1>5
<1>7. ASSUME NEW v \in Values PROVE With(m, k, v) \in Attrs /\ With(m, k, v) # NoAttrs
  <2>1. With(m, k, v) \in [S \union {k} -> Values] /\ S \union {k} \in SUBSET Keys
    BY <1>1 DEF With
  <2>2. With(m, k, v) \in Attrs
    BY <2>1 DEF Attrs
  <2>3. DOMAIN With(m, k, v) # {}
    BY <2>1
  <2> QED BY <2>2, <2>3, <1>4
<1> QED BY <1>3, <1>6, <1>7

(* setxattr and removexattr.                                               *)
LEMMA SetxattrOK ==
    ASSUME AttributesFit, Inv, ~x.lossy, NEW i \in InUse, NEW k \in Keys, NEW v \in Values,
           NEW n \in Writes, Setxattr(i, k, v, n)
    PROVE  Inv' /\ ~x'.lossy /\ Abs!Next
<1> DEFINE u == open(Begin(n), i)
           l == With(u.opened[i].xattr, k, v)
           w == [u EXCEPT !.opened[i] = Changed(u.opened[i], l)]
<1>0. i \in Ino
  BY DEF InUse
<1>1. /\ During(u) /\ Tidy(u, {i})
      /\ u.ok => u.opened[i] # Nil /\ u.closing = <<>>
  BY <1>0, OpenDuring
<1>2. Ended(IF u.ok THEN dropped(setxattr(u, i, k, v), i) ELSE u, Ok)
  BY DEF Setxattr
<1>3. setxattr(u, i, k, v) = w
  <2> HIDE DEF u
  <2>1. u \in State /\ u.opened \in [Ino -> Opened \union {Nil}]
    BY <1>1, Fields DEF During, Sound
  <2> QED BY <2>1, <1>0 DEF setxattr, Changed
<1> HIDE DEF u
<1>4. CASE ~u.ok
  BY <1>1, <1>2, <1>4, CutOK
<1>5. CASE u.ok
  <2> DEFINE m == With(SeenIn(x, i), k, v)
  <2>1. u.opened[i] \in Opened /\ u.opened[i].xattr \in Attrs
    <3>1. u.opened[i] \in Opened
      BY <1>0, <1>1, <1>5, FilesOf DEF During, Sound
    <3> QED BY <3>1 DEF Opened
  <2>2. l \in Attrs /\ l # NoAttrs
    BY <2>1, AttrsEdits
  <2>3. u.left # 0 => l = m
    BY <1>0, <1>1, <1>5, InUseSeen DEF During, SeenIn
  <2>4. Ended(dropped(w, i), Ok)
    BY <1>2, <1>3, <1>5
  <2> HIDE DEF m, l
  <2>5. Inv' /\ ~x'.lossy /\ (Abs!Next \/ Abs!Update(i, m))
    BY <2>2, <2>3, <2>4, <1>1, <1>5, ChangeOK
  <2>6. Abs!Update(i, m) => Abs!Set(i, k, v)
    BY <1>0, SeenSaved DEF Abs!Set, m, With
  <2> QED BY <2>5, <2>6, <1>0 DEF Abs!Next
<1> QED BY <1>4, <1>5

(* removexattr keeps the invariant and is a step of Attributes.            *)
LEMMA RemovexattrOK ==
    ASSUME AttributesFit, Inv, ~x.lossy, NEW i \in InUse, NEW k \in Keys,
           NEW n \in Writes, crashes => DOMAIN Seen[i] # {k}, Removexattr(i, k, n)
    PROVE  Inv' /\ ~x'.lossy /\ Abs!Next
<1> DEFINE u == open(Begin(n), i)
           l == Without(u.opened[i].xattr, k)
           w == [u EXCEPT !.opened[i] = Changed(u.opened[i], l)]
<1>0. i \in Ino
  BY DEF InUse
<1>1. /\ During(u) /\ Tidy(u, {i})
      /\ u.ok => u.opened[i] # Nil /\ u.closing = <<>>
  BY <1>0, OpenDuring
<1>2. Ended(IF u.ok THEN dropped(removexattr(u, i, k), i) ELSE u, Ok)
  BY DEF Removexattr
<1>3. removexattr(u, i, k) = w
  <2> HIDE DEF u
  <2>1. u \in State /\ u.opened \in [Ino -> Opened \union {Nil}]
    BY <1>1, Fields DEF During, Sound
  <2> QED BY <2>1, <1>0 DEF removexattr, Changed
<1> HIDE DEF u
<1>4. CASE ~u.ok
  BY <1>1, <1>2, <1>4, CutOK
<1>5. CASE u.ok
  <2> DEFINE m == Without(SeenIn(x, i), k)
  <2>1. u.opened[i] \in Opened /\ u.opened[i].xattr \in Attrs
    <3>1. u.opened[i] \in Opened
      BY <1>0, <1>1, <1>5, FilesOf DEF During, Sound
    <3> QED BY <3>1 DEF Opened
  <2>2. l \in Attrs
    BY <2>1, AttrsEdits
  <2>3. u.left # 0 => l = m /\ u.opened[i].xattr = SeenIn(x, i)
    BY <1>0, <1>1, <1>5, InUseSeen DEF During, SeenIn
  <2>4. Ended(dropped(w, i), Ok)
    BY <1>2, <1>3, <1>5
  <2>5. crashes /\ u.left # 0 /\ m = NoAttrs => SeenIn(x, i) = NoAttrs
    BY <2>1, <2>3, <1>0, AttrsEdits, SeenSaved
  <2> HIDE DEF m, l
  <2>6. Inv' /\ ~x'.lossy /\ (Abs!Next \/ Abs!Update(i, m))
    BY <2>2, <2>3, <2>4, <2>5, <1>1, <1>5, ChangeOK
  <2>7. Abs!Update(i, m) => Abs!Remove(i, k)
    BY <1>0, SeenSaved DEF Abs!Remove, m, Without
  <2> QED BY <2>6, <2>7, <1>0 DEF Abs!Next
<1> QED BY <1>4, <1>5

(* A call that succeeds and changes no attributes.                         *)
LEMMA QuietOK ==
    ASSUME Inv, NEW s, During(s), Kept(s), s.ok, s.left # 0, NEW r, Ended(s, r)
    PROVE  /\ Inv' /\ ~x'.lossy /\ reply' = r /\ Abs!Fine /\ Abs!Quiet
           /\ \A j \in Ino : SavedIn(x', j) = SavedIn(s, j) /\ SeenIn(x', j) = SeenIn(s, j)
<1>1. /\ Inv' /\ ~x'.lossy /\ reply' = r /\ x'.failed = s.failed
      /\ x'.entry = s.entry /\ x'.fh = s.fh
      /\ \A j \in Ino : SavedIn(x', j) = SavedIn(s, j) /\ SeenIn(x', j) = SeenIn(s, j)
  BY EndedDone DEF During
<1>2. Abs!Quiet
  BY <1>1, SameOf DEF During, Abs!Quiet
<1>3. Abs!Fine
  BY <1>1 DEF During, Abs!Fine
<1> QED BY <1>1, <1>2, <1>3

(* A handle goes out of scope at the end of a call.                        *)
LEMMA DropDuring ==
    ASSUME NEW s, During(s), NEW i \in Ino
    PROVE  LET t == dropped(s, i)
           IN  /\ During(t) /\ t.left = s.left /\ t.ok = s.ok /\ t.opened = s.opened
               /\ \A j \in Ino : SavedIn(t, j) = SavedIn(s, j) /\ SeenIn(t, j) = SeenIn(s, j)
               /\ s.closing = <<>> /\ Tidy(s, {i}) => Kept(t)
               /\ Kept(s) => Kept(t)
<1> DEFINE t == dropped(s, i)
<1>1. Sound(s, crashes, x.entry)
  BY DEF During
<1>2. /\ Sound(t, crashes, x.entry) /\ Calm(s, t, x.entry) /\ t.left = s.left /\ t.ok = s.ok
      /\ t.entry = s.entry /\ t.fh = s.fh /\ t.failed = s.failed /\ t.lossy = s.lossy
      /\ t.opened = s.opened
      /\ \A j \in Ino : SavedIn(t, j) = SavedIn(s, j) /\ SeenIn(t, j) = SeenIn(s, j)
      /\ s.closing = <<>> /\ Tidy(s, {i}) => Kept(t)
      /\ Kept(s) => Kept(t)
  <2>1. Drops(s, crashes, i, t, x.entry)
    BY <1>1, DroppedOK
  <2> HIDE DEF t
  <2> QED BY <2>1 DEF Drops
<1> HIDE DEF t
<1>3. Calm(x, t, x.entry)
  BY <1>2, CalmTrans DEF During
<1>4. During(t)
  BY <1>2, <1>3 DEF During
<1> QED BY <1>2, <1>4 DEF t

(* getxattr and listxattr: r is what they answer.                          *)
LEMMA AnswerOK ==
    ASSUME AttributesFit, Inv, ~x.lossy, NEW i \in InUse, NEW n \in Writes,
           NEW r, NEW q,
           LET u == open(Begin(n), i)
           IN  /\ IF u.ok THEN Ended(dropped(u, i), q) ELSE Ended(u, Error)
               /\ u.ok /\ u.opened[i].xattr = Seen[i] => q = r
    PROVE  /\ Inv' /\ ~x'.lossy
           /\ Abs!Next \/ (reply' = r /\ Abs!Fine /\ Abs!Quiet)
<1> DEFINE u == open(Begin(n), i)
           s == dropped(u, i)
<1>0. i \in Ino
  BY DEF InUse
<1>1. /\ During(u) /\ Tidy(u, {i})
      /\ u.ok => u.opened[i] # Nil /\ u.closing = <<>>
  BY <1>0, OpenDuring
<1>2. /\ IF u.ok THEN Ended(s, q) ELSE Ended(u, Error)
      /\ u.ok /\ u.opened[i].xattr = Seen[i] => q = r
  OBVIOUS
<1> HIDE DEF u
<1>3. CASE ~u.ok
  BY <1>1, <1>2, <1>3, CutOK
<1>4. CASE u.ok
  <2>1. During(s) /\ s.left = u.left /\ s.ok /\ Kept(s)
    BY <1>0, <1>1, <1>4, DropDuring
  <2>2. Ended(s, q)
    BY <1>2, <1>4
  <2> HIDE DEF s
  <2>3. CASE s.left = 0
    BY <2>1, <2>2, <2>3, CutOK
  <2>4. CASE s.left # 0
    <3>1. u.opened[i].xattr = Seen[i]
      BY <2>1, <2>4, <1>0, <1>1, <1>4, InUseSeen, SeenSaved DEF During, SeenIn
    <3>2. q = r
      BY <3>1, <1>2, <1>4
    <3> QED BY <3>2, <2>1, <2>2, <2>4, QuietOK
  <2> QED BY <2>3, <2>4
<1> QED BY <1>3, <1>4

(* A buffer of the right length is answered.                               *)
LEMMA AnswerOf ==
    ASSUME NEW data, NEW len, NEW size \in Buffers
    PROVE  Answer(data, len, size) \in Abs!Answers(data, len, size)
<1>1. ~(size > size)
  BY XattrAssumption
<1>2. CASE size = len
  BY <1>1, <1>2 DEF Answer, Abs!Answers, Size, ERANGE
<1>3. CASE size # len
  BY <1>3 DEF Answer, Abs!Answers, Size, ERANGE
<1> QED BY <1>2, <1>3

(* getxattr keeps the invariant and is a step of Attributes.               *)
LEMMA GetxattrOK ==
    ASSUME AttributesFit, Inv, ~x.lossy, NEW i \in InUse, NEW k \in Keys,
           NEW size \in Buffers, NEW n \in Writes, Getxattr(i, k, size, n)
    PROVE  Inv' /\ ~x'.lossy /\ Abs!Next
<1> DEFINE Found(m) == IF k \in DOMAIN m THEN Answer(Value(m[k]), m[k], size) ELSE ENOATTR
           u == open(Begin(n), i)
           q == Found(u.opened[i].xattr)
           r == Found(Seen[i])
<1>0. i \in Ino
  BY DEF InUse
<1>1. IF u.ok THEN Ended(dropped(u, i), q) ELSE Ended(u, Error)
  BY DEF Getxattr
<1>2. u.opened[i].xattr = Seen[i] => q = r
  OBVIOUS
<1>3. r \in IF k \in DOMAIN Seen[i]
            THEN Abs!Answers([kind |-> "value", value |-> Seen[i][k]], Seen[i][k], size)
            ELSE {[kind |-> "noattr"]}
  BY AnswerOf DEF Value, ENOATTR
<1> HIDE DEF q, r, Found
<1>4. Inv' /\ ~x'.lossy /\ (Abs!Next \/ (reply' = r /\ Abs!Fine /\ Abs!Quiet))
  BY <1>1, <1>2, AnswerOK
<1>5. reply' = r /\ Abs!Fine /\ Abs!Quiet => Abs!Get(i, k, size)
  BY <1>3 DEF Abs!Get
<1> QED BY <1>0, <1>4, <1>5 DEF Abs!Next

(* listxattr keeps the invariant and is a step of Attributes.              *)
LEMMA ListxattrOK ==
    ASSUME AttributesFit, Inv, ~x.lossy, NEW i \in InUse,
           NEW size \in Buffers, NEW n \in Writes, Listxattr(i, size, n)
    PROVE  Inv' /\ ~x'.lossy /\ Abs!Next
<1> DEFINE Found(ks) == Answer(Names(ks), 2 * Cardinality(ks), size)
           u == open(Begin(n), i)
           q == Found(DOMAIN u.opened[i].xattr)
           r == Found(DOMAIN Seen[i])
<1>0. i \in Ino
  BY DEF InUse
<1>1. IF u.ok THEN Ended(dropped(u, i), q) ELSE Ended(u, Error)
  BY DEF Listxattr
<1>2. u.opened[i].xattr = Seen[i] => q = r
  OBVIOUS
<1>3. r \in Abs!Answers([kind |-> "names", names |-> DOMAIN Seen[i]],
                        2 * Cardinality(DOMAIN Seen[i]), size)
  <2> DEFINE ks == DOMAIN Seen[i]
             len == 2 * Cardinality(ks)
  <2> HIDE DEF len
  <2>1. Answer(Names(ks), len, size) \in Abs!Answers(Names(ks), len, size)
    BY AnswerOf
  <2> QED BY <2>1 DEF Names, len
<1> HIDE DEF q, r, Found
<1>4. Inv' /\ ~x'.lossy /\ (Abs!Next \/ (reply' = r /\ Abs!Fine /\ Abs!Quiet))
  BY <1>1, <1>2, AnswerOK
<1>5. reply' = r /\ Abs!Fine /\ Abs!Quiet => Abs!List(i, size)
  <2>1. Abs!Cardinality(DOMAIN Seen[i]) = Cardinality(DOMAIN Seen[i])
    BY DEF Abs!Cardinality, Cardinality
  <2> QED BY <2>1, <1>3 DEF Abs!List
<1> QED BY <1>0, <1>4, <1>5 DEF Abs!Next

(* The file is marked as changed, or stays as it is.                       *)
Marked(f, b) == [f EXCEPT !.dirty = @ \/ b]

(* What marking an inode in memory leaves alone.                           *)
LEMMA MarkedOf ==
    ASSUME NEW f \in Opened, NEW b \in BOOLEAN
    PROVE  /\ Marked(f, b) \in Opened /\ Marked(f, b).nlink = f.nlink
           /\ Marked(f, b).xattr_ptr = f.xattr_ptr /\ Marked(f, b).xattr = f.xattr
           /\ ~Marked(f, b).dirty => ~f.dirty
<1>1. f.dirty \in BOOLEAN /\ (f.dirty \/ b) \in BOOLEAN
  BY DEF Opened
<1> DEFINE d == f.dirty \/ b
<1>2. Marked(f, b) = [f EXCEPT !.dirty = d]
  BY DEF Marked
<1>3. ~d => ~f.dirty
  OBVIOUS
<1>4. d \in BOOLEAN
  BY <1>1
<1> HIDE DEF d
<1>5. Marked(f, b).dirty = d
  BY <1>2 DEF Opened
<1> QED BY <1>2, <1>3, <1>4, <1>5 DEF Opened

(* open, as a call, keeps the invariant and is a step of Attributes.       *)
LEMMA OpenCallOK ==
    ASSUME AttributesFit, Inv, ~x.lossy, NEW i \in InUse, NEW root \in BOOLEAN,
           NEW n \in Writes, Open(i, root, n)
    PROVE  Inv' /\ ~x'.lossy /\ Abs!Next
<1> DEFINE u == open(Begin(n), i)
           f == u.opened[i]
           g == Marked(f, ~root)
           v == [u EXCEPT !.opened[i] = g]
           w == [v EXCEPT !.fh[i] = x.fh[i] + 1]
<1>0. i \in Ino /\ x \in State /\ x.fh[i] + 1 \in 0 .. MaxHandles /\ x.fh[i] + 1 > 0
  <2>1. i \in Ino /\ x \in State
    BY DEF InUse, Inv
  <2>2. x.fh[i] \in 0 .. MaxHandles /\ x.fh[i] < MaxHandles
    BY <2>1, FilesOf DEF Open
  <2> QED BY <2>1, <2>2, Constants
<1>1. /\ During(u) /\ Tidy(u, {i})
      /\ u.ok => u.opened[i] # Nil /\ u.closing = <<>>
  BY <1>0, OpenDuring
<1>2. Ended(IF u.ok THEN [u EXCEPT !.fh[i] = @ + 1, !.opened[i].dirty = @ \/ ~root] ELSE u, Ok)
  BY DEF Open
<1> HIDE DEF u
<1>3. u \in State /\ u.fh = x.fh
  BY <1>1 DEF During, Sound
<1>4. CASE ~u.ok
  BY <1>1, <1>2, <1>4, CutOK
<1>5. CASE u.ok
  <2>1. Sound(u, crashes, x.entry) /\ u.opened[i] # Nil /\ f \in Opened
    BY <1>0, <1>1, <1>5, FilesOf DEF During, Sound
  <2>2. [u EXCEPT !.fh[i] = @ + 1, !.opened[i].dirty = @ \/ ~root] = w
    BY <1>0, <1>3, Fields DEF State, Marked
  <2>3. /\ g \in Opened /\ g.nlink = f.nlink /\ g.xattr_ptr = f.xattr_ptr /\ g.xattr = f.xattr
        /\ ~g.dirty => ~f.dirty
    BY <2>1, MarkedOf
  <2>4. crashes /\ u.left # 0 /\ g.xattr = NoAttrs => g.xattr_ptr = 0
    BY <2>1, <2>3, <1>0 DEF Sound, Live, Cached
  <2> HIDE DEF g
  <2>5. /\ Sound(v, crashes, x.entry) /\ v.left = u.left /\ v.ok = u.ok /\ Alike(u, v)
        /\ v.opened[i] = g /\ g # Nil
        /\ \A j \in Ino \ {i} : v.opened[j] = u.opened[j] /\ SeenIn(v, j) = SeenIn(u, j)
        /\ \A j \in Ino : SavedIn(v, j) = SavedIn(u, j)
        /\ SeenIn(v, i) = g.xattr
    <3>1. /\ g \in Opened /\ g.xattr_ptr = u.opened[i].xattr_ptr
          /\ g.nlink = u.opened[i].nlink
          /\ ~g.dirty => ~u.opened[i].dirty /\ g.xattr = u.opened[i].xattr
          /\ Sound(u, crashes, x.entry) /\ i \in Ino /\ u.opened[i] # Nil
      BY <2>1, <2>3, <1>0
    <3> HIDE DEF f
    <3> QED BY ONLY <3>1, <2>4, EditOK DEF v
  <2> HIDE DEF v
  <2>6. /\ Sound(w, crashes, x.entry) /\ w.left = v.left /\ w.ok = v.ok
        /\ w.entry = v.entry /\ w.fh = [v.fh EXCEPT ![i] = x.fh[i] + 1]
        /\ w.failed = v.failed /\ w.lossy = v.lossy
        /\ w.inode = v.inode /\ w.opened = v.opened /\ w.closing = v.closing
        /\ \A j \in Ino : SavedIn(w, j) = SavedIn(v, j) /\ SeenIn(w, j) = SeenIn(v, j)
    <3>1. Sound(v, crashes, x.entry) /\ v.opened[i] # Nil
      BY <2>5
    <3> QED BY ONLY <3>1, <1>0, HandleOK DEF w
  <2> HIDE DEF w
  <2>7. Ended(w, Ok)
    BY <1>2, <1>5, <2>2
  <2>8. /\ w.entry = x.entry /\ w.fh = [x.fh EXCEPT ![i] = @ + 1] /\ w.failed = x.failed
        /\ ~w.lossy /\ w.ok /\ w.left = u.left
        /\ \A j \in Ino : SavedIn(w, j) = SavedIn(u, j) /\ SeenIn(w, j) = SeenIn(u, j)
    <3>1. SeenIn(u, i) = f.xattr
      BY <2>1 DEF SeenIn
    <3>2. \A j \in Ino : SeenIn(v, j) = SeenIn(u, j)
      BY <3>1, <2>3, <2>5
    <3> QED BY <3>2, <2>5, <2>6, <1>1, <1>5 DEF During, Alike
  <2>9. CASE u.left = 0
    <3>1. \A j \in Ino : \/ SavedIn(w, j) \in {SavedIn(x, j), SeenIn(x, j)}
                         \/ x.entry[j] = 0 /\ SavedIn(w, j) = NoAttrs
      BY <2>8, <1>1 DEF During, Calm, Kind
    <3> QED BY <3>1, <2>6, <2>7, <2>8, <2>9, CrashOK
  <2>10. CASE u.left # 0
    <3>1. Kept(w)
      <4> SUFFICES ASSUME w.ok, ~w.failed, w.left # 0, NEW j \in Ino, w.opened[j] # Nil
                   PROVE  w.fh[j] > 0
        BY DEF Kept
      <4>1. CASE j = i
        BY <4>1, <2>8, <1>0, Fields
      <4>2. CASE j # i
        <5>1. u.opened[j] # Nil /\ ~u.failed /\ u.fh[j] = w.fh[j]
          BY <4>2, <2>5, <2>6, <2>8, <1>0, <1>3, Fields DEF Alike
        <5> QED BY <5>1, <4>2, <2>10, <1>1, <1>5 DEF Tidy
      <4> QED BY <4>1, <4>2
    <3>2. /\ Inv' /\ ~x'.lossy /\ reply' = Ok /\ x'.failed = w.failed
          /\ x'.entry = w.entry /\ x'.fh = w.fh
          /\ \A j \in Ino : SavedIn(x', j) = SavedIn(w, j) /\ SeenIn(x', j) = SeenIn(w, j)
      BY <3>1, <2>6, <2>7, <2>8, <2>10, EndedDone
    <3>3. Abs!Quiet
      BY <3>2, <2>8, <2>10, <1>1, SameOf DEF During, Abs!Quiet
    <3>4. Abs!Open(i)
      BY <3>2, <3>3, <2>8 DEF Abs!Open, Ok, Abs!Ok
    <3> QED BY <3>2, <3>4, <1>0 DEF Abs!Next
  <2> QED BY <2>9, <2>10
<1> QED BY <1>4, <1>5

(* A file with a handle is in memory.                                      *)
LEMMA HandleOpen ==
    ASSUME Inv, ~x.lossy, NEW i \in Ino, x.fh[i] > 0
    PROVE  x.opened[i] # Nil
<1>1. Sound(x, crashes, x.entry) /\ x.left # 0
  BY Constants DEF Inv
<1> QED BY <1>1 DEF Sound, Live, Cached

(* flush keeps the invariant and is a step of Attributes.                  *)
LEMMA FlushCallOK ==
    ASSUME AttributesFit, Inv, ~x.lossy, NEW i \in InUse, NEW n \in Writes, Flush(i, n)
    PROVE  Inv' /\ ~x'.lossy /\ Abs!Next
<1> DEFINE s == Begin(n)
           u == flush(s, i)
           w == dropped(u, i)
<1>0. i \in Ino /\ x.fh[i] > 0 /\ x.opened[i] # Nil
  BY HandleOpen DEF InUse, Flush
<1>1. During(s) /\ Kept(s) /\ s.ok /\ s.opened = x.opened
  BY BeginOK
<1>2. Ended(w, Ok)
  BY DEF Flush
<1> HIDE DEF s
<1>3. Flushed(s, crashes, i, u, x.entry)
  BY <1>0, <1>1, FlushOK DEF During
<1> HIDE DEF u
<1>4. During(u)
  <2>1. Calm(x, u, x.entry)
    BY <1>1, <1>3, CalmTrans DEF During, Flushed
  <2> QED BY <2>1, <1>1, <1>3 DEF During, Flushed, Alike
<1>5. Kept(u)
  <2> SUFFICES ASSUME u.ok, ~u.failed, u.left # 0, NEW j \in Ino, u.opened[j] # Nil
               PROVE  u.fh[j] > 0 \/ j \in Range(u.closing)
    BY DEF Kept
  <2>1. s.left # 0 /\ ~s.failed /\ u.fh = s.fh /\ u.closing = s.closing /\ s.fh = x.fh
    BY <1>1, <1>3 DEF Flushed, Calm, Alike, During
  <2>2. CASE j = i
    BY <2>1, <2>2, <1>0
  <2>3. CASE j # i
    <3>1. s.opened[j] # Nil
      BY <2>3, <1>3 DEF Flushed
    <3> QED BY <3>1, <2>1, <1>1 DEF Kept
  <2> QED BY <2>2, <2>3
<1>6. /\ During(w) /\ w.left = u.left /\ w.ok = u.ok /\ Kept(w)
      /\ \A j \in Ino : SavedIn(w, j) = SavedIn(u, j) /\ SeenIn(w, j) = SeenIn(u, j)
  BY <1>0, <1>4, <1>5, DropDuring
<1> HIDE DEF w
<1>7. CASE ~w.ok \/ w.left = 0
  BY <1>2, <1>6, <1>7, CutOK
<1>8. CASE w.ok /\ w.left # 0
  <2>1. /\ Inv' /\ ~x'.lossy /\ reply' = Ok /\ Abs!Fine /\ Abs!Quiet
        /\ \A j \in Ino : SavedIn(x', j) = SavedIn(w, j) /\ SeenIn(x', j) = SeenIn(w, j)
    BY <1>2, <1>6, <1>8, QuietOK
  <2>2. ASSUME x.entry[i] > 0 PROVE Saved'[i] = Seen[i]
    <3>1. Cached(u, crashes, i, x.entry) /\ u.entry = x.entry
      BY <1>0, <1>4, <1>6, <1>8 DEF During, Sound, Live
    <3>2. u.opened[i] # Nil /\ ~u.opened[i].dirty
      BY <3>1, <2>2, <1>3, <1>6, <1>8 DEF Flushed, Cached, NlinkIn
    <3>3. SavedIn(u, i) = SeenIn(u, i)
      BY <3>1, <3>2 DEF Cached, SeenIn
    <3>4. SeenIn(u, i) = SeenIn(x, i)
      BY <1>4, <1>6, <1>8, InUseSeen DEF During
    <3> QED BY <3>3, <3>4, <2>1, <1>0, <1>6, SeenSaved, SeenSavedNext
  <2>3. Abs!Flush(i)
    BY <2>1, <2>2, <1>0 DEF Abs!Flush, Ok, Abs!Ok
  <2> QED BY <2>1, <2>3, <1>0 DEF Abs!Next
<1> QED BY <1>7, <1>8

(* A kind state, for a file with or without the handle that is released.   *)
LEMMA ReleasedKind ==
    ASSUME NEW s, NEW t, NEW u, NEW j, Kind(t, u, j, s.entry), t.entry = s.entry,
           SavedIn(t, j) = SavedIn(s, j), SeenIn(t, j) = SeenIn(s, j)
    PROVE  /\ \/ SavedIn(u, j) \in {SavedIn(s, j), SeenIn(s, j)}
              \/ s.entry[j] = 0 /\ SavedIn(u, j) = NoAttrs
           /\ u.left # 0 =>
                \/ SeenIn(u, j) = SeenIn(s, j) /\ SavedIn(u, j) \in {SavedIn(s, j), SeenIn(s, j)}
                \/ /\ s.entry[j] = 0 /\ t.fh[j] = 0
                   /\ SavedIn(u, j) = NoAttrs /\ SeenIn(u, j) = NoAttrs
  BY DEF Kind

(* release keeps the invariant and is a step of Attributes.                *)
LEMMA ReleaseOK ==
    ASSUME AttributesFit, Inv, ~x.lossy, NEW i \in InUse, NEW n \in Writes, Release(i, n)
    PROVE  Inv' /\ ~x'.lossy /\ Abs!Next
<1> DEFINE s == Begin(n)
           u == [s EXCEPT !.fh[i] = x.fh[i] - 1]
           v == dropped(u, i)
           w == close_files_in_list(v)
<1>0. /\ i \in Ino /\ x.opened[i] # Nil /\ x.fh[i] > 0 /\ x \in State
      /\ x.fh[i] - 1 \in 0 .. MaxHandles
  <2>1. i \in Ino /\ x.opened[i] # Nil /\ x.fh[i] > 0 /\ x \in State
    BY HandleOpen DEF InUse, Release, Inv
  <2>2. x.fh[i] \in 0 .. MaxHandles
    BY <2>1, FilesOf
  <2> QED BY <2>1, <2>2, Constants
<1>1. During(s) /\ Kept(s) /\ s.ok /\ s.opened = x.opened
  BY BeginOK
<1>2. Ended(w, Ok)
  <2>1. s.fh = x.fh /\ s \in State
    BY <1>1 DEF During, Sound
  <2>2. [s EXCEPT !.fh[i] = @ - 1] = u
    BY <2>1
  <2> QED BY <2>2 DEF Release
<1> HIDE DEF s
<1>3. /\ Sound(u, crashes, x.entry) /\ u.left = s.left /\ u.ok = s.ok
      /\ u.entry = s.entry /\ u.fh = [s.fh EXCEPT ![i] = x.fh[i] - 1]
      /\ u.failed = s.failed /\ u.lossy = s.lossy
      /\ u.inode = s.inode /\ u.opened = s.opened /\ u.closing = s.closing
      /\ \A j \in Ino : SavedIn(u, j) = SavedIn(s, j) /\ SeenIn(u, j) = SeenIn(s, j)
  <2> DEFINE h == x.fh[i] - 1
  <2>1. /\ Sound(s, crashes, x.entry) /\ (h > 0 => s.opened[i] # Nil)
        /\ i \in Ino /\ h \in 0 .. MaxHandles
    BY <1>0, <1>1 DEF During
  <2>2. u = [s EXCEPT !.fh[i] = h]
    OBVIOUS
  <2> HIDE DEF u, h
  <2>3. u.fh = [s.fh EXCEPT ![i] = h] => u.fh = [s.fh EXCEPT ![i] = x.fh[i] - 1]
    BY DEF h
  <2> QED BY ONLY <2>1, <2>2, <2>3, HandleOK
<1> HIDE DEF u
<1>4. /\ Sound(v, crashes, x.entry) /\ v.left = u.left /\ v.ok = u.ok
      /\ v.entry = u.entry /\ v.fh = u.fh /\ v.failed = u.failed /\ v.lossy = u.lossy
      /\ v.opened = u.opened
      /\ i \in Range(v.closing) /\ Range(u.closing) \subseteq Range(v.closing)
      /\ \A j \in Ino : SavedIn(v, j) = SavedIn(u, j) /\ SeenIn(v, j) = SeenIn(u, j)
  <2>1. Drops(u, crashes, i, v, x.entry)
    BY <1>0, <1>3, DroppedOK
  <2> HIDE DEF v
  <2> QED BY <2>1 DEF Drops
<1> HIDE DEF v
<1>5. Worked(v, crashes, w, x.entry)
  BY <1>1, <1>3, <1>4, CloseListOK
<1> HIDE DEF w
<1>6. /\ v.entry = x.entry /\ v.fh = [x.fh EXCEPT ![i] = @ - 1] /\ v.failed = x.failed
      /\ ~v.lossy /\ v.ok
  BY <1>1, <1>3, <1>4 DEF During
<1>7. \A j \in Ino : SavedIn(v, j) = SavedIn(x, j) /\ SeenIn(v, j) = SeenIn(x, j)
  <2>1. \A j \in Ino : SavedIn(s, j) = SavedIn(x, j) /\ SeenIn(s, j) = SeenIn(x, j)
    <3>1. s = [x EXCEPT !.left = n] /\ x \in State
      BY DEF s, Begin, Inv
    <3>2. s.blk = x.blk /\ s.inode = x.inode /\ s.opened = x.opened
      BY <3>1 DEF State
    <3> QED BY <3>2 DEF SavedIn, SeenIn, Ptr
  <2> QED BY <2>1, <1>3, <1>4
<1>8. Kept(v)
  <2> SUFFICES ASSUME v.ok, ~v.failed, v.left # 0, NEW j \in Ino, v.opened[j] # Nil
               PROVE  v.fh[j] > 0 \/ j \in Range(v.closing)
    BY DEF Kept
  <2>1. s.closing \in Seq(Ino) /\ s.fh \in [Ino -> 0 .. MaxHandles]
    BY <1>1, Fields DEF During, Sound
  <2>2. i \in Range(v.closing) /\ Range(s.closing) \subseteq Range(v.closing)
    BY <1>3, <1>4
  <2>3. CASE j = i
    BY <2>2, <2>3
  <2>4. CASE j # i
    <3>1. s.opened[j] # Nil /\ s.left # 0 /\ ~s.failed /\ v.fh[j] = s.fh[j]
      BY <2>1, <2>4, <1>3, <1>4
    <3> QED BY <3>1, <2>2, <1>1 DEF Kept
  <2> QED BY <2>3, <2>4
<1>9. /\ Sound(w, crashes, x.entry) /\ w.entry = x.entry /\ w.fh = v.fh /\ w.failed = x.failed
      /\ ~w.lossy /\ Tidy(w, {}) /\ Kept(w)
  <2>1. Tidy(w, {})
    BY <1>5, <1>6, <1>8, WorkedTidy
  <2>2. Kept(w)
    BY <2>1 DEF Tidy, Kept
  <2> QED BY <2>1, <2>2, <1>5, <1>6 DEF Worked
<1>10. \A j \in Ino :
        /\ \/ SavedIn(w, j) \in {SavedIn(x, j), SeenIn(x, j)}
           \/ x.entry[j] = 0 /\ SavedIn(w, j) = NoAttrs
        /\ w.left # 0 =>
             \/ SeenIn(w, j) = SeenIn(x, j) /\ SavedIn(w, j) \in {SavedIn(x, j), SeenIn(x, j)}
             \/ /\ x.entry[j] = 0 /\ v.fh[j] = 0
                /\ SavedIn(w, j) = NoAttrs /\ SeenIn(w, j) = NoAttrs
  <2> TAKE j \in Ino
  <2>1. /\ Kind(v, w, j, x.entry) /\ v.entry = x.entry
        /\ SavedIn(v, j) = SavedIn(x, j) /\ SeenIn(v, j) = SeenIn(x, j)
    BY <1>5, <1>6, <1>7 DEF Worked, Calm
  <2> QED BY ONLY <2>1, ReleasedKind
<1>11. CASE w.left = 0
  BY <1>2, <1>9, <1>10, <1>11, CrashOK
<1>12. CASE w.left # 0
  <2> DEFINE Ends == /\ Inv' /\ ~x'.lossy /\ x'.entry = x.entry /\ x'.fh = v.fh
                     /\ \A j \in Ino : SavedIn(x', j) = SavedIn(w, j) /\ SeenIn(x', j) = SeenIn(w, j)
  <2>1. /\ Ends /\ reply' \in {Ok, Error} /\ x'.failed = (x.failed \/ reply' = Error)
        /\ ~x'.failed => \A j \in Ino : v.fh[j] = 0 => SavedIn(w, j) = SeenIn(w, j)
    <3>1. CASE ~w.ok
      <4>1. Ends /\ reply' = Error /\ x'.failed
        BY <3>1, <1>2, <1>9, <1>12, EndedFailed
      <4>2. x' \in State
        BY <4>1 DEF Inv
      <4>3. x'.failed = TRUE
        BY <4>1, <4>2, Fields
      <4> HIDE DEF Ends
      <4> QED BY <4>1, <4>3
    <3>2. CASE w.ok
      <4>1. Ends /\ reply' = Ok /\ x'.failed = x.failed
        BY <3>2, <1>2, <1>9, <1>12, EndedDone
      <4>2. reply' # Error
        BY <4>1 DEF Ok, Error
      <4>3. \A j \in Ino : ~x'.failed /\ v.fh[j] = 0 => SavedIn(w, j) = SeenIn(w, j)
        <5> SUFFICES ASSUME NEW j \in Ino, ~x'.failed, v.fh[j] = 0
                     PROVE  SavedIn(w, j) = SeenIn(w, j)
          OBVIOUS
        <5>1. w.opened[j] = Nil
          BY <4>1, <3>2, <1>9, <1>12 DEF Tidy
        <5> QED BY <5>1 DEF SeenIn
      <4>4. x.failed \in BOOLEAN
        BY <1>0, Fields
      <4> HIDE DEF Ends
      <4> QED BY <4>1, <4>2, <4>3, <4>4
    <3> QED BY <3>1, <3>2
  <2>2. ASSUME NEW j \in Ino
        PROVE  \/ Abs!Becomes(j, Seen[j])
               \/ /\ x.entry[j] = 0 /\ x'.fh[j] = 0
                  /\ Seen'[j] = NoAttrs /\ Saved'[j] = NoAttrs
    BY <2>1, <1>10, <1>12, SeenSaved, SeenSavedNext DEF Abs!Becomes
  <2>3. ~x'.failed => \A j \in Ino : x'.fh[j] = 0 => Saved'[j] = Seen'[j]
    BY <2>1, SeenSavedNext
  <2>4. x'.fh = [x.fh EXCEPT ![i] = @ - 1]
    BY <2>1, <1>6
  <2> HIDE DEF Ends
  <2>5. Abs!Release(i)
    BY <2>1, <2>2, <2>3, <2>4, <1>0
       DEF Ends, Abs!Release, Ok, Abs!Ok, Error, Abs!Error, NoAttrs, Abs!NoAttrs
  <2> QED BY <2>1, <2>5, <1>0 DEF Abs!Next, Ends
<1> QED BY <1>11, <1>12

-----------------------------------------------------------------------------
(***************************************************************************)
(* Names.  If the directory is in opened_dirs, a call works off the close  *)
(* list only after it has changed a name, and may fail there.              *)
(***************************************************************************)
(* A file with a changed link count.                                       *)
Relinked(f, n) == [f EXCEPT !.nlink = n, !.dirty = TRUE]

(* What setting the link count of an inode in memory leaves alone.         *)
LEMMA RelinkedOf ==
    ASSUME NEW f \in Opened, NEW n \in 0 .. MaxLinks
    PROVE  /\ Relinked(f, n) \in Opened /\ Relinked(f, n).nlink = n
           /\ Relinked(f, n).xattr_ptr = f.xattr_ptr /\ Relinked(f, n).xattr = f.xattr
           /\ Relinked(f, n).dirty
  BY DEF Relinked, Opened

(* Changing the number of names of a file.                                 *)
LEMMA SetEntry ==
    ASSUME NEW s \in State, NEW i \in Ino, NEW n \in 0 .. MaxLinks
    PROVE  LET t == [s EXCEPT !.entry[i] = n]
           IN  /\ t \in State /\ t.closing = s.closing /\ t.left = s.left /\ t.ok = s.ok
               /\ t.free = s.free /\ t.dfree = s.dfree /\ t.blk = s.blk
               /\ t.inode = s.inode /\ t.opened = s.opened
               /\ t.entry = [s.entry EXCEPT ![i] = n]
               /\ t.fh = s.fh /\ t.failed = s.failed /\ t.lossy = s.lossy
  BY DEF State

(* The call has failed with a name changed and the link count not.         *)
LEMMA SetLossy ==
    ASSUME NEW s \in State
    PROVE  LET t == [s EXCEPT !.lossy = TRUE]
           IN  /\ t \in State /\ t.lossy /\ t.left = s.left /\ t.ok = s.ok
               /\ t.free = s.free /\ t.dfree = s.dfree /\ t.blk = s.blk
               /\ t.inode = s.inode /\ t.opened = s.opened /\ t.entry = s.entry
               /\ t.fh = s.fh /\ t.failed = s.failed
  BY DEF State

(* The link count of a file in memory becomes k, as its number of names    *)
(* has before.                                                             *)
LEMMA CountOK ==
    ASSUME NEW s, NEW c, NEW names, Sound(s, c, names), ~c, NEW i \in Ino,
           s.opened[i] # Nil, NEW k \in 0 .. MaxLinks,
           NEW m, m[i] = k, \A j \in Ino \ {i} : m[j] = names[j]
    PROVE  LET v == [s EXCEPT !.opened[i] = Relinked(s.opened[i], k)]
           IN  /\ Sound(v, c, m) /\ Alike(s, v) /\ v.left = s.left /\ v.ok = s.ok
               /\ v.inode = s.inode /\ \A j \in Ino \ {i} : v.opened[j] = s.opened[j]
               /\ \A j \in Ino : SavedIn(v, j) = SavedIn(s, j) /\ SeenIn(v, j) = SeenIn(s, j)
<1> DEFINE f == s.opened[i]
           g == Relinked(f, k)
           v == [s EXCEPT !.opened[i] = g]
<1>1. s \in State /\ s.left # 0 /\ s.left < 0 /\ Live(s, c, names) /\ Disk(s, c, names)
  <2>1. s \in State /\ s.left < 0 /\ Disk(s, c, names) /\ (s.left # 0 => Live(s, c, names))
    BY DEF Sound
  <2>2. s.left \in Int
    BY <2>1, Fields
  <2>3. s.left # 0
    BY <2>1, <2>2
  <2> QED BY <2>1, <2>3
<1>2. f \in Opened /\ f.xattr_ptr = Ptr(s, i)
  BY <1>1, FilesOf DEF Live, Cached
<1>3. /\ g \in Opened /\ g.nlink = k /\ g.xattr_ptr = f.xattr_ptr /\ g.xattr = f.xattr
      /\ g.dirty /\ g # Nil
  <2>1. /\ g \in Opened /\ g.nlink = k /\ g.xattr_ptr = f.xattr_ptr /\ g.xattr = f.xattr
        /\ g.dirty
    BY <1>2, RelinkedOf
  <2> QED BY <2>1, Constants
<1> HIDE DEF g
<1>4. /\ v \in State /\ Alike(s, v) /\ v.left = s.left /\ v.ok = s.ok
      /\ v.free = s.free /\ v.dfree = s.dfree /\ v.blk = s.blk
      /\ v.inode = s.inode /\ v.opened[i] = g
      /\ \A j \in Ino \ {i} : v.opened[j] = s.opened[j]
  <2>1. s \in State /\ i \in Ino /\ g \in Opened \union {Nil}
    BY <1>1, <1>3
  <2> QED BY ONLY <2>1, SetOpened DEF v
<1> HIDE DEF v
<1>5. \A j \in Ino : Ptr(v, j) = Ptr(s, j) /\ SavedIn(v, j) = SavedIn(s, j)
  BY <1>4 DEF Ptr, SavedIn
<1>6. Cached(v, c, i, m) /\ SeenIn(v, i) = SeenIn(s, i)
  <2>1. Cached(v, c, i, m)
    BY <1>2, <1>3, <1>4, <1>5 DEF Cached, NlinkIn
  <2>2. SeenIn(v, i) = SeenIn(s, i)
    BY <1>3, <1>4 DEF SeenIn
  <2> QED BY <2>1, <2>2
<1>7. \A j \in Ino \ {i} : Cached(v, c, j, m) /\ SeenIn(v, j) = SeenIn(s, j)
  <2> TAKE j \in Ino \ {i}
  <2>1. SeenIn(v, j) = SeenIn(s, j)
    BY <1>4, <1>5 DEF SeenIn
  <2>2. Cached(s, c, j, names) /\ m[j] = names[j] /\ v.fh[j] = s.fh[j]
    BY <1>1, <1>4 DEF Live, Alike
  <2> QED BY <2>1, <2>2, <1>4, <1>5 DEF Cached, NlinkIn
<1>8. Disk(v, c, m)
  BY <1>1, <1>4, <1>5 DEF Disk
<1>9. Live(v, c, m)
  <2>1. \A j \in Ino : Cached(v, c, j, m)
    BY <1>6, <1>7
  <2>2. \A b \in Block : b \in Range(v.free) \/ \E j \in Ino : Ptr(v, j) = b
    BY <1>1, <1>4, <1>5 DEF Live
  <2> QED BY <2>1, <2>2, <1>1, <1>4 DEF Live
<1>10. Sound(v, c, m)
  BY <1>1, <1>4, <1>8, <1>9 DEF Sound
<1> QED BY <1>4, <1>5, <1>6, <1>7, <1>10 DEF v, g

(* link and unlink: file i has k names, and as many links if they do not   *)
(* fail.                                                                   *)
Renamed(s, c, i, k, t) ==
    /\ t.entry = [s.entry EXCEPT ![i] = k] /\ t.fh = s.fh /\ t.failed = s.failed
    /\ t.left # 0 /\ Calm(s, t, s.entry)
    /\ t.ok => Sound(t, c, t.entry) /\ Kept(t) /\ t.lossy = s.lossy
    /\ ~t.ok => Sound(t, c, s.entry) /\ t.lossy

(* The link count of a file follows its number of names, if open does not  *)
(* fail.                                                                   *)
LEMMA RelinkOK ==
    ASSUME AttributesFit, NEW s, NEW c, Sound(s, c, s.entry), ~c, s.ok, Kept(s), NEW i \in Ino,
           NEW n \in {1, -1}, NEW k \in 0 .. MaxLinks, k = s.entry[i] + n,
           NEW e, e = [s EXCEPT !.entry[i] = k], NEW t, t = ChangeNlink(e, i, n)
    PROVE  Renamed(s, c, i, k, t)
<1> DEFINE u == open(e, i)
           f == u.opened[i]
           g == Relinked(f, k)
           v == [u EXCEPT !.opened[i] = g]
           l == [u EXCEPT !.lossy = TRUE]
<1>1. /\ e \in State /\ e.closing = s.closing /\ e.left = s.left /\ e.ok = s.ok
      /\ e.free = s.free /\ e.dfree = s.dfree /\ e.blk = s.blk
      /\ e.inode = s.inode /\ e.opened = s.opened /\ e.entry = [s.entry EXCEPT ![i] = k]
      /\ e.fh = s.fh /\ e.failed = s.failed /\ e.lossy = s.lossy
  <2>1. s \in State
    BY DEF Sound
  <2>2. i \in Ino /\ k \in 0 .. MaxLinks /\ e = [s EXCEPT !.entry[i] = k]
    OBVIOUS
  <2> QED BY ONLY <2>1, <2>2, SetEntry
<1>2. Sound(e, c, s.entry) /\ Calm(s, e, s.entry) /\ Kept(e)
  <2>1. Sound(e, c, s.entry) /\ Calm(s, e, s.entry)
    BY <1>1, SoundSame
  <2> QED BY <2>1, <1>1 DEF Kept
<1>3. Opens(e, c, i, u, s.entry)
  BY <1>1, <1>2, OpenOK
<1>4. t = IF u.ok
          THEN dropped([u EXCEPT !.opened[i].nlink = @ + n, !.opened[i].dirty = TRUE], i)
          ELSE l
  BY DEF ChangeNlink
<1> HIDE DEF u
<1>5. /\ Sound(u, c, s.entry) /\ Tidy(u, {i}) /\ u.entry = [s.entry EXCEPT ![i] = k]
      /\ u.fh = s.fh /\ u.failed = s.failed /\ u.lossy = s.lossy
      /\ u.ok => u.opened[i] # Nil /\ u.closing = <<>>
  BY <1>1, <1>3 DEF Opens
<1>6. Calm(s, u, s.entry)
  <2>1. Calm(e, u, s.entry)
    BY <1>3 DEF Opens
  <2> QED BY <2>1, <1>1, <1>2, CalmTrans
<1>7. u \in State /\ u.left < 0 /\ u.left # 0
  <2>1. u \in State /\ u.left < 0
    BY <1>5 DEF Sound
  <2>2. u.left \in Int
    BY <2>1, Fields
  <2> QED BY <2>1, <2>2
<1>8. CASE ~u.ok
  <2>1. /\ l \in State /\ l.lossy /\ l.left = u.left /\ l.ok = u.ok
        /\ l.free = u.free /\ l.dfree = u.dfree /\ l.blk = u.blk
        /\ l.inode = u.inode /\ l.opened = u.opened /\ l.entry = u.entry
        /\ l.fh = u.fh /\ l.failed = u.failed
    BY ONLY <1>7, SetLossy
  <2>2. t = l
    BY <1>4, <1>8
  <2> HIDE DEF l
  <2>3. Sound(l, c, s.entry) /\ Calm(u, l, s.entry)
    BY <2>1, <1>5, SoundSame
  <2>4. Calm(s, l, s.entry)
    BY <2>3, <1>5, <1>6, CalmTrans
  <2> QED BY <2>1, <2>2, <2>3, <2>4, <1>5, <1>7, <1>8 DEF Renamed
<1>9. CASE u.ok
  <2>1. f \in Opened /\ f.nlink = s.entry[i]
    BY <1>5, <1>7, <1>9, FilesOf DEF Sound, Live, Cached, NlinkIn
  <2>2. [u EXCEPT !.opened[i].nlink = @ + n, !.opened[i].dirty = TRUE] = v
    <3>1. [u EXCEPT !.opened[i].nlink = @ + n, !.opened[i].dirty = TRUE]
            = [u EXCEPT !.opened[i] = Relinked(f, f.nlink + n)]
      BY <1>7, <2>1 DEF State, Relinked, Opened
    <3>2. f.nlink + n = k
      BY <2>1
    <3> QED BY <3>1, <3>2
  <2>3. s.entry \in [Ino -> 0 .. MaxLinks]
    BY Fields DEF Sound
  <2>4. u.entry[i] = k /\ \A j \in Ino \ {i} : u.entry[j] = s.entry[j]
    BY <2>3, <1>5
  <2>5. /\ Sound(v, c, u.entry) /\ Alike(u, v) /\ v.left = u.left /\ v.ok = u.ok
        /\ v.inode = u.inode /\ \A j \in Ino \ {i} : v.opened[j] = u.opened[j]
        /\ \A j \in Ino : SavedIn(v, j) = SavedIn(u, j) /\ SeenIn(v, j) = SeenIn(u, j)
    <3>1. /\ Sound(u, c, s.entry) /\ ~c /\ i \in Ino /\ u.opened[i] # Nil /\ k \in 0 .. MaxLinks
          /\ u.entry[i] = k /\ \A j \in Ino \ {i} : u.entry[j] = s.entry[j]
      BY <2>4, <1>5, <1>9
    <3> QED BY ONLY <3>1, CountOK DEF v, g, f
  <2>6. t = dropped(v, i)
    BY <2>2, <1>4, <1>9
  <2> HIDE DEF v
  <2>7. /\ Sound(t, c, u.entry) /\ t.left = v.left /\ t.ok = v.ok
        /\ t.entry = v.entry /\ t.fh = v.fh /\ t.failed = v.failed /\ t.lossy = v.lossy
        /\ \A j \in Ino : SavedIn(t, j) = SavedIn(v, j) /\ SeenIn(t, j) = SeenIn(v, j)
        /\ v.closing = <<>> /\ Tidy(v, {i}) => Kept(t)
    <3>1. Drops(v, c, i, t, u.entry)
      BY <2>5, <2>6, DroppedOK
    <3> QED BY <3>1 DEF Drops
  <2>8. Kept(t)
    <3>1. v.closing = <<>> /\ Tidy(v, {i})
      BY <2>5, <1>5, <1>9 DEF Tidy, Alike
    <3> QED BY <3>1, <2>7
  <2>9. Calm(s, t, s.entry)
    <3>1. \A j \in Ino : SavedIn(t, j) = SavedIn(u, j) /\ SeenIn(t, j) = SeenIn(u, j)
      BY <2>5, <2>7
    <3>2. Calm(u, t, s.entry)
      BY <3>1, <1>7 DEF Calm, Kind
    <3> QED BY <3>2, <1>5, <1>6, CalmTrans
  <2> QED BY <2>5, <2>7, <2>8, <2>9, <1>5, <1>7, <1>9 DEF Renamed, Alike
<1> QED BY <1>8, <1>9

(* What a call makes of link counts and names.                             *)
LEMMA LinksOf ==
    ASSUME Inv, ~x.lossy, NEW j \in Ino
    PROVE  Inode(j).nlink = x.entry[j] /\ x.entry[j] \in Nat
<1>1. Sound(x, crashes, x.entry) /\ x.left # 0 /\ x \in State
  BY Constants DEF Inv
<1>2. x.entry[j] \in Nat
  BY <1>1, FilesOf, Constants
<1> QED BY <1>1, <1>2 DEF Sound, Live, Cached, NlinkIn, Inode

(* Links follow names in a step that does not part them.                   *)
LEMMA FollowsOf ==
    ASSUME Inv, ~x.lossy, Inv', ~x'.lossy
    PROVE  Follows
<1> SUFFICES ASSUME NEW j \in Ino PROVE Surplus(j)' = Surplus(j)
  BY DEF Follows
<1>1. Surplus(j) = 0
  BY LinksOf DEF Surplus
<1>2. Sound(x', crashes', x'.entry) /\ x'.left # 0 /\ x' \in State
  BY Constants DEF Inv
<1>3. x'.entry[j] \in Nat
  BY <1>2, FilesOf, Constants
<1>4. NlinkIn(x', j) = x'.entry[j]
  BY <1>2 DEF Sound, Live, Cached
<1>5. Inode(j)'.nlink = NlinkIn(x', j)
  BY DEF Inode, NlinkIn
<1>6. Surplus(j)' = 0
  BY <1>3, <1>4, <1>5 DEF Surplus
<1> QED BY <1>1, <1>6

(* Steps of a call follow one another, the second after file j may have    *)
(* got a name.                                                             *)
LEMMA KindStep ==
    ASSUME NEW s, NEW t, NEW u, NEW j, s.left # 0, t.left # 0, u.left # 0,
           NEW k, NEW m, Kind(s, t, j, k), Kind(t, u, j, m), t.fh = s.fh,
           m[j] = k[j] \/ m[j] # 0
    PROVE  Kind(s, u, j, k)
  BY DEF Kind

(* A file whose attributes stay.                                           *)
LEMMA KindSame ==
    ASSUME NEW s, NEW t, NEW u, NEW j, t.left # 0, Kind(s, t, j, x.entry),
           SavedIn(u, j) = SavedIn(t, j), SeenIn(u, j) = SeenIn(t, j)
    PROVE  Kind(s, u, j, x.entry)
  BY DEF Kind

(* The call that led to state w has changed a name of file i.              *)
LEMMA RenameOK ==
    ASSUME Inv, ~x.lossy, ~crashes, NEW i \in Ino, NEW n \in {1, -1},
           NEW w, w.left # 0, w.lossy => Sound(w, crashes, x.entry) /\ ~w.ok,
           ~w.lossy => Sound(w, crashes, w.entry), w.ok => Kept(w),
           w.entry = [x.entry EXCEPT ![i] = x.entry[i] + n],
           w.fh = x.fh, w.failed = x.failed, \A j \in Ino : Kind(x, w, j, x.entry),
           Ended(w, Ok)
    PROVE  Inv' /\ Abs!Rename(i, n) /\ Follows
<1> DEFINE Ends == /\ Inv' /\ x'.lossy = w.lossy /\ x'.entry = w.entry /\ x'.fh = w.fh
                   /\ \A j \in Ino : SavedIn(x', j) = SavedIn(w, j) /\ SeenIn(x', j) = SeenIn(w, j)
<1>0. w \in State /\ x \in State /\ w.lossy \in BOOLEAN /\ x.failed \in BOOLEAN
  BY Fields DEF Sound, Inv
<1>1. /\ Ends /\ reply' \in {Ok, Error} /\ x'.failed = (x.failed \/ reply' = Error)
      /\ ~w.ok => reply' = Error /\ \A j \in Ino : NlinkIn(x', j) = NlinkIn(w, j)
  <2>1. CASE ~w.ok
    <3>1. /\ Inv' /\ x'.lossy = w.lossy /\ reply' = Error /\ x'.failed
          /\ x'.entry = w.entry /\ x'.fh = w.fh
          /\ \A j \in Ino : NlinkIn(x', j) = NlinkIn(w, j)
          /\ \A j \in Ino : SavedIn(x', j) = SavedIn(w, j) /\ SeenIn(x', j) = SeenIn(w, j)
      BY <2>1, EndedFailed
    <3>2. x' \in State
      BY <3>1 DEF Inv
    <3>3. x'.failed = TRUE
      BY <3>1, <3>2, Fields
    <3> QED BY <3>1, <3>3, <2>1
  <2>2. CASE w.ok
    <3>1. /\ Inv' /\ ~x'.lossy /\ reply' = Ok /\ x'.failed = w.failed
          /\ x'.entry = w.entry /\ x'.fh = w.fh
          /\ \A j \in Ino : SavedIn(x', j) = SavedIn(w, j) /\ SeenIn(x', j) = SeenIn(w, j)
      BY <2>2, EndedDone
    <3>2. reply' # Error
      BY <3>1 DEF Ok, Error
    <3>3. x'.lossy = w.lossy
      <4>1. x' \in State
        BY <3>1 DEF Inv
      <4>2. x'.lossy = FALSE /\ w.lossy = FALSE
        BY <4>1, <3>1, <2>2, <1>0, Fields
      <4> QED BY <4>2
    <3> QED BY <3>1, <3>2, <3>3, <2>2, <1>0
  <2> QED BY <2>1, <2>2
<1>2. Abs!Quiet
  <2> SUFFICES ASSUME NEW j \in Ino PROVE Abs!Same(j)
    BY DEF Abs!Quiet
  <2>1. Kind(x, w, j, x.entry)
    OBVIOUS
  <2> QED BY <2>1, <1>1, SeenSaved, SeenSavedNext
          DEF Kind, Abs!Same, Abs!Becomes, Abs!Reclaimed, NoAttrs, Abs!NoAttrs
<1>3. Abs!Rename(i, n)
  BY <1>1, <1>2 DEF Abs!Rename, Ok, Abs!Ok, Error, Abs!Error
<1>4. Follows
  <2>1. CASE ~w.lossy
    BY <2>1, <1>1, FollowsOf
  <2>2. CASE w.lossy
    <3> SUFFICES ASSUME NEW j \in Ino, Surplus(j)' # Surplus(j)
                 PROVE  /\ reply' = Error /\ x'.entry[j] # x.entry[j]
                        /\ Inode(j)'.nlink = Inode(j).nlink
      BY DEF Follows
    <3>1. Inode(j).nlink = x.entry[j] /\ x.entry[j] \in Nat
      BY LinksOf
    <3>2. Inode(j)'.nlink = x.entry[j]
      <4>1. NlinkIn(w, j) = x.entry[j]
        BY <2>2 DEF Sound, Live, Cached
      <4>2. Inode(j)'.nlink = NlinkIn(x', j)
        BY DEF Inode, NlinkIn
      <4> QED BY <4>1, <4>2, <2>2, <1>1
    <3>3. x'.entry[j] # x.entry[j]
      BY <3>1, <3>2 DEF Surplus
    <3> QED BY <3>1, <3>2, <3>3, <2>2, <1>1
  <2> QED BY <2>1, <2>2
<1> QED BY <1>1, <1>3, <1>4

(* open_dir works off the close list, or does nothing.                     *)
LEMMA OpenDirOK ==
    ASSUME AttributesFit, Inv, ~x.lossy, ~crashes, NEW there \in ParentOpen
    PROVE  LET t == open_dir(Begin(Lives), there)
           IN  /\ During(t) /\ t.left < 0 /\ t.left # 0 /\ Kept(t)
               /\ \A j \in Ino : x.opened[j] = Nil =>
                    t.opened[j] = Nil /\ t.inode[j] = x.inode[j]
<1> DEFINE s == Begin(Lives)
           t == open_dir(s, there)
           u == close_files_in_list(s)
<1>1. /\ During(s) /\ Kept(s) /\ s.ok /\ s.left = Lives
      /\ s.opened = x.opened /\ s.inode = x.inode
  BY BeginOK DEF Writes
<1>2. Lives < 0 /\ Lives # 0
  BY Constants
<1>3. CASE there
  <2>1. t = s
    BY <1>3 DEF open_dir
  <2> QED BY <2>1, <1>1, <1>2
<1>4. CASE ~there
  <2>1. t = u
    BY <1>4 DEF open_dir
  <2> HIDE DEF s
  <2>2. Worked(s, crashes, u, x.entry)
    BY <1>1, CloseListOK DEF During
  <2> HIDE DEF u
  <2>3. Kept(u)
    <3>1. Tidy(u, {})
      BY <1>1, <2>2, WorkedTidy
    <3> QED BY <3>1 DEF Tidy, Kept
  <2>4. During(u)
    <3>1. Calm(x, u, x.entry)
      BY <1>1, <2>2, CalmTrans DEF During, Worked
    <3> QED BY <3>1, <1>1, <2>2 DEF During, Worked
  <2>5. u.left < 0 /\ u.left # 0
    <3>1. u.left < 0 /\ u.left \in Int
      BY <2>4, Fields DEF During, Sound
    <3> QED BY <3>1
  <2>6. \A j \in Ino : x.opened[j] = Nil => u.opened[j] = Nil /\ u.inode[j] = x.inode[j]
    BY <1>1, <2>2 DEF Worked
  <2> QED BY <2>1, <2>3, <2>4, <2>5, <2>6 DEF s
<1> QED BY <1>3, <1>4

(* From x, the names of file i change as link and unlink change them.      *)
LEMMA RenamedOK ==
    ASSUME Inv, NEW t, During(t), NEW i \in Ino, NEW k, NEW v,
           Renamed(t, crashes, i, k, v)
    PROVE  /\ v.entry = [x.entry EXCEPT ![i] = k] /\ v.fh = x.fh /\ v.failed = x.failed
           /\ v.left # 0 /\ (\A j \in Ino : Kind(x, v, j, x.entry))
           /\ v.ok => Sound(v, crashes, v.entry) /\ Kept(v) /\ ~v.lossy
           /\ ~v.ok => Sound(v, crashes, x.entry) /\ v.lossy
<1>1. Calm(x, t, x.entry) /\ t.fh = x.fh /\ t.entry = x.entry /\ t.failed = x.failed /\ ~t.lossy
  BY DEF During
<1>2. Calm(t, v, x.entry)
  BY <1>1 DEF Renamed
<1>3. Calm(x, v, x.entry)
  BY <1>1, <1>2, CalmTrans
<1> QED BY <1>1, <1>3 DEF Calm, Renamed

(* unlink keeps the invariant and is a step of Attributes.                 *)
LEMMA UnlinkOK ==
    ASSUME AttributesFit, Inv, ~x.lossy, ~crashes, NEW i \in InUse, NEW there \in ParentOpen,
           Unlink(i, there)
    PROVE  Inv' /\ Abs!Next /\ Follows
<1> DEFINE t == open_dir(Begin(Lives), there)
           k == x.entry[i] + (-1)
           e == [t EXCEPT !.entry[i] = k]
           w == ChangeNlink(e, i, -1)
<1>0. i \in Ino /\ x \in State /\ k \in 0 .. MaxLinks /\ x.entry[i] > 0
  <2>1. i \in Ino /\ x \in State /\ x.entry[i] > 0
    BY DEF InUse, Inv, Unlink
  <2>2. x.entry[i] \in 0 .. MaxLinks
    BY <2>1, FilesOf
  <2> QED BY <2>1, <2>2, Constants
<1>1. During(t) /\ t.left # 0 /\ Kept(t)
  BY OpenDirOK
<1>2. Ended(IF t.ok THEN unlink(t, i) ELSE t, Ok)
  BY DEF Unlink
<1> HIDE DEF t
<1>3. CASE ~t.ok
  <2>1. Inv' /\ ~x'.lossy /\ Abs!Next
    BY <1>1, <1>2, <1>3, CutOK
  <2> QED BY <2>1, FollowsOf
<1>4. CASE t.ok
  <2>1. t \in State /\ t.entry = x.entry /\ Sound(t, crashes, t.entry)
    BY <1>1 DEF During, Sound
  <2>2. unlink(t, i) = w
    <3>1. x.entry[i] \in 0 .. MaxLinks
      BY <1>0, FilesOf
    <3>2. t.entry[i] - 1 = k
      BY <3>1, <2>1
    <3>3. [t EXCEPT !.entry[i] = @ - 1] = e
      BY <3>2
    <3> QED BY <3>3 DEF unlink
  <2> DEFINE d == -1
  <2>3. d \in {1, -1} /\ k = t.entry[i] + d /\ w = ChangeNlink(e, i, d)
    BY <2>1
  <2>4. Ended(w, Ok)
    BY <1>2, <1>4, <2>2
  <2>5. k = x.entry[i] + d
    OBVIOUS
  <2> HIDE DEF d, k, w
  <2>6. Renamed(t, crashes, i, k, w)
    BY <2>1, <2>3, <1>0, <1>1, <1>4, RelinkOK
  <2>7. /\ w.entry = [x.entry EXCEPT ![i] = k] /\ w.fh = x.fh /\ w.failed = x.failed
        /\ w.left # 0 /\ (\A j \in Ino : Kind(x, w, j, x.entry))
        /\ w.ok => Sound(w, crashes, w.entry) /\ Kept(w) /\ ~w.lossy
        /\ ~w.ok => Sound(w, crashes, x.entry) /\ w.lossy
    BY <2>6, <1>0, <1>1, RenamedOK
  <2>8. w.entry = [x.entry EXCEPT ![i] = x.entry[i] + d]
    BY <2>5, <2>7
  <2>9. Inv' /\ Abs!Rename(i, d) /\ Follows
    <3>1. /\ Inv /\ ~x.lossy /\ ~crashes /\ i \in Ino /\ d \in {1, -1} /\ w.left # 0
          /\ (w.lossy => Sound(w, crashes, x.entry) /\ ~w.ok)
          /\ (~w.lossy => Sound(w, crashes, w.entry)) /\ (w.ok => Kept(w))
          /\ w.entry = [x.entry EXCEPT ![i] = x.entry[i] + d]
          /\ w.fh = x.fh /\ w.failed = x.failed
          /\ (\A j \in Ino : Kind(x, w, j, x.entry)) /\ Ended(w, Ok)
      BY <2>3, <2>4, <2>7, <2>8, <1>0
    <3> QED BY ONLY <3>1, RenameOK
  <2>10. Abs!Unlink(i)
    BY <2>9, <1>0 DEF Abs!Unlink, d
  <2> QED BY <2>9, <2>10, <1>0 DEF Abs!Next
<1> QED BY <1>3, <1>4

(* link, and getattr at its end.                                           *)
LEMMA LinkedOK ==
    ASSUME AttributesFit, Inv, ~x.lossy, ~crashes, NEW i \in Ino,
           x.entry[i] + 1 \in 1 .. MaxLinks, NEW t, During(t), t.ok, Kept(t),
           LET v == link(t, i)
           IN  Ended(IF v.ok THEN getattr(v, i) ELSE v, Ok)
    PROVE  Inv' /\ Abs!Rename(i, 1) /\ Follows
<1> DEFINE k == x.entry[i] + 1
           e == [t EXCEPT !.entry[i] = k]
           v == ChangeNlink(e, i, 1)
           u == open(v, i)
           w == IF u.ok THEN dropped(u, i) ELSE u
<1>0. x.left # 0 /\ t.entry = x.entry /\ t \in State /\ Sound(t, crashes, t.entry)
      /\ k \in 0 .. MaxLinks /\ k # 0 /\ x \in State
  BY Constants DEF Inv, During, Sound
<1>1. link(t, i) = v
  BY <1>0 DEF link
<1>2. k = t.entry[i] + 1 /\ k = x.entry[i] + 1 /\ 1 \in {1, -1}
  BY <1>0
<1> HIDE DEF k
<1>3. Renamed(t, crashes, i, k, v)
  BY <1>0, <1>2, RelinkOK
<1>4. Ended(IF v.ok THEN w ELSE v, Ok)
  BY <1>1 DEF getattr
<1> HIDE DEF v
<1>5. /\ v.entry = [x.entry EXCEPT ![i] = k] /\ v.fh = x.fh /\ v.failed = x.failed
      /\ v.left # 0 /\ (\A j \in Ino : Kind(x, v, j, x.entry))
      /\ v.ok => Sound(v, crashes, v.entry) /\ Kept(v) /\ ~v.lossy
      /\ ~v.ok => Sound(v, crashes, x.entry) /\ v.lossy
  BY <1>3, RenamedOK
<1>6. v.entry = [x.entry EXCEPT ![i] = x.entry[i] + 1]
  BY <1>2, <1>5
<1>7. CASE ~v.ok
  BY <1>2, <1>4, <1>5, <1>6, <1>7, RenameOK
<1>8. CASE v.ok
  <2>1. Opens(v, crashes, i, u, v.entry)
    BY <1>5, <1>8, OpenOK
  <2> HIDE DEF u
  <2>2. /\ Sound(w, crashes, v.entry) /\ Calm(v, w, v.entry) /\ w.left = u.left /\ w.ok = u.ok
        /\ w.entry = v.entry /\ w.fh = v.fh /\ w.failed = v.failed /\ w.lossy = v.lossy
        /\ w.ok => Kept(w)
    <3>1. CASE ~u.ok
      BY <3>1, <2>1 DEF Opens
    <3>2. CASE u.ok
      <4> DEFINE d == dropped(u, i)
      <4>1. /\ Sound(d, crashes, v.entry) /\ Calm(u, d, v.entry) /\ d.left = u.left /\ d.ok = u.ok
            /\ d.entry = u.entry /\ d.fh = u.fh /\ d.failed = u.failed /\ d.lossy = u.lossy
            /\ u.closing = <<>> /\ Tidy(u, {i}) => Kept(d)
        <5>1. Drops(u, crashes, i, d, v.entry)
          BY <2>1, DroppedOK DEF Opens
        <5> HIDE DEF d
        <5> QED BY <5>1 DEF Drops
      <4> HIDE DEF d
      <4>2. Calm(v, d, v.entry)
        BY <4>1, <2>1, CalmTrans DEF Opens
      <4>3. w = d
        BY <3>2 DEF d
      <4> QED BY <4>1, <4>2, <4>3, <3>2, <2>1 DEF Opens
    <3> QED BY <3>1, <3>2
  <2> HIDE DEF w
  <2>3. w.left # 0
    BY <2>2, Fields DEF Sound
  <2>4. \A j \in Ino : Kind(x, w, j, x.entry)
    <3> TAKE j \in Ino
    <3>1. v.entry[j] = x.entry[j] \/ v.entry[j] # 0
      BY <1>0, <1>5, Fields
    <3>2. Kind(x, v, j, x.entry) /\ Kind(v, w, j, v.entry) /\ v.left # 0 /\ v.fh = x.fh
      BY <1>5, <2>2 DEF Calm
    <3> QED BY <3>1, <3>2, <1>0, <2>3, KindStep
  <2>5. /\ ~w.lossy /\ w.entry = [x.entry EXCEPT ![i] = x.entry[i] + 1]
        /\ w.fh = x.fh /\ w.failed = x.failed /\ Sound(w, crashes, w.entry)
    BY <1>5, <1>6, <1>8, <2>2
  <2>6. Ended(w, Ok)
    BY <1>4, <1>8
  <2> QED BY <2>2, <2>3, <2>4, <2>5, <2>6, <1>2, RenameOK
<1> QED BY <1>7, <1>8

(* link keeps the invariant and is a step of Attributes.                   *)
LEMMA LinkOK ==
    ASSUME AttributesFit, Inv, ~x.lossy, ~crashes, NEW i \in InUse, NEW there \in ParentOpen,
           Link(i, there)
    PROVE  Inv' /\ Abs!Next /\ Follows
<1> DEFINE t == open_dir(Begin(Lives), there)
           v == link(t, i)
<1>0. i \in Ino /\ x.entry[i] + 1 \in 1 .. MaxLinks /\ x.entry[i] > 0
  <2>1. i \in Ino /\ x.entry[i] \in 1 .. MaxLinks - 1
    BY DEF InUse, Link
  <2> QED BY <2>1, Constants
<1>1. During(t) /\ t.left # 0 /\ Kept(t)
  BY OpenDirOK
<1>2. Ended(IF t.ok THEN IF v.ok THEN getattr(v, i) ELSE v ELSE t, Ok)
  BY DEF Link
<1> HIDE DEF t
<1>3. CASE ~t.ok
  <2>1. Inv' /\ ~x'.lossy /\ Abs!Next
    BY <1>1, <1>2, <1>3, CutOK
  <2> QED BY <2>1, FollowsOf
<1>4. CASE t.ok
  <2>1. Ended(IF v.ok THEN getattr(v, i) ELSE v, Ok)
    BY <1>2, <1>4
  <2>2. Inv' /\ Abs!Rename(i, 1) /\ Follows
    BY <2>1, <1>0, <1>1, <1>4, LinkedOK
  <2>3. Abs!Link(i)
    BY <2>2, <1>0 DEF Abs!Link
  <2> QED BY <2>2, <2>3, <1>0 DEF Abs!Next
<1> QED BY <1>3, <1>4

(* A write that changes nothing.                                           *)
LEMMA LeftOK ==
    ASSUME NEW names, NEW s, NEW c, Sound(s, c, names), s.left # 0,
           NEW n \in Int, ~c => n < 0, n # 0,
           NEW t, t = [s EXCEPT !.left = n]
    PROVE  /\ Sound(t, c, names) /\ Alike(s, t) /\ t.left = n /\ t.ok = s.ok /\ t.opened = s.opened
           /\ \A j \in Ino : SavedIn(t, j) = SavedIn(s, j) /\ SeenIn(t, j) = SeenIn(s, j)
<1>1. s \in State /\ Disk(s, c, names) /\ Live(s, c, names)
  BY DEF Sound
<1>2. /\ t \in State /\ Alike(s, t) /\ t.left = n /\ t.ok = s.ok
      /\ t.free = s.free /\ t.dfree = s.dfree /\ t.blk = s.blk
      /\ t.inode = s.inode /\ t.opened = s.opened
  <2>1. n \in Int /\ t = [s EXCEPT !.left = n]
    OBVIOUS
  <2> QED BY ONLY <1>1, <2>1, SetLeft
<1>3. Disk(t, c, names)
  BY <1>1, <1>2 DEF Disk, Ptr, Alike
<1>4. \A j \in Ino : Cached(t, c, j, names)
  BY <1>1, <1>2, OtherFile DEF Live, Alike
<1>5. Live(t, c, names)
  BY <1>1, <1>2, <1>4 DEF Live, Ptr
<1>6. \A j \in Ino : SavedIn(t, j) = SavedIn(s, j) /\ SeenIn(t, j) = SeenIn(s, j)
  BY <1>2 DEF SavedIn, SeenIn, Ptr
<1>7. Sound(t, c, names)
  BY <1>2, <1>3, <1>5 DEF Sound
<1> QED BY <1>2, <1>6, <1>7

(* mknod keeps the invariant and is a step of Attributes.                  *)
LEMMA MknodOK ==
    ASSUME AttributesFit, Inv, ~x.lossy, ~crashes, NEW i \in Ino, NEW there \in ParentOpen,
           Mknod(i, there)
    PROVE  Inv' /\ Abs!Next /\ Follows
<1> DEFINE t == open_dir(Begin(Lives), there)
           m == mknod(t, i)
           v == link(m, i)
<1>0. /\ x.entry[i] = 0 /\ x.fh[i] = 0 /\ x.opened[i] = Nil /\ x.inode[i] = NoInode
      /\ x.entry[i] + 1 \in 1 .. MaxLinks /\ Seen[i] = NoAttrs /\ x.left # 0
  <2>1. x.inode[i] = NoInode /\ x.opened[i] = Nil /\ i \notin InUse /\ x \in State
    BY DEF Mknod, Inv
  <2>2. x.entry[i] \in 0 .. MaxLinks /\ x.fh[i] \in 0 .. MaxHandles
    BY <2>1, FilesOf
  <2>3. x.entry[i] = 0 /\ x.fh[i] = 0
    BY <2>1, <2>2, Constants DEF InUse
  <2>4. Seen[i] = NoAttrs
    BY <2>1, SeenSaved DEF SeenIn, SavedIn, Ptr, NoInode, NewInode
  <2> QED BY <2>1, <2>3, <2>4, Constants DEF Inv
<1>1. /\ During(t) /\ t.left < 0 /\ Kept(t)
      /\ t.inode[i] = x.inode[i]
  BY <1>0, OpenDirOK
<1>2. Ended(IF t.ok THEN IF v.ok THEN getattr(v, i) ELSE v ELSE t, Ok)
  BY DEF Mknod
<1> HIDE DEF t
<1>3. CASE ~t.ok
  <2>1. Inv' /\ ~x'.lossy /\ Abs!Next
    BY <1>1, <1>2, <1>3, CutOK
  <2> QED BY <2>1, FollowsOf
<1>4. CASE t.ok
  <2>1. t \in State /\ Sound(t, crashes, x.entry) /\ t.left \in Int /\ t.left < 0
    BY <1>1, Fields DEF During, Sound
  <2>2. m = [t EXCEPT !.left = t.left - 1]
    <3>1. [t EXCEPT !.inode[i] = NewInode(0)] = t
      BY ONLY <2>1, <1>0, <1>1, Fields DEF State, NoInode
    <3>2. m = Write(t, [t EXCEPT !.inode[i] = NewInode(0)])
      BY DEF mknod
    <3>3. m = Write(t, t)
      BY ONLY <3>1, <3>2
    <3> HIDE DEF m
    <3> QED BY <3>3, <2>1 DEF Write
  <2> HIDE DEF m
  <2>3. /\ Sound(m, crashes, x.entry) /\ Alike(t, m) /\ m.left = t.left - 1 /\ m.ok = t.ok
        /\ m.opened = t.opened
        /\ \A j \in Ino : SavedIn(m, j) = SavedIn(t, j) /\ SeenIn(m, j) = SeenIn(t, j)
    <3> DEFINE h == t.left - 1
    <3>1. t.left # 0 /\ h \in Int /\ h # 0 /\ h < 0 /\ m = [t EXCEPT !.left = h]
      BY <2>1, <2>2
    <3> HIDE DEF h
    <3>2. /\ Sound(m, crashes, x.entry) /\ Alike(t, m) /\ m.left = h /\ m.ok = t.ok
          /\ m.opened = t.opened
          /\ \A j \in Ino : SavedIn(m, j) = SavedIn(t, j) /\ SeenIn(m, j) = SeenIn(t, j)
      BY ONLY <3>1, <2>1, LeftOK
    <3> QED BY <3>2 DEF h
  <2>4. m.left # 0 /\ t.left # 0
    BY <2>1, <2>3
  <2>5. During(m)
    <3>1. Calm(x, m, x.entry)
      BY <2>3, <2>4, <1>0, <1>1, KindSame DEF Calm, During
    <3> QED BY <3>1, <2>3, <1>1 DEF During, Alike
  <2>6. Kept(m) /\ m.ok
    BY <2>3, <2>4, <1>1, <1>4 DEF Kept, Alike
  <2>7. Ended(IF v.ok THEN getattr(v, i) ELSE v, Ok)
    BY <1>2, <1>4
  <2>8. Inv' /\ Abs!Rename(i, 1) /\ Follows
    BY <2>5, <2>6, <2>7, <1>0, LinkedOK
  <2>9. Abs!Create(i)
    BY <2>8, <1>0 DEF Abs!Create, NoAttrs, Abs!NoAttrs
  <2> QED BY <2>8, <2>9 DEF Abs!Next
<1> QED BY <1>3, <1>4

-----------------------------------------------------------------------------
(* The mount ends.  Files that are only in memory are lost; if the link    *)
(* count of one is, a call has reported an error, and the model ends.      *)
LEMMA UnmountOK ==
    ASSUME AttributesFit, Inv, ~x.lossy, NEW n \in Writes, Unmount(n)
    PROVE  Inv' /\ Abs!Next /\ Follows
<1> DEFINE s == Begin(n)
           t == close_files_in_list(s)
           r == Restarted(t)
           l == (t.failed \/ ~t.ok) /\ Unwritten(t) # {}
<1>0. x \in State /\ x.left # 0 /\ crashes \in BOOLEAN
  BY Constants DEF Inv
<1>1. During(s) /\ Kept(s) /\ s.ok
  BY BeginOK
<1>2. /\ x' = [r EXCEPT !.lossy = l] /\ reply' = (IF t.ok /\ t.left # 0 THEN Ok ELSE Error)
      /\ crashes' = crashes /\ \A i \in Ino : x.fh[i] = 0
  BY DEF Unmount
<1> HIDE DEF s
<1>3. Worked(s, crashes, t, x.entry)
  BY <1>1, CloseListOK DEF During
<1> HIDE DEF t
<1>4. Tidy(t, {}) /\ During(t)
  <2>1. Tidy(t, {})
    BY <1>1, <1>3, WorkedTidy
  <2>2. Calm(x, t, x.entry)
    BY <1>1, <1>3, CalmTrans DEF During, Worked
  <2> QED BY <2>1, <2>2, <1>1, <1>3 DEF During, Worked
<1>5. Sound(t, crashes, x.entry) /\ t \in State
  BY <1>4 DEF During, Sound
<1>6. /\ r \in State /\ r.left = Lives /\ r.ok /\ ~r.failed /\ r.lossy = t.lossy
      /\ r.entry = t.entry /\ r.fh = [i \in Ino |-> 0] /\ r.closing = <<>>
      /\ r.opened = [i \in Ino |-> Nil] /\ r.free = r.dfree
      /\ Disk(r, crashes, x.entry) /\ Kept(r)
      /\ ~crashes => \A b \in Block : b \in Range(r.free) \/ \E i \in Ino : Ptr(r, i) = b
      /\ \A j \in Ino : SavedIn(r, j) = SavedIn(t, j) /\ SeenIn(r, j) = SavedIn(t, j)
      /\ (\A j \in Ino : t.inode[j].nlink = x.entry[j]) => Sound(r, crashes, x.entry)
  BY <1>5, RestartOK
<1> HIDE DEF r
<1>7. ASSUME ~l PROVE Sound(r, crashes, x.entry)
  <2> SUFFICES ASSUME NEW j \in Ino PROVE t.inode[j].nlink = x.entry[j]
    BY <1>6
  <2>1. CASE crashes
    BY <2>1, <1>5 DEF Sound, Disk
  <2>2. CASE ~crashes
    <3>1. t.left # 0
      BY <2>2, <1>5, Fields DEF Sound
    <3>2. Cached(t, crashes, j, x.entry)
      BY <3>1, <1>5 DEF Sound, Live
    <3>3. CASE Unwritten(t) = {}
      BY <3>2, <3>3 DEF Unwritten, Cached, NlinkIn
    <3>4. CASE ~t.failed /\ t.ok
      <4>1. t.fh[j] = 0
        BY <1>2, <1>4 DEF During
      <4>2. t.opened[j] = Nil
        BY <3>1, <3>4, <4>1, <1>4 DEF Tidy
      <4> QED BY <4>2, <3>2 DEF Cached, NlinkIn
    <3> QED BY <3>3, <3>4, <1>7
  <2> QED BY <2>1, <2>2, <1>0
<1>8. l \in BOOLEAN
  OBVIOUS
<1> HIDE DEF l
<1>9. /\ x' \in State /\ x'.lossy = l /\ x'.left = r.left /\ x'.ok = r.ok
      /\ x'.free = r.free /\ x'.dfree = r.dfree /\ x'.blk = r.blk /\ x'.inode = r.inode
      /\ x'.opened = r.opened /\ x'.entry = r.entry /\ x'.fh = r.fh
      /\ x'.failed = r.failed /\ x'.closing = r.closing
  BY ONLY <1>2, <1>6, <1>8 DEF State
<1>10. \A j \in Ino : SavedIn(x', j) = SavedIn(t, j) /\ SeenIn(x', j) = SavedIn(t, j)
  BY <1>6, <1>9, SMTT(30) DEF SavedIn, SeenIn, Ptr
<1>11. Inv'
  <2>1. Disk(x', crashes, x.entry)
    BY <1>6, <1>9 DEF Disk, Ptr
  <2>2. ~crashes => \A b \in Block : b \in Range(x'.free) \/ \E i \in Ino : Ptr(x', i) = b
    BY <1>6, <1>9 DEF Ptr
  <2>3. \A i \in Ino : x'.opened[i] = Nil
    BY <1>6, <1>9
  <2>4. ~x'.lossy => Sound(x', crashes, x.entry) /\ Kept(x')
    <3> SUFFICES ASSUME ~x'.lossy PROVE Sound(x', crashes, x.entry) /\ Kept(x')
      OBVIOUS
    <3>1. Sound(r, crashes, x.entry)
      BY <1>7, <1>9
    <3>2. Sound(x', crashes, x.entry)
      <4>1. /\ x' \in State /\ x'.left = r.left /\ x'.free = r.free /\ x'.dfree = r.dfree
            /\ x'.blk = r.blk /\ x'.inode = r.inode /\ x'.opened = r.opened /\ x'.fh = r.fh
        BY <1>9
      <4> QED BY ONLY <3>1, <4>1, SoundSame
    <3> QED BY <3>2, <2>3 DEF Kept
  <2>5. /\ x'.entry = x.entry /\ x' \in State /\ x'.left = Lives /\ x'.ok
        /\ x'.dfree = x'.free /\ crashes' = crashes /\ crashes \in BOOLEAN
    BY <1>0, <1>2, <1>4, <1>6, <1>9 DEF During
  <2> QED BY ONLY <2>1, <2>2, <2>3, <2>4, <2>5 DEF Inv
<1>12. Abs!Restart
  <2>1. Seen' = Saved'
    <3>1. \A j \in Ino : Seen'[j] = Saved'[j]
      BY <1>10, SeenSavedNext
    <3> QED BY <3>1 DEF Seen, Saved
  <2>2. ASSUME NEW j \in Ino
        PROVE  \/ Saved'[j] \in {Saved[j], Seen[j]}
               \/ x.entry[j] = 0 /\ Saved'[j] = NoAttrs
    <3>1. Kind(x, t, j, x.entry)
      BY <1>4 DEF During, Calm
    <3> QED BY <3>1, <1>10, SeenSaved, SeenSavedNext DEF Kind
  <2> QED BY <2>1, <2>2, <1>4, <1>6, <1>9 DEF During, Abs!Restart, NoAttrs, Abs!NoAttrs
<1>13. ASSUME ~x.failed, reply' = Ok, NEW j \in Ino, x.entry[j] > 0 PROVE Seen'[j] = Seen[j]
  <2>1. t.ok /\ t.left # 0 /\ ~t.failed /\ t.fh[j] = 0
    BY <1>2, <1>4, <1>13 DEF Ok, Error, During
  <2>2. t.opened[j] = Nil
    BY <2>1, <1>4 DEF Tidy
  <2>3. SavedIn(t, j) = SeenIn(t, j)
    BY <2>2 DEF SeenIn
  <2>4. SeenIn(t, j) = SeenIn(x, j)
    <3>1. j \in InUse
      BY <1>13 DEF InUse
    <3> QED BY <3>1, <2>1, <1>4, InUseSeen DEF During
  <2> QED BY <2>3, <2>4, <1>10, SeenSaved, SeenSavedNext
<1>14. Abs!Unmount
  BY <1>2, <1>12, <1>13 DEF Abs!Unmount, Ok, Abs!Ok, Error, Abs!Error
<1>15. Follows
  <2>1. CASE ~x'.lossy
    BY <2>1, <1>11, FollowsOf
  <2>2. CASE x'.lossy
    <3>1. x.failed \/ reply' = Error
      BY <2>2, <1>2, <1>4, <1>9 DEF l, During
    <3>2. x'.entry = x.entry /\ x'.opened = [j \in Ino |-> Nil]
      BY <1>4, <1>6, <1>9 DEF During
    <3> QED BY <3>1, <3>2 DEF Follows
  <2> QED BY <2>1, <2>2
<1> QED BY <1>11, <1>14, <1>15 DEF Abs!Next

-----------------------------------------------------------------------------
(***************************************************************************)
(* The specification.                                                      *)
(***************************************************************************)
LEMMA InitOK ==
    ASSUME Init
    PROVE  Inv /\ Abs!Init
<1> DEFINE q == [b \in Block |-> b]
           d == [b \in Block |-> FreeNode]
           o == [i \in Ino |-> NewInode(1)]
           e == [i \in Ino |-> 1]
           h == [i \in Ino |-> 0]
           c == [i \in Ino |-> Nil]
<1>1. /\ x = [free |-> q, dfree |-> q, blk |-> d, inode |-> o, entry |-> e,
              opened |-> c, fh |-> h, closing |-> <<>>, left |-> Lives, ok |-> TRUE,
              failed |-> FALSE, lossy |-> FALSE]
      /\ reply = Ok /\ crashes \in BOOLEAN
  BY DEF Init
<1>2. q \in Seq(Block) /\ IsInjective(q) /\ \A b \in Block : b \in Range(q)
  <2>1. q \in Seq(Block) /\ DOMAIN q = Block
    BY Constants
  <2> QED BY <2>1 DEF IsInjective, Range
<1>3. /\ d \in [Block -> BlockContent] /\ o \in [Ino -> OnDisk]
      /\ e \in [Ino -> 0 .. MaxLinks] /\ h \in [Ino -> 0 .. MaxHandles]
      /\ c \in [Ino -> Opened \union {Nil}]
  <2>1. FreeNode \in BlockContent
    BY DEF BlockContent
  <2>2. NewInode(1) \in OnDisk
    BY Constants DEF NewInode, OnDisk
  <2>3. 0 \in 0 .. MaxHandles /\ 1 \in 0 .. MaxLinks
    BY Constants
  <2> QED BY <2>1, <2>2, <2>3
<1>4. \A i \in Ino : /\ o[i].xattr_ptr = 0 /\ o[i].nlink = 1 /\ e[i] = 1 /\ h[i] = 0
                     /\ c[i] = Nil
  BY DEF NewInode
<1> HIDE DEF q, d, o, e, h, c
<1>5. /\ x \in State /\ x.free = q /\ x.dfree = q /\ x.blk = d /\ x.inode = o
      /\ x.entry = e /\ x.opened = c /\ x.fh = h /\ x.closing = <<>> /\ x.left = Lives
      /\ x.ok /\ ~x.failed /\ ~x.lossy
  <2>1. <<>> \in Seq(Ino) /\ Lives \in Int
    BY Constants
  <2> QED BY <2>1, <1>1, <1>2, <1>3 DEF State
<1>6. \A i \in Ino : Ptr(x, i) = 0 /\ SavedIn(x, i) = NoAttrs /\ SeenIn(x, i) = NoAttrs
  BY <1>4, <1>5 DEF Ptr, SavedIn, SeenIn
<1>7. Disk(x, crashes, x.entry)
  BY <1>2, <1>4, <1>5, <1>6 DEF Disk
<1>8. \A i \in Ino : Cached(x, crashes, i, x.entry)
  BY <1>4, <1>5 DEF Cached, NlinkIn
<1>9. Live(x, crashes, x.entry)
  BY <1>2, <1>5, <1>8 DEF Live
<1>10. Sound(x, crashes, x.entry) /\ Kept(x)
  BY <1>4, <1>5, <1>7, <1>9, Constants DEF Sound, Kept
<1>11. Inv
  <2>1. \A i \in Ino : x.opened[i] = Nil
    BY <1>4, <1>5
  <2>2. \A b \in Block : b \in Range(x.free) \/ \E i \in Ino : Ptr(x, i) = b
    BY <1>2, <1>5
  <2>3. x \in State /\ x.left = Lives /\ x.ok /\ crashes \in BOOLEAN /\ x.dfree = x.free
    BY <1>1, <1>5
  <2> QED BY <2>1, <2>2, <2>3, <1>7, <1>10 DEF Inv
<1>12. Abs!Init
  <2>1. Seen = [i \in Ino |-> NoAttrs] /\ Saved = [i \in Ino |-> NoAttrs]
    <3>1. \A i \in Ino : Seen[i] = NoAttrs /\ Saved[i] = NoAttrs
      BY <1>6, SeenSaved
    <3> QED BY <3>1 DEF Seen, Saved
  <2> QED BY <2>1, <1>1, <1>5
          DEF Abs!Init, Ok, Abs!Ok, NoAttrs, Abs!NoAttrs, e, h
<1> QED BY <1>11, <1>12

(* Every call keeps the invariant and is a step of Attributes.             *)
LEMMA NextOK ==
    ASSUME AttributesFit, Inv, [Next]_vars
    PROVE  Inv' /\ [Abs!Next]_(Abs!vars) /\ [Follows]_vars
<1>1. CASE UNCHANGED vars
  <2>1. x' = x /\ reply' = reply /\ crashes' = crashes
    BY <1>1 DEF vars
  <2>2. Inv'
    BY <2>1 DEF Inv
  <2>3. UNCHANGED Abs!vars
    BY <2>1 DEF Abs!vars, Seen, Saved
  <2> QED BY <2>2, <2>3, <1>1
<1>2. CASE Next
  <2>1. ~x.lossy
    BY <1>2 DEF Next
  <2>2. \/ \E i \in InUse, n \in Writes : AttributeStep(i, n)
        \/ \E i \in InUse, k \in Keys, n \in Writes :
             (crashes => DOMAIN Seen[i] # {k}) /\ Removexattr(i, k, n)
        \/ \E i \in Ino, there \in ParentOpen : ~crashes /\ Mknod(i, there)
        \/ \E i \in InUse, there \in ParentOpen : ~crashes /\ Link(i, there)
        \/ \E i \in InUse, there \in ParentOpen : ~crashes /\ Unlink(i, there)
        \/ \E n \in Writes : Unmount(n)
    BY <1>2, <2>1 DEF Next, Step
  <2>3. ASSUME NEW i \in InUse, NEW n \in Writes, AttributeStep(i, n)
        PROVE  Inv' /\ ~x'.lossy /\ Abs!Next
    <3>1. CASE \E k \in Keys, v \in Values : Setxattr(i, k, v, n)
      BY <3>1, <2>1, SetxattrOK
    <3>2. CASE \E k \in Keys, size \in Buffers : Getxattr(i, k, size, n)
      BY <3>2, <2>1, GetxattrOK
    <3>3. CASE \E size \in Buffers : Listxattr(i, size, n)
      BY <3>3, <2>1, ListxattrOK
    <3>4. CASE \E root \in BOOLEAN : Open(i, root, n)
      BY <3>4, <2>1, OpenCallOK
    <3>5. CASE Flush(i, n)
      BY <3>5, <2>1, FlushCallOK
    <3>6. CASE Release(i, n)
      BY <3>6, <2>1, ReleaseOK
    <3> QED BY <2>3, <3>1, <3>2, <3>3, <3>4, <3>5, <3>6 DEF AttributeStep
  <2>4. CASE \/ \E i \in InUse, n \in Writes : AttributeStep(i, n)
             \/ \E i \in InUse, k \in Keys, n \in Writes :
                  (crashes => DOMAIN Seen[i] # {k}) /\ Removexattr(i, k, n)
    <3>1. Inv' /\ ~x'.lossy /\ Abs!Next
      BY <2>1, <2>3, <2>4, RemovexattrOK
    <3> QED BY <3>1, <2>1, FollowsOf
  <2>5. CASE \E i \in Ino, there \in ParentOpen : ~crashes /\ Mknod(i, there)
    BY <2>1, <2>5, MknodOK
  <2>6. CASE \E i \in InUse, there \in ParentOpen : ~crashes /\ Link(i, there)
    BY <2>1, <2>6, LinkOK
  <2>7. CASE \E i \in InUse, there \in ParentOpen : ~crashes /\ Unlink(i, there)
    BY <2>1, <2>7, UnlinkOK
  <2>8. CASE \E n \in Writes : Unmount(n)
    BY <2>1, <2>8, UnmountOK
  <2> QED BY <2>2, <2>4, <2>5, <2>6, <2>7, <2>8
<1> QED BY <1>1, <1>2

(* The inductive invariant holds.                                          *)
LEMMA InvAlways ==
    AttributesFit => (Spec => []Inv)
<1> SUFFICES ASSUME AttributesFit
             PROVE  Spec => []Inv
  OBVIOUS
<1>1. Init => Inv
  BY InitOK
<1>2. Inv /\ [Next]_vars => Inv'
  <2> SUFFICES ASSUME Inv, [Next]_vars
               PROVE  Inv'
    OBVIOUS
  <2> QED BY NextOK
<1> QED BY <1>1, <1>2, PTL DEF Spec

(* The fields of files, blocks and lists keep their types.                 *)
THEOREM XattrTypeOK ==
    AttributesFit => (Spec => []TypeOK)
<1> SUFFICES ASSUME AttributesFit
             PROVE  Spec => []TypeOK
  OBVIOUS
<1>1. Inv => TypeOK
  <2> SUFFICES ASSUME Inv PROVE TypeOK
    OBVIOUS
  <2>1. x \in State /\ x.left = Lives /\ x.ok /\ crashes \in BOOLEAN
    BY DEF Inv
  <2> QED BY <2>1, Fields DEF TypeOK
<1>2. Spec => []Inv
  BY InvAlways
<1> QED BY <1>1, <1>2, PTL

(* A file's link count is parted from its number of names only by a call   *)
(* that fails in open after it has changed the directory (lib.rs, link and *)
(* unlink) and by an unmount after a failed call, never in silence.        *)
THEOREM LinksFollowNamesAlways ==
    AttributesFit => (Spec => LinksFollowNames)
<1> SUFFICES ASSUME AttributesFit
             PROVE  Spec => LinksFollowNames
  OBVIOUS
<1>1. Inv /\ [Next]_vars => [Follows]_vars
  <2> SUFFICES ASSUME Inv, [Next]_vars
               PROVE  [Follows]_vars
    OBVIOUS
  <2> QED BY NextOK
<1>2. Spec => []Inv
  BY InvAlways
<1> QED BY <1>1, <1>2, PTL DEF Spec, LinksFollowNames

(* A file holds the block to which its inode leads on the device.          *)
LEMMA HeldOf ==
    ASSUME Inv, NEW i \in Ino
    PROVE  Inode(i).xattr_ptr = Ptr(x, i)
<1>1. CASE x.opened[i] = Nil
  BY <1>1 DEF Inode, Ptr
<1>2. CASE x.opened[i] # Nil
  BY <1>2 DEF Inv, Inode
<1> QED BY <1>1, <1>2

(* The invariant implies BlocksOwned; that no block is lost is a count.    *)
LEMMA InvBlocksOwned ==
    ASSUME Inv
    PROVE  BlocksOwned
<1> DEFINE p == [i \in Holders |-> Ptr(x, i)]
<1>1. \A i \in Ino : Inode(i).xattr_ptr = Ptr(x, i)
  BY HeldOf
<1>2. Holders = {i \in Ino : Ptr(x, i) # 0} /\ Held = {Ptr(x, i) : i \in Holders}
  BY <1>1 DEF Holders, Held
<1>3. Held \subseteq Block
  <2>1. \A i \in Ino : Ptr(x, i) # 0 => Ptr(x, i) \in Block
    BY FilesOf, Constants DEF Inv, Ptr
  <2> QED BY <2>1, <1>2
<1>4. /\ Held \intersect Range(x.free) = {} /\ IsInjective(x.free)
      /\ \A i, j \in Holders : Ptr(x, i) = Ptr(x, j) => i = j
  BY <1>2 DEF Inv, Disk
<1>5. ~crashes => Held \union Range(x.free) = Block
  <2> SUFFICES ASSUME ~crashes PROVE Held \union Range(x.free) = Block
    OBVIOUS
  <2>1. x.free \in Seq(Block)
    BY Fields DEF Inv
  <2>2. Range(x.free) \subseteq Block
    BY <2>1 DEF Range
  <2>3. \A b \in Block : b \in Range(x.free) \/ \E i \in Ino : Ptr(x, i) = b
    BY DEF Inv
  <2>4. \A b \in Block : b # 0
    BY Constants
  <2> QED BY <2>2, <2>3, <2>4, <1>2, <1>3
<1>6. Cardinality(Held) = Cardinality(Holders)
  <2>1. IsFiniteSet(Block)
    BY FS_Interval, Constants
  <2>2. IsFiniteSet(Held)
    BY <2>1, <1>3, FS_Subset
  <2>3. p \in Injection(Holders, Held)
    BY <1>2, <1>4 DEF Injection, IsInjective
  <2>4. p \in Surjection(Holders, Held)
    BY <1>2 DEF Surjection
  <2> HIDE DEF p
  <2> QED BY <2>2, <2>3, <2>4, FS_Injection
<1> QED BY <1>4, <1>5, <1>6 DEF BlocksOwned

(* Of the blocks in which attributes are stored (write_xattr of file.rs),  *)
(* none belongs to two files or to a file and the free list, wherever      *)
(* calls fail or the process dies; and none is lost while it does not die. *)
THEOREM BlocksOwnedAlways ==
    AttributesFit => (Spec => []BlocksOwned)
<1> SUFFICES ASSUME AttributesFit
             PROVE  Spec => []BlocksOwned
  OBVIOUS
<1>1. Inv => BlocksOwned
  BY InvBlocksOwned
<1>2. Spec => []Inv
  BY InvAlways
<1> QED BY <1>1, <1>2, PTL

(* Whatever the close list and the blocks on the device do, users see      *)
(* attributes that calls change at once, that a restart takes back to what *)
(* was saved, and that are saved when flush or the last release says so.   *)
THEOREM AttributesRefinement ==
    AttributesFit => (Spec => ImplementsAttributes)
<1> SUFFICES ASSUME AttributesFit
             PROVE  Spec => ImplementsAttributes
  OBVIOUS
<1>1. Init => Abs!Init
  BY InitOK
<1>2. Inv /\ [Next]_vars => [Abs!Next]_(Abs!vars)
  <2> SUFFICES ASSUME Inv, [Next]_vars
               PROVE  [Abs!Next]_(Abs!vars)
    OBVIOUS
  <2> QED BY NextOK
<1>3. Spec => []Inv
  BY InvAlways
<1> QED BY <1>1, <1>2, <1>3, PTL DEF Spec, ImplementsAttributes, Abs!Spec
=============================================================================
