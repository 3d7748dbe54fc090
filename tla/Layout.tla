------------------------------- MODULE Layout -------------------------------
(***************************************************************************)
(* Where things are on a device: the constants and the arithmetic of       *)
(* format (dkfs/src/lib.rs), inode numbers and pointers (block.rs), and    *)
(* the bounds that trait Device checks (device.rs).  Sizes and pointers    *)
(* are bytes.                                                              *)
(***************************************************************************)
EXTENDS Integers

CONSTANT Word  (* one more than the largest u64                            *)

BOOT_BLOCK_SIZE    == 1024
SUPER_BLOCK_SIZE   == 1024
INODE_SIZE         == 256
SUPER_BLOCK_PTR    == BOOT_BLOCK_SIZE
FIRST_INODE_PTR    == SUPER_BLOCK_PTR + SUPER_BLOCK_SIZE
ROOT_INODE         == 114514
DEFAULT_BLOCK_SIZE == 4096

(* The bytes of a super block, of a node, of an inode and of the entries   *)
(* "." and ".." with the mark at the end, as serialized.                   *)
SuperBlockLen == 64
FreeListLen   == 16
InodeLen      == 234
RootDirLen    == 51

ASSUME WordAssumption == Word \in Nat /\ Word > 1048576

(* Mutant: a difference below zero.                                        *)
SignedMinus(x, y) == x - y

(* u64 arithmetic in a release build, where it wraps.                      *)
Plus(x, y)  == (x + y) % Word
Minus(x, y) == (x - y) % Word

-----------------------------------------------------------------------------
(***************************************************************************)
(* Devices.  All three kinds round the length down to whole blocks.        *)
(***************************************************************************)
block_count(len) == len \div DEFAULT_BLOCK_SIZE
size(len)        == DEFAULT_BLOCK_SIZE * block_count(len)

(* write_at and read_len_at accept n bytes at ptr.                         *)
write_fits(len, ptr, n) == Plus(ptr, n) <= size(len)

-----------------------------------------------------------------------------
(***************************************************************************)
(* Inode numbers.                                                          *)
(***************************************************************************)
(* Mutant: numbers start at one.                                           *)
ino_from_one(ptr) == (ptr - FIRST_INODE_PTR) \div INODE_SIZE + 1

ino_of(ptr) == (ptr - FIRST_INODE_PTR) \div INODE_SIZE + ROOT_INODE
ptr_of(ino) == (ino - ROOT_INODE) * INODE_SIZE + FIRST_INODE_PTR

-----------------------------------------------------------------------------
(***************************************************************************)
(* What format computes for a device of len bytes, bpi bytes per inode.    *)
(***************************************************************************)
inode_count(len, bpi) == size(len) \div bpi

(* Mutant: the last, partly used block of the inode table is not counted.  *)
used_blocks_floor(len, bpi) ==
    (FIRST_INODE_PTR + INODE_SIZE * inode_count(len, bpi)) \div DEFAULT_BLOCK_SIZE

used_blocks(len, bpi) ==
    (FIRST_INODE_PTR + INODE_SIZE * inode_count(len, bpi) + DEFAULT_BLOCK_SIZE - 1)
        \div DEFAULT_BLOCK_SIZE

first_db_ptr(len, bpi) == used_blocks(len, bpi) * DEFAULT_BLOCK_SIZE

db_count(len, bpi) ==
    Minus(block_count(len), first_db_ptr(len, bpi) \div DEFAULT_BLOCK_SIZE)

FreeBytes(len, bpi) == Minus(size(len), first_db_ptr(len, bpi))
=============================================================================
