----------------------------- MODULE PlainFile ------------------------------
(***************************************************************************)
(* What users of a file rely on: a map from positions to values, of which  *)
(* the device keeps what the last flush found.  Cells below the size that  *)
(* nobody wrote hold anything: a read may return any value for them, and   *)
(* may end early before one.  DkFile is shown to implement this module.    *)
(***************************************************************************)
EXTENDS Integers, Sequences

CONSTANTS Values, Positions, Lengths, Sizes

VARIABLES
    size, nlink,  (* as users see them                                     *)
    opened,       (* somebody has the file open                            *)
    reply,        (* what the last read returned                           *)
    disk,         (* size and nlink at the last flush, and the cells that  *)
                  (* it made durable and that were not cut off since       *)
    written,      (* the cells that were written                           *)
    cell          (* and their values                                      *)

inode == <<size, nlink>>
vars == <<size, nlink, opened, reply, disk, written, cell>>

NoReply == [at |-> 0, len |-> 0, out |-> <<>>]

Init ==
    /\ size = 0 /\ nlink = 1 /\ opened = FALSE /\ reply = NoReply
    /\ disk = [size |-> 0, nlink |-> 1, cells |-> {}]
    /\ written = {} /\ cell = <<>>

(* The cells in S are all that is left.                                    *)
Keep(S) ==
    LET old == cell
    IN  /\ written' = written \intersect S
        /\ cell' = [p \in written \intersect S |-> old[p]]

Create ==
    /\ ~opened /\ nlink = 0
    /\ nlink' = 1 /\ disk' = [disk EXCEPT !.nlink = 1]
    /\ reply' = NoReply /\ UNCHANGED <<size, opened, written, cell>>

OpenFile ==
    /\ ~opened /\ nlink > 0
    /\ opened'
    /\ reply' = NoReply /\ UNCHANGED <<inode, disk, written, cell>>

(* A reply of k cells: right where something was written, and short only   *)
(* at the end of the file or before a cell that nobody wrote.              *)
Read(pos, len) ==
    /\ opened
    /\ reply'.at = pos /\ reply'.len = len
    /\ UNCHANGED <<inode, opened, disk, written, cell>>
    /\ LET k == Len(reply'.out)
       IN  /\ k <= len
           /\ k > 0 => pos + k <= size
           /\ \A i \in 1 .. k : pos + i - 1 \in written => reply'.out[i] = cell[pos + i - 1]
           /\ k < len /\ pos + k < size => pos + k \notin written

(* All of it, or on a full device some of it.                              *)
Write(pos, len, v) ==
    /\ opened
    /\ reply' = NoReply /\ UNCHANGED <<nlink, opened, disk>>
    /\ LET old == cell
       IN  \E k \in 0 .. len :
             /\ size' = IF k > 0 /\ pos + k > size THEN pos + k ELSE size
             /\ written' = written \union (pos .. pos + k - 1)
             /\ cell' = [p \in written' |-> IF p \in pos .. pos + k - 1 THEN v ELSE old[p]]

Truncate(n) ==
    /\ opened
    /\ size' = n /\ disk' = [disk EXCEPT !.cells = @ \intersect (0 .. n - 1)]
    /\ reply' = NoReply /\ UNCHANGED <<nlink, opened>>
    /\ Keep(0 .. n - 1)

Unlink ==
    /\ opened /\ nlink > 0
    /\ nlink' = 0
    /\ reply' = NoReply /\ UNCHANGED <<size, opened, disk, written, cell>>

Flushed == [size |-> size, nlink |-> nlink, cells |-> written]

Flush ==
    /\ opened /\ nlink > 0
    /\ disk' = Flushed
    /\ UNCHANGED <<inode, opened, reply, written, cell>>

(* A file is flushed before it is closed; without a name it is gone.       *)
Close ==
    /\ opened /\ ~opened'
    /\ reply' = NoReply
    /\ \/ nlink > 0 /\ disk' = Flushed /\ UNCHANGED <<inode, written, cell>>
       \/ /\ nlink = 0 /\ disk' = [size |-> 0, nlink |-> 0, cells |-> {}]
          /\ size' = 0 /\ UNCHANGED nlink /\ Keep({})

(* What was flushed is still there, and is all that is left.               *)
Crash ==
    /\ opened /\ ~opened'
    /\ size' = disk.size /\ nlink' = disk.nlink
    /\ reply' = NoReply /\ UNCHANGED disk
    /\ Keep(disk.cells)

(* The next call begins; the last reply is forgotten.                      *)
Forget == reply' = NoReply /\ UNCHANGED <<inode, opened, disk, written, cell>>

Next ==
    \/ Create \/ OpenFile \/ Unlink \/ Flush \/ Close \/ Crash \/ Forget
    \/ \E pos \in Positions, len \in Lengths : Read(pos, len)
    \/ \E pos \in Positions, len \in Lengths, v \in Values : Write(pos, len, v)
    \/ \E n \in Sizes : Truncate(n)

Spec == Init /\ [][Next]_vars
=============================================================================
