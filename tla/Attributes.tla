----------------------------- MODULE Attributes -----------------------------
(***************************************************************************)
(* What users of extended attributes rely on: a map for every file, and a  *)
(* second one that a restart returns to.  Any call may bring more of the   *)
(* first into the second, and takes away files that nobody can reach.      *)
(* Any call may fail, and then has changed no attributes.  Xattr is shown  *)
(* to implement this module.                                               *)
(***************************************************************************)
EXTENDS Integers, FiniteSets

CONSTANTS Ino, Keys, Values, Buffers

VARIABLES
    attrs,    (* the attributes of every file                              *)
    saved,    (* those that survive                                        *)
    links,    (* its names                                                 *)
    handles,  (* its open handles                                          *)
    failed,   (* a call has failed since the mount                         *)
    reply     (* what the last call returned                               *)

vars == <<attrs, saved, links, handles, failed, reply>>

NoAttrs == [k \in {} |-> 0]
Ok      == [kind |-> "ok"]
Error   == [kind |-> "error"]

Init ==
    /\ attrs = [i \in Ino |-> NoAttrs] /\ saved = attrs
    /\ links = [i \in Ino |-> 1] /\ handles = [i \in Ino |-> 0]
    /\ failed = FALSE /\ reply = Ok

(* The attributes of i become m, and may be saved before or after.         *)
Becomes(i, m) == attrs'[i] = m /\ saved'[i] \in {saved[i], attrs[i], m}
Reclaimed(i)  == /\ links[i] = 0 /\ handles[i] = 0
                 /\ attrs'[i] = NoAttrs /\ saved'[i] = NoAttrs
Same(i)       == Becomes(i, attrs[i]) \/ Reclaimed(i)

(* A call that concerns no attributes but may change names and handles.    *)
Quiet == \A i \in Ino : Same(i)

Fails == reply' = Error /\ failed' /\ Quiet /\ UNCHANGED <<links, handles>>

Fine == failed' = failed /\ UNCHANGED <<links, handles>>

Update(i, m) ==
    /\ Fine /\ reply' = Ok
    /\ Becomes(i, m)
    /\ \A j \in Ino \ {i} : Same(j)

Set(i, k, v) ==
    Update(i, [h \in DOMAIN attrs[i] \union {k} |-> IF h = k THEN v ELSE attrs[i][h]])
Remove(i, k) == Update(i, [h \in DOMAIN attrs[i] \ {k} |-> attrs[i][h]])

(* The value is what was last set.  A caller that asks for its length and  *)
(* then brings a buffer of that length gets it; other buffers may do.      *)
Answers(data, len, size) ==
    IF size = 0 THEN {[kind |-> "size", size |-> len]}
    ELSE {data}
           \union (IF size = len THEN {} ELSE {[kind |-> "range"]})

Get(i, k, size) ==
    /\ Fine /\ Quiet
    /\ reply' \in IF k \in DOMAIN attrs[i]
                  THEN Answers([kind |-> "value", value |-> attrs[i][k]], attrs[i][k], size)
                  ELSE {[kind |-> "noattr"]}

List(i, size) ==
    /\ Fine /\ Quiet
    /\ reply' \in Answers([kind |-> "names", names |-> DOMAIN attrs[i]],
                         2 * Cardinality(DOMAIN attrs[i]), size)

Open(i) ==
    /\ handles' = [handles EXCEPT ![i] = @ + 1]
    /\ reply' = Ok /\ Quiet /\ UNCHANGED <<links, failed>>

(* A flush that succeeds has saved the attributes of a file with a name.   *)
Flush(i) ==
    /\ handles[i] > 0
    /\ Fine /\ reply' = Ok /\ Quiet
    /\ links[i] > 0 => saved'[i] = attrs[i]

(* So has the last release, for every file that nobody has open, if no     *)
(* call has failed; a release that fails has closed the handle anyway.     *)
Release(i) ==
    /\ handles[i] > 0
    /\ handles' = [handles EXCEPT ![i] = @ - 1]
    /\ UNCHANGED links
    /\ failed' = (failed \/ reply' = Error) /\ reply' \in {Ok, Error}
    /\ \A j \in Ino : \/ Becomes(j, attrs[j])
                      \/ /\ links[j] = 0 /\ handles'[j] = 0
                         /\ attrs'[j] = NoAttrs /\ saved'[j] = NoAttrs
    /\ ~failed' => \A j \in Ino : handles'[j] = 0 => saved'[j] = attrs'[j]

(* Names come and go; a name can be made or removed and the call report an *)
(* error.                                                                  *)
Rename(i, n) ==
    /\ links' = [links EXCEPT ![i] = @ + n]
    /\ failed' = (failed \/ reply' = Error) /\ reply' \in {Ok, Error}
    /\ Quiet /\ UNCHANGED handles

Create(i) == links[i] = 0 /\ handles[i] = 0 /\ attrs[i] = NoAttrs /\ Rename(i, 1)
Link(i)   == links[i] > 0 /\ Rename(i, 1)
Unlink(i) == links[i] > 0 /\ Rename(i, -1)

(* The mount ends; what is saved is what is left.                          *)
Restart ==
    /\ \A i \in Ino : \/ saved'[i] \in {saved[i], attrs[i]}
                      \/ links[i] = 0 /\ saved'[i] = NoAttrs
    /\ attrs' = saved'
    /\ handles' = [i \in Ino |-> 0] /\ ~failed' /\ UNCHANGED links

Crash == Restart /\ reply' = Error

(* Nothing is lost unless this or an earlier call reported an error.       *)
Unmount ==
    /\ \A i \in Ino : handles[i] = 0
    /\ Restart /\ reply' \in {Ok, Error}
    /\ ~failed /\ reply' = Ok => \A i \in Ino : links[i] > 0 => attrs'[i] = attrs[i]

Next ==
    \/ Fails \/ Crash \/ Unmount
    \/ \E i \in Ino :
         \/ Open(i) \/ Flush(i) \/ Release(i)
         \/ Create(i) \/ Link(i) \/ Unlink(i)
         \/ \E k \in Keys : Remove(i, k)
         \/ \E k \in Keys, v \in Values : Set(i, k, v)
         \/ \E k \in Keys, size \in Buffers : Get(i, k, size)
         \/ \E size \in Buffers : List(i, size)

Spec == Init /\ [][Next]_vars
=============================================================================
