---------------------------- MODULE ReadDirProofs ---------------------------
(***************************************************************************)
(* Proofs about listing the root directory, module ReadDir, for any number *)
(* of inodes, names and handles and replies of any size: a listing that    *)
(* ends without an error is the directory as it was opened, and one that   *)
(* fits a reply fails only for an inode that has been reclaimed.           *)
(*                                                                         *)
(* A listing opens every inode of the directory for a moment, also those   *)
(* that others have removed meanwhile, so the invariant of the mount       *)
(* (DonkeyFuseProofs) is proved here for the listing's steps as well.      *)
(***************************************************************************)
EXTENDS ReadDir, DonkeyFuseProofs, SequenceTheorems

DirEntry == [name : Name, ino : Ino]

(* The names of a snapshot.                                                *)
AllNames(snap) == [k \in DOMAIN snap |-> snap[k].name]

(* What is known of a listing.                                             *)
ListType ==
    list \in [status : {"closed", "open", "done", "failed"}, snap : Seq(DirEntry),
              offset : Nat, names : Seq(Name)]

(* The listing is before its first reply, or had everything in it.         *)
Progress ==
    /\ list.status = "open" =>
         \/ list.names = <<>> /\ list.offset = 0
         \/ list.names = AllNames(list.snap) /\ list.offset = Len(list.snap)
    /\ list.status = "done" => list.names = AllNames(list.snap)
    /\ list.status # "closed" => dk.dh[Root] > 0

(* The inductive invariant.                                                *)
ListInv == Inv /\ ListType /\ Progress

-----------------------------------------------------------------------------
(* The greatest of the first numbers.                                      *)
LEMMA MaxOf ==
    ASSUME NEW n \in Nat, NEW U \in SUBSET (1 .. n), U # {}
    PROVE  Max(U) \in U /\ \A y \in U : Max(U) >= y
<1> DEFINE T == {n - y : y \in U}
<1>1. T \in SUBSET Nat /\ T # {}
  <2>1. \A y \in U : n - y \in Nat
    OBVIOUS
  <2>2. \E y : y \in U
    OBVIOUS
  <2> QED BY <2>1, <2>2
<1>2. PICK m \in T : \A x \in T : m <= x
  BY <1>1, Least
<1>3. PICK z \in U : m = n - z
  OBVIOUS
<1>4. \A y \in U : z >= y
  <2> TAKE y \in U
  <2>1. n - z <= n - y
    BY <1>2, <1>3
  <2> QED BY <2>1
<1>5. \E x \in U : \A y \in U : x >= y
  BY <1>4
<1> QED BY <1>5, Zenon DEF Max

(* The snapshot of a directory is a sequence of its entries.               *)
LEMMA SnapshotType ==
    ASSUME NEW ents \in Entries
    PROVE  Snapshot(ents) \in Seq(DirEntry)
<1> DEFINE n == Len(NameOrder)
           S == DOMAIN NameOrder
           V == Seq(DirEntry)
           Take(k, snap) == IF ents[NameOrder[k]] = Nil THEN snap
                            ELSE Append(snap, [name |-> NameOrder[k], ino |-> ents[NameOrder[k]]])
           top(U) == Max(U)
           pick == [U \in (SUBSET S) \ {{}} |-> top(U)]
           G == [a \in S \X V |-> Take(a[1], a[2])]
           Eqn(g) == g = [U \in SUBSET S |->
                            IF U = {} THEN <<>> ELSE Take(top(U), g[U \ {top(U)}])]
           iter == CHOOSE g : Eqn(g)
<1>1. n \in Nat /\ S = 1 .. n /\ IsFiniteSet(S) /\ \A k \in S : NameOrder[k] \in Name
  <2>1. n \in Nat /\ S = 1 .. n /\ \A k \in S : NameOrder[k] \in Name
    BY NameOrderAssumption
  <2> QED BY <2>1, FS_Interval
<1>2. ASSUME NEW U \in SUBSET S, U # {} PROVE top(U) \in U
  BY <1>1, <1>2, MaxOf
<1> HIDE DEF top
<1>3. IsPick(pick, S) /\ \A U \in (SUBSET S) \ {{}} : pick[U] = top(U)
  BY <1>2 DEF IsPick
<1>4. \A k \in S, snap \in V : Take(k, snap) \in V
  <2> SUFFICES ASSUME NEW k \in S, NEW snap \in V PROVE Take(k, snap) \in V
    OBVIOUS
  <2>1. ents[NameOrder[k]] \in Ino \union {Nil}
    BY <1>1 DEF Entries
  <2>2. ents[NameOrder[k]] # Nil =>
          [name |-> NameOrder[k], ino |-> ents[NameOrder[k]]] \in DirEntry
    BY <1>1, <2>1 DEF DirEntry
  <2> QED BY <2>2
<1>5. G \in [S \X V -> V] /\ \A k \in S, snap \in V : G[<<k, snap>>] = Take(k, snap)
  <2> HIDE DEF V, Take
  <2> QED BY <1>4
<1>6. <<>> \in V
  OBVIOUS
<1> HIDE DEF V, G, pick, Take
<1>7. PICK g : IsFold(g, S, V, <<>>, G, pick)
  BY <1>1, <1>3, <1>5, <1>6, FoldExists
<1>8. Eqn(g)
  <2>0. /\ g \in [SUBSET S -> V]
        /\ \A U \in SUBSET S : g[U] = IF U = {} THEN <<>> ELSE G[<<pick[U], g[U \ {pick[U]}]>>]
    BY <1>7 DEF IsFold
  <2>1. ASSUME NEW U \in SUBSET S, U # {}
        PROVE  g[U] = Take(top(U), g[U \ {top(U)}])
    <3>1. pick[U] = top(U) /\ top(U) \in S /\ g[U \ {top(U)}] \in V
      BY <2>0, <2>1, <1>2, <1>3
    <3>2. g[U] = G[<<top(U), g[U \ {top(U)}]>>]
      BY <3>1, <2>0, <2>1
    <3> QED BY <3>1, <3>2, <1>5
  <2> QED BY <2>0, <2>1
<1>9. Eqn(iter)
  BY <1>8
<1> HIDE DEF iter
<1>10. /\ iter[{}] = <<>>
       /\ \A U \in (SUBSET S) \ {{}} : iter[U] = Take(top(U), iter[U \ {top(U)}])
  <2>1. iter = [U \in SUBSET S |->
                  IF U = {} THEN <<>> ELSE Take(top(U), iter[U \ {top(U)}])]
    BY <1>9
  <2>2. {} \in SUBSET S
    OBVIOUS
  <2> QED BY <2>1, <2>2, Zenon
<1> DEFINE Q == {U \in SUBSET S : iter[U] \in V}
<1>11. {} \in Q
  BY <1>6, <1>10
<1>12. ASSUME NEW U \in SUBSET S, U # {}, U \ {top(U)} \in Q PROVE U \in Q
  <2>1. top(U) \in S /\ iter[U \ {top(U)}] \in V
    BY <1>2, <1>12
  <2>2. iter[U] = Take(top(U), iter[U \ {top(U)}])
    BY <1>10, <1>12
  <2> QED BY <2>1, <2>2, <1>4
<1>13. \A U \in SUBSET S : U \in Q
  <2>1. \A U \in SUBSET S : U # {} => \E y \in U : U \ {y} \in Q => U \in Q
    <3> HIDE DEF Q
    <3> QED BY <1>2, <1>12
  <2> HIDE DEF Q
  <2> QED BY <2>1, <1>1, <1>11, SubsetInduction, Zenon
<1>14. iter[S] \in V
  BY <1>13
<1>15. Snapshot(ents) = iter[S]
  BY DEF Snapshot, FoldLeft, MapThenFoldSet, iter, top, Take
<1> QED BY <1>14, <1>15 DEF V

-----------------------------------------------------------------------------
(* Working off the list of files changes nothing that is in use.           *)
LEMMA ClosedFine ==
    ASSUME NEW s, Fine(s)
    PROVE  LET t == CloseFilesInList(s)
           IN  /\ Fine(t) /\ Calm(Tree(s), Tree(t)) /\ t.fh = s.fh /\ t.dh = s.dh
               /\ t.closeF = {}
               /\ \A j \in Ino : j \notin s.closeF => t.files[j] = s.files[j]
<1> DEFINE t == CloseFilesInList(s)
<1>1. Coherent(s, {}) /\ Kept(s)
  BY DEF Fine, Good
<1>2. /\ Coherent(t, {}) /\ Calm(Tree(s), Tree(t))
      /\ t.data = s.data /\ t.dirs = s.dirs /\ t.fh = s.fh /\ t.dh = s.dh
      /\ t.closeF = {} /\ t.closeD = s.closeD
      /\ \A j \in Ino :
           /\ t.files[j] \in {s.files[j], Nil}
           /\ FileRefs(s, j) > 0 \/ j \notin s.closeF => t.files[j] = s.files[j]
           /\ FileRefs(s, j) > 0 \/ j \notin s.closeF \/ t.files[j] = Nil
  BY <1>1, CloseFilesOK
<1> HIDE DEF t
<1>3. \A j \in Ino : FileRefs(t, j) = FileRefs(s, j)
  BY <1>2 DEF FileRefs
<1>4. Kept(t)
  BY <1>1, <1>2, <1>3 DEF Kept
<1>5. Fine(t)
  BY <1>2, <1>4, CalmFine DEF Good
<1> QED BY <1>2, <1>5 DEF t

(* getattr of an inode whose slot is not free, also of one that nobody     *)
(* could open any more: it is still cached.                                *)
LEMMA EntryAttr ==
    ASSUME NEW s, Fine(s), s.closeF = {}, NEW i \in Ino, ~Gone(s, i)
    PROVE  LET t == getattr(s, i)
           IN  Fine(t) /\ Calm(Tree(s), Tree(t)) /\ t.fh = s.fh /\ t.dh = s.dh
<1> DEFINE u == CloseFilesInList(s)
           v == CloneFile(u, i)
           t == getattr(s, i)
<1>1. s \in State /\ Sound(s, i, {})
  BY DEF Fine, Good, Coherent
<1>2. CASE s.files[i] = Nil
  <2>1. i \notin s.ifree /\ s.inode[i].nlink > 0 /\ Inode(s, i) = s.inode[i]
    BY <1>1, <1>2 DEF Gone, Sound, Inode
  <2>2. Pinned(s, i, {})
    BY <2>1 DEF Pinned
  <2> QED BY <2>2, GetattrOK
<1>3. CASE s.files[i] # Nil
  <2>1. /\ Fine(u) /\ Calm(Tree(s), Tree(u)) /\ u.fh = s.fh /\ u.dh = s.dh
        /\ u.files[i] = s.files[i]
    BY ClosedFine
  <2>2. t = DropFileHandle(v, i)
    BY <1>3, <2>1 DEF getattr, Open, LoadFile
  <2> HIDE DEF u, t
  <2>3. /\ Fine(v) /\ Tree(v) = Tree(u)
        /\ v.fh = [u.fh EXCEPT ![i] = @ + 1] /\ v.dh = u.dh
    BY <1>3, <2>1, FileHandles
  <2>4. s.fh \in [Ino -> Nat]
    BY <1>1 DEF State
  <2>5. v.fh[i] > 0 /\ [v.fh EXCEPT ![i] = @ - 1] = s.fh
    BY <2>1, <2>3, <2>4, UpDown
  <2> HIDE DEF v
  <2>6. /\ Fine(t) /\ Tree(t) = Tree(v)
        /\ t.fh = [v.fh EXCEPT ![i] = @ - 1] /\ t.dh = v.dh
    BY <2>2, <2>3, <2>5, FileHandles, ZenonT(60)
  <2> QED BY <2>1, <2>3, <2>5, <2>6 DEF t
<1> QED BY <1>2, <1>3

(* The reply after the first k entries of rest, from state s on.           *)
Reply == [s : State, names : Seq(Name), end : {"", "gone", "full"}]

Filled(s, rest, k, r) ==
    /\ r \in Reply
    /\ Fine(r.s) /\ Calm(Tree(s), Tree(r.s)) /\ r.s.fh = s.fh /\ r.s.dh = s.dh
    /\ r.end = "" => r.names = [j \in 1 .. k |-> rest[j].name]
    /\ r.end = "gone" => \E j \in 1 .. k : Gone(r.s, rest[j].ino)
    /\ r.end = "full" => Room < k

(* One more name: the names of the first k - 1 entries, then the k-th.     *)
LEMMA NamedMore ==
    ASSUME NEW S, NEW q \in Seq(S), NEW e \in S, NEW k \in Nat, k > 0, NEW f,
           q = [j \in 1 .. k - 1 |-> f[j]], e = f[k]
    PROVE  /\ Len(q) = k - 1 /\ Append(q, e) \in Seq(S)
           /\ Append(q, e) = [j \in 1 .. k |-> f[j]]
<1> DEFINE m == Len(q)
           a == Append(q, e)
<1>1. m \in Nat /\ DOMAIN q = 1 .. m
  BY LenProperties
<1>2. /\ a \in Seq(S) /\ Len(a) = m + 1 /\ \A j \in 1 .. m : a[j] = q[j]
      /\ a[m + 1] = e
  BY AppendProperties
<1>3. a \in [1 .. Len(a) -> S]
  BY <1>2, LenProperties
<1> HIDE DEF m, a
<1>4. 1 .. m = 1 .. k - 1 /\ k - 1 \in Nat
  BY <1>1
<1>5. m = k - 1
  BY <1>1, <1>4
<1>6. a \in [1 .. k -> S] /\ \A j \in 1 .. k : a[j] = f[j]
  BY <1>2, <1>3, <1>5
<1>7. a = [j \in 1 .. k |-> f[j]]
  BY <1>6
<1> QED BY <1>2, <1>5, <1>7 DEF a, m

(* One entry is added.                                                     *)
LEMMA AddOK ==
    ASSUME NEW s, Fine(s), NEW rest \in Seq(DirEntry), NEW k \in 1 .. Len(rest), NEW r,
           Filled(s, rest, k - 1, r)
    PROVE  Filled(s, rest, k, Add(r, rest[k]))
<1> DEFINE entry == rest[k]
           t == CloseFilesInList(r.s)
           u == getattr(t, entry.ino)
           a == Add(r, entry)
<1>1. /\ r \in Reply /\ Fine(r.s) /\ Calm(Tree(s), Tree(r.s)) /\ r.s.fh = s.fh /\ r.s.dh = s.dh
      /\ r.s \in State /\ r.names \in Seq(Name) /\ r.end \in {"", "gone", "full"}
  BY DEF Filled, Reply
<1>2. /\ entry.name \in Name /\ entry.ino \in Ino /\ k \in Nat /\ k - 1 \in Nat
      /\ 1 .. k = (1 .. k - 1) \union {k} /\ k \in 1 .. k
  <2>1. Len(rest) \in Nat /\ rest[k] \in DirEntry
    OBVIOUS
  <2>2. entry.name \in Name /\ entry.ino \in Ino
    BY <2>1 DEF DirEntry
  <2>3. k \in Nat /\ k - 1 \in Nat /\ k >= 1
    BY <2>1
  <2>4. 1 .. k = (1 .. k - 1) \union {k} /\ k \in 1 .. k
    BY <2>3
  <2> QED BY <2>2, <2>3, <2>4
<1>3. /\ Fine(t) /\ Calm(Tree(r.s), Tree(t)) /\ t.fh = r.s.fh /\ t.dh = r.s.dh
      /\ t.closeF = {}
  BY <1>1, ClosedFine
<1>4. Tree(s) \in Trees /\ Calm(Tree(s), Tree(t))
  <2>1. Tree(s) \in Trees
    BY DEF Fine, Sane, Counted
  <2> HIDE DEF t
  <2> QED BY <1>1, <1>3, <2>1, CalmTrans
<1>5. t \in State
  BY <1>3 DEF Fine, Good, Coherent
<1> HIDE DEF t, entry
<1>6. CASE r.end # ""
  <2>1. a = r
    BY <1>6 DEF Add
  <2>2. Room \in Nat
    BY RoomAssumption
  <2>3. r.end = "gone" => \E j \in 1 .. k : Gone(r.s, rest[j].ino)
    BY <1>2 DEF Filled
  <2>4. r.end = "full" => Room < k
    BY <1>2, <2>2 DEF Filled
  <2>5. Filled(s, rest, k, r)
    BY <1>1, <1>6, <2>3, <2>4 DEF Filled
  <2> QED BY <2>1, <2>5 DEF entry
<1>7. CASE r.end = "" /\ Gone(t, entry.ino)
  <2>1. a = [r EXCEPT !.s = t, !.end = "gone"]
    BY <1>7 DEF Add, t
  <2>2. a \in Reply /\ a.s = t /\ a.end = "gone"
    BY <1>1, <1>5, <2>1 DEF Reply
  <2> HIDE DEF a
  <2>3. \E j \in 1 .. k : Gone(t, rest[j].ino)
    BY <1>2, <1>7 DEF entry
  <2>4. Filled(s, rest, k, a)
    BY <1>1, <1>3, <1>4, <2>2, <2>3 DEF Filled
  <2> QED BY <2>4 DEF a, entry
<1>8. ASSUME ~Gone(t, entry.ino)
      PROVE  Fine(u) /\ Calm(Tree(s), Tree(u)) /\ u.fh = s.fh /\ u.dh = s.dh /\ u \in State
  <2>1. Fine(u) /\ Calm(Tree(t), Tree(u)) /\ u.fh = t.fh /\ u.dh = t.dh
    BY <1>2, <1>3, <1>8, EntryAttr
  <2> HIDE DEF u
  <2>2. Calm(Tree(s), Tree(u))
    BY <1>4, <2>1, CalmTrans
  <2>3. u \in State
    BY <2>1 DEF Fine, Good, Coherent
  <2> QED BY <1>1, <1>3, <2>1, <2>2, <2>3
<1>9. ASSUME r.end = ""
       PROVE  /\ Len(r.names) = k - 1 /\ Append(r.names, entry.name) \in Seq(Name)
              /\ Append(r.names, entry.name) = [j \in 1 .. k |-> rest[j].name]
  <2> DEFINE f == [j \in 1 .. k |-> rest[j].name]
             q == r.names
             e == entry.name
  <2>1. q = [j \in 1 .. k - 1 |-> f[j]] /\ e = f[k]
    BY <1>2, <1>9 DEF Filled, entry
  <2>2. q \in Seq(Name) /\ e \in Name /\ k > 0 /\ [j \in 1 .. k |-> f[j]] = f
    <3>1. q \in Seq(Name) /\ e \in Name
      BY <1>1, <1>2, Zenon
    <3>2. k > 0
      BY <1>2
    <3>3. [j \in 1 .. k |-> f[j]] = f
      OBVIOUS
    <3> QED BY <3>1, <3>2, <3>3
  <2> HIDE DEF f, q, e
  <2>3. Len(q) = k - 1 /\ Append(q, e) \in Seq(Name) /\ Append(q, e) = f
    BY <2>1, <2>2, <1>2, NamedMore
  <2> QED BY <2>3 DEF f, q, e
<1>10. CASE r.end = "" /\ ~Gone(t, entry.ino) /\ Len(r.names) = Room
  <2>1. a = [r EXCEPT !.s = u, !.end = "full"]
    BY <1>10 DEF Add, t
  <2> HIDE DEF u
  <2>2. a \in Reply /\ a.s = u /\ a.end = "full"
    BY <1>1, <1>8, <1>10, <2>1 DEF Reply
  <2> HIDE DEF a
  <2>3. Len(r.names) = k - 1
    BY <1>10, <1>9
  <2>4. Room < k
    <3>1. Room \in Nat /\ Room = k - 1
      BY <1>10, <2>3, RoomAssumption
    <3> QED BY <1>2, <3>1
  <2>5. Filled(s, rest, k, a)
    BY <1>8, <1>10, <2>2, <2>4 DEF Filled
  <2> QED BY <2>5 DEF a, entry
<1>11. CASE r.end = "" /\ ~Gone(t, entry.ino) /\ Len(r.names) # Room
  <2>1. a = [r EXCEPT !.s = u, !.names = Append(@, entry.name)]
    BY <1>11 DEF Add, t
  <2> HIDE DEF u
  <2>2. a \in Reply /\ a.s = u /\ a.end = "" /\ a.names = Append(r.names, entry.name)
    <3>1. Append(r.names, entry.name) \in Seq(Name)
      BY <1>11, <1>9
    <3> QED BY <1>1, <1>8, <1>11, <2>1, <3>1 DEF Reply
  <2> HIDE DEF a
  <2>3. a.names = [j \in 1 .. k |-> rest[j].name]
    BY <1>11, <1>9, <2>2
  <2>4. Filled(s, rest, k, a)
    BY <1>8, <1>11, <2>2, <2>3 DEF Filled
  <2> QED BY <2>4 DEF a, entry
<1> QED BY <1>6, <1>7, <1>10, <1>11 DEF entry

(* Whatever the reply was before, it is a reply after.                     *)
LEMMA AddType ==
    ASSUME NEW r \in Reply, Fine(r.s), NEW entry \in DirEntry
    PROVE  Add(r, entry) \in Reply /\ Fine(Add(r, entry).s)
<1> DEFINE t == CloseFilesInList(r.s)
           u == getattr(t, entry.ino)
           a == Add(r, entry)
<1>1. r.s \in State /\ r.names \in Seq(Name) /\ entry.name \in Name /\ entry.ino \in Ino
  BY DEF Reply, DirEntry
<1>2. Fine(t) /\ t.closeF = {} /\ t \in State
  <2>1. Fine(t) /\ t.closeF = {}
    BY ClosedFine
  <2> QED BY <2>1 DEF Fine, Good, Coherent
<1> HIDE DEF t
<1>3. CASE r.end # ""
  <2>1. a = r
    BY <1>3 DEF Add
  <2> QED BY <2>1
<1>4. CASE r.end = "" /\ Gone(t, entry.ino)
  <2>1. a = [r EXCEPT !.s = t, !.end = "gone"]
    BY <1>4 DEF Add, t
  <2>2. a \in Reply /\ a.s = t
    BY <1>2, <2>1 DEF Reply
  <2> QED BY <1>2, <2>2
<1>5. CASE r.end = "" /\ ~Gone(t, entry.ino)
  <2>1. Fine(u) /\ u \in State
    <3>1. Fine(u)
      BY <1>1, <1>2, <1>5, EntryAttr
    <3> HIDE DEF u
    <3> QED BY <3>1 DEF Fine, Good, Coherent
  <2>2. \/ a = [r EXCEPT !.s = u, !.end = "full"]
        \/ a = [r EXCEPT !.s = u, !.names = Append(@, entry.name)]
    BY <1>5 DEF Add, t
  <2>3. Append(r.names, entry.name) \in Seq(Name)
    BY <1>1, AppendProperties
  <2> HIDE DEF u
  <2>4. a \in Reply /\ a.s = u
    BY <2>1, <2>2, <2>3 DEF Reply
  <2> QED BY <2>1, <2>4
<1> QED BY <1>3, <1>4, <1>5

(* The whole reply: every entry is added, from the first to the last.      *)
LEMMA ReplyOK ==
    ASSUME NEW s, Fine(s), NEW rest \in Seq(DirEntry)
    PROVE  Filled(s, rest, Len(rest), FoldLeft(Add, [s |-> s, names |-> <<>>, end |-> ""], rest))
<1> DEFINE n == Len(rest)
           S == DOMAIN rest
           base == [s |-> s, names |-> <<>>, end |-> ""]
           top(U) == Max(U)
           pick == [U \in (SUBSET S) \ {{}} |-> top(U)]
           V == {r \in Reply : Fine(r.s)}
           G == [a \in S \X V |-> Add(a[2], rest[a[1]])]
           Eqn(g) == g = [U \in SUBSET S |->
                            IF U = {} THEN base ELSE Add(g[U \ {top(U)}], rest[top(U)])]
           iter == CHOOSE g : Eqn(g)
<1>1. n \in Nat /\ S = 1 .. n /\ IsFiniteSet(S) /\ \A k \in S : rest[k] \in DirEntry
  <2>1. n \in Nat /\ S = 1 .. n /\ \A k \in S : rest[k] \in DirEntry
    OBVIOUS
  <2> QED BY <2>1, FS_Interval
<1>2. ASSUME NEW U \in SUBSET S, U # {} PROVE top(U) \in U /\ \A y \in U : top(U) >= y
  BY <1>1, <1>2, MaxOf
<1> HIDE DEF top
<1>3. IsPick(pick, S) /\ \A U \in (SUBSET S) \ {{}} : pick[U] = top(U)
  BY <1>2 DEF IsPick
<1>4. Filled(s, rest, 0, base)
  <2>1. base \in Reply /\ base.s = s /\ base.names = <<>> /\ base.end = ""
    <3>1. s \in State /\ <<>> \in Seq(Name)
      BY DEF Fine, Good, Coherent
    <3> QED BY <3>1 DEF Reply
  <2> HIDE DEF base
  <2>2. Calm(Tree(s), Tree(s))
    BY DEF Calm
  <2>3. <<>> = [j \in 1 .. 0 |-> rest[j].name]
    OBVIOUS
  <2> QED BY <2>1, <2>2, <2>3 DEF Filled
<1>5. \A k \in S, r \in V : Add(r, rest[k]) \in V
  <2> SUFFICES ASSUME NEW k \in S, NEW r \in V PROVE Add(r, rest[k]) \in V
    OBVIOUS
  <2> QED BY <1>1, AddType
<1>6. G \in [S \X V -> V] /\ \A k \in S, r \in V : G[<<k, r>>] = Add(r, rest[k])
  <2> HIDE DEF V
  <2> QED BY <1>5
<1>7. base \in V
  BY <1>4 DEF Filled
<1> HIDE DEF V, G, pick, base
<1>8. PICK g : IsFold(g, S, V, base, G, pick)
  BY <1>1, <1>3, <1>6, <1>7, FoldExists
<1>9. Eqn(g)
  <2>0. /\ g \in [SUBSET S -> V]
        /\ \A U \in SUBSET S : g[U] = IF U = {} THEN base ELSE G[<<pick[U], g[U \ {pick[U]}]>>]
    BY <1>8 DEF IsFold
  <2>1. ASSUME NEW U \in SUBSET S, U # {}
        PROVE  g[U] = Add(g[U \ {top(U)}], rest[top(U)])
    <3>1. pick[U] = top(U) /\ top(U) \in S /\ g[U \ {top(U)}] \in V
      BY <2>0, <2>1, <1>2, <1>3
    <3>2. g[U] = G[<<top(U), g[U \ {top(U)}]>>]
      BY <3>1, <2>0, <2>1
    <3> QED BY <3>1, <3>2, <1>6
  <2> QED BY <2>0, <2>1
<1>10. Eqn(iter)
  BY <1>9
<1> HIDE DEF iter
<1>11. /\ iter[{}] = base
       /\ \A U \in (SUBSET S) \ {{}} : iter[U] = Add(iter[U \ {top(U)}], rest[top(U)])
  <2>1. iter = [U \in SUBSET S |->
                  IF U = {} THEN base ELSE Add(iter[U \ {top(U)}], rest[top(U)])]
    BY <1>10
  <2>2. {} \in SUBSET S
    OBVIOUS
  <2> QED BY <2>1, <2>2, Zenon
<1> DEFINE Q == {U \in SUBSET S : \A k \in 0 .. n : U = 1 .. k => Filled(s, rest, k, iter[U])}
<1>12. {} \in Q
  <2> SUFFICES ASSUME NEW k \in 0 .. n, {} = 1 .. k PROVE Filled(s, rest, k, iter[{}])
    OBVIOUS
  <2>1. k = 0
    <3> HIDE DEF n
    <3>1. k \in Nat /\ 1 \notin 1 .. k
      BY <1>1
    <3> QED BY <3>1
  <2> QED BY <2>1, <1>4, <1>11
<1>13. ASSUME NEW U \in SUBSET S, U # {}, U \ {top(U)} \in Q PROVE U \in Q
  <2> SUFFICES ASSUME NEW k \in 0 .. n, U = 1 .. k PROVE Filled(s, rest, k, iter[U])
    OBVIOUS
  <2> HIDE DEF n
  <2>1. k \in Nat /\ k \in 1 .. n /\ k \in U /\ k - 1 \in 0 .. n
    BY <1>1, <1>13
  <2>2. top(U) = k
    <3>1. top(U) \in 1 .. k /\ top(U) >= k
      BY <2>1, <1>2, <1>13
    <3> QED BY <3>1, <2>1
  <2>3. U \ {k} = 1 .. k - 1
    BY <2>1
  <2>4. Filled(s, rest, k - 1, iter[U \ {k}])
    BY <2>1, <2>2, <2>3, <1>13
  <2>5. iter[U] = Add(iter[U \ {k}], rest[k])
    BY <2>2, <1>11, <1>13
  <2> QED BY <2>1, <2>4, <2>5, AddOK DEF n
<1>14. \A U \in SUBSET S : U \in Q
  <2>1. \A U \in SUBSET S : U # {} => \E y \in U : U \ {y} \in Q => U \in Q
    <3> HIDE DEF Q
    <3> QED BY <1>2, <1>13
  <2> HIDE DEF Q
  <2> QED BY <2>1, <1>1, <1>12, SubsetInduction, Zenon
<1>15. Filled(s, rest, n, iter[S])
  BY <1>1, <1>14
<1>16. FoldLeft(Add, base, rest) = iter[S]
  BY DEF FoldLeft, MapThenFoldSet, iter, top
<1> QED BY <1>15, <1>16 DEF base

-----------------------------------------------------------------------------
(* The first reply has the whole snapshot to fill it, the next one nothing.*)
LEMMA RestOf ==
    ASSUME NEW snap \in Seq(DirEntry)
    PROVE  readdir(snap, 0) = snap /\ readdir(snap, Len(snap)) = <<>>
<1> DEFINE n == Len(snap)
<1>1. n \in Nat
  BY LenProperties
<1>2. SubSeq(snap, 1, n) = snap
  BY SubSeqFull
<1> HIDE DEF n
<1>3. 2 * 0 + 1 = 1 /\ n < 2 * n + 1 /\ 2 * n + 1 \in Int /\ n \in Int
  BY <1>1
<1>4. SubSeq(snap, 2 * n + 1, n) = <<>>
  BY <1>3, SubSeqEmpty
<1> QED BY <1>2, <1>3, <1>4 DEF readdir, n

(* The root can always be opened.                                          *)
LEMMA RootPinned ==
    ASSUME NEW s, Fine(s)
    PROVE  Pinned(s, Root, {}) /\ Inode(s, Root).kind = "dir"
<1>1. Good(s, {}) /\ Held(Tree(s), Root, RootLink) /\ Tree(s)[Root].kind = "dir" /\ Root \in Ino
  BY InoAssumption DEF Fine, Sane, Rooted
<1> QED BY <1>1, HeldPinned

(* StartListing.                                                           *)
LEMMA StartOK ==
    ASSUME ListInv, StartListing
    PROVE  ListInv'
<1> DEFINE t == opendir(dk, Root)
           snap == Snapshot(t.dirs[Root].ents)
<1>1. /\ dk.dh[Root] < MaxHandles /\ dk' = t /\ panicked' = panicked
      /\ list' = [NoList EXCEPT !.status = "open", !.snap = snap]
  BY DEF StartListing
<1>2. Fine(dk) /\ Bounded /\ panicked \in BOOLEAN /\ Root \in Ino
  BY InoAssumption DEF ListInv, Inv
<1>3. /\ Fine(t) /\ t.fh = dk.fh /\ t.dh = [dk.dh EXCEPT ![Root] = @ + 1] /\ t.dh[Root] > 0
      /\ t.dirs[Root] # Nil
  BY <1>2, RootPinned, OpendirOK
<1> HIDE DEF t
<1>4. snap \in Seq(DirEntry)
  <2>1. t.dirs[Root] \in DkDir
    BY <1>2, <1>3 DEF Fine, Good, Coherent, State
  <2>2. t.dirs[Root].ents \in Entries
    BY <2>1 DEF DkDir
  <2> QED BY <2>2, SnapshotType
<1> HIDE DEF snap
<1>5. list' = [status |-> "open", snap |-> snap, offset |-> 0, names |-> <<>>]
  BY <1>1 DEF NoList
<1>6. ListType'
  BY <1>4, <1>5 DEF ListType
<1>7. Progress'
  <2>1. dk'.dh[Root] > 0
    BY <1>1, <1>3
  <2> QED BY <1>5, <2>1 DEF Progress
<1>8. Bounded'
  <2>1. dk.dh \in [Ino -> Nat]
    BY <1>2, HandlesNat
  <2> QED BY <1>1, <1>2, <1>3, <2>1, MaxHandlesAssumption DEF Bounded
<1> QED BY <1>1, <1>2, <1>3, <1>6, <1>7, <1>8 DEF ListInv, Inv

(* FuseReaddir: the state afterwards, and how a listing goes on.           *)
LEMMA ReaddirOK ==
    ASSUME ListInv, FuseReaddir
    PROVE  /\ ListInv'
           /\ list'.status = "failed" /\ Len(list.snap) <= Room =>
                \E k \in DOMAIN list.snap : Gone(dk', list.snap[k].ino)
<1> DEFINE c == CloneDir(dk, Root)
           rest == readdir(list.snap, list.offset)
           n == Len(rest)
           r == FoldLeft(Add, [s |-> c, names |-> <<>>, end |-> ""], rest)
           t == DropDirHandle(r.s, Root)
<1>1. /\ list.status = "open" /\ dk' = t
      /\ list' = IF r.end = "" THEN Listed(r.names) ELSE Failed
      /\ panicked' \in {FALSE, r.end = "gone"}
  BY DEF FuseReaddir
<1>2. /\ Fine(dk) /\ Bounded /\ Root \in Ino /\ dk.dh \in [Ino -> Nat] /\ dk.dirs[Root] # Nil
      /\ dk.dh[Root] > 0
  <2>1. Fine(dk) /\ Bounded /\ Root \in Ino /\ dk.dh[Root] > 0
    BY <1>1, InoAssumption DEF ListInv, Inv, Progress
  <2> QED BY <2>1, HandlesNat, Handled
<1>3. Fine(c) /\ c.dh = [dk.dh EXCEPT ![Root] = @ + 1] /\ c.fh = dk.fh
  BY <1>2, DirHandles
<1> HIDE DEF c
<1>4. /\ list.snap \in Seq(DirEntry) /\ list.names \in Seq(Name) /\ list.offset \in Nat
      /\ list = [status |-> "open", snap |-> list.snap, offset |-> list.offset, names |-> list.names]
      /\ \/ list.names = <<>> /\ list.offset = 0
         \/ list.names = AllNames(list.snap) /\ list.offset = Len(list.snap)
  BY <1>1 DEF ListInv, ListType, Progress
<1>5. \/ rest = list.snap /\ list.names = <<>> /\ list.offset = 0
      \/ rest = <<>> /\ list.names = AllNames(list.snap)
  BY <1>4, RestOf
<1> HIDE DEF rest
<1>6. rest \in Seq(DirEntry) /\ n \in Nat /\ DOMAIN rest = 1 .. n
  <2>1. <<>> \in Seq(DirEntry)
    OBVIOUS
  <2>2. rest \in Seq(DirEntry)
    BY <1>4, <1>5, <2>1, Zenon
  <2> QED BY <2>2, LenProperties
<1>7. Filled(c, rest, n, r)
  BY <1>3, <1>6, ReplyOK
<1> HIDE DEF r
<1>8. Fine(r.s) /\ r.s.dh = c.dh /\ r.s.fh = c.fh /\ r.names \in Seq(Name)
  BY <1>7 DEF Filled, Reply
<1>9. r.s.dh[Root] > 0 /\ [r.s.dh EXCEPT ![Root] = @ - 1] = dk.dh
  BY <1>2, <1>3, <1>8, UpDown
<1>10. Fine(t) /\ Still(r.s, t) /\ t.dh = [r.s.dh EXCEPT ![Root] = @ - 1] /\ t.fh = r.s.fh
  <2> DEFINE w == r.s
  <2>1. Fine(w) /\ w.dh[Root] > 0 /\ t = DropDirHandle(w, Root)
    BY <1>8, <1>9
  <2> HIDE DEF w, t
  <2>2. Fine(t) /\ Still(w, t) /\ t.dh = [w.dh EXCEPT ![Root] = @ - 1] /\ t.fh = w.fh
    BY <1>2, <2>1, DirHandles
  <2> QED BY <2>2 DEF w
<1> HIDE DEF t
<1>11. Inv'
  <2>1. Fine(dk') /\ dk'.dh = dk.dh /\ dk'.fh = dk.fh
    BY <1>1, <1>3, <1>8, <1>9, <1>10
  <2>2. Bounded'
    BY <1>2, <2>1 DEF Bounded
  <2> QED BY <1>1, <2>1, <2>2 DEF Inv
<1>12. dk'.dh[Root] > 0
  BY <1>1, <1>2, <1>9, <1>10
<1>13. CASE r.end = ""
  <2> DEFINE names == list.names \o r.names
  <2>1. r.names = AllNames(rest)
    BY <1>6, <1>7, <1>13 DEF Filled, AllNames
  <2>2. names = AllNames(list.snap) /\ names \in Seq(Name)
    <3>1. CASE rest = list.snap /\ list.names = <<>>
      BY <1>8, <2>1, <3>1, ConcatEmptySeq
    <3>2. CASE rest = <<>> /\ list.names = AllNames(list.snap)
      <4>1. r.names = <<>>
        BY <2>1, <3>2 DEF AllNames
      <4> QED BY <1>4, <3>2, <4>1, ConcatEmptySeq
    <3> QED BY <1>5, <3>1, <3>2
  <2> DEFINE k == Len(r.names)
             status == IF r.names = <<>> THEN "done" ELSE "open"
  <2>3. k \in Nat /\ (r.names # <<>> => k = Len(list.snap) /\ list.offset = 0)
    <3>1. k \in Nat /\ DOMAIN r.names = 1 .. k
      BY <1>8, LenProperties
    <3>2. CASE rest = <<>>
      BY <2>1, <3>1, <3>2 DEF AllNames
    <3>3. CASE rest = list.snap /\ list.offset = 0
      <4>1. DOMAIN r.names = 1 .. n
        BY <1>6, <2>1 DEF AllNames
      <4> HIDE DEF k, n
      <4>2. k = n
        BY <1>6, <3>1, <4>1
      <4> QED BY <3>1, <3>3, <4>2 DEF n
    <3> QED BY <1>5, <3>2, <3>3
  <2> HIDE DEF names, k
  <2>4. list' = [status |-> status, snap |-> list.snap, offset |-> list.offset + k, names |-> names]
    BY <1>1, <1>4, <1>13 DEF Listed, names, k
  <2>5. ListType'
    BY <1>4, <2>2, <2>3, <2>4 DEF ListType
  <2>6. list'.status = "open" => list'.offset = Len(list'.snap)
    BY <1>4, <2>3, <2>4
  <2>7. Progress'
    BY <1>12, <2>2, <2>4, <2>6 DEF Progress
  <2>8. list'.status # "failed"
    BY <2>4
  <2> QED BY <1>11, <2>5, <2>7, <2>8 DEF ListInv
<1>14. CASE r.end # ""
  <2>1. list' = [status |-> "failed", snap |-> list.snap, offset |-> list.offset, names |-> list.names]
    BY <1>1, <1>4, <1>14 DEF Failed
  <2>2. ListType' /\ Progress'
    BY <1>4, <1>12, <2>1 DEF ListType, Progress
  <2>3. ASSUME Len(list.snap) <= Room
        PROVE  \E k \in DOMAIN list.snap : Gone(dk', list.snap[k].ino)
    <3>1. Room \in Nat /\ n \in Nat
      BY <1>6, RoomAssumption
    <3>2. r.end \in {"gone", "full"}
      BY <1>7, <1>14 DEF Filled, Reply
    <3>3. n <= Room
      <4>1. rest = <<>> => n = 0
        OBVIOUS
      <4> HIDE DEF n
      <4> QED BY <1>5, <2>3, <3>1, <4>1 DEF n
    <3>4. PICK k \in 1 .. n : Gone(r.s, rest[k].ino)
      <4> HIDE DEF n
      <4>1. r.end = "full" => Room < n
        BY <1>7 DEF Filled
      <4>2. r.end = "gone"
        BY <3>1, <3>2, <3>3, <4>1
      <4> QED BY <1>7, <4>2, Zenon DEF Filled
    <3>5. rest = list.snap /\ k \in DOMAIN list.snap
      BY <1>5, <1>6, <3>1, <3>4
    <3> QED BY <1>1, <1>10, <3>4, <3>5 DEF Gone, Still
  <2> QED BY <1>11, <2>2, <2>3 DEF ListInv
<1> QED BY <1>13, <1>14

(* EndListing.                                                             *)
LEMMA EndOK ==
    ASSUME ListInv, EndListing
    PROVE  ListInv'
<1> DEFINE t == DropDirHandle(dk, Root)
           u == apply_releases(t)
<1>1. list.status # "closed" /\ dk' = u /\ list' = NoList /\ panicked' = panicked
  BY DEF EndListing
<1>2. /\ Fine(dk) /\ Bounded /\ panicked \in BOOLEAN /\ Root \in Ino
      /\ dk.dh \in [Ino -> Nat] /\ dk.dh[Root] > 0
  BY <1>1, InoAssumption, HandlesNat DEF ListInv, Inv, Progress
<1>3. Fine(t) /\ t.dh = [dk.dh EXCEPT ![Root] = @ - 1] /\ t.fh = dk.fh
  BY <1>2, DirHandles
<1> HIDE DEF t
<1>4. Fine(u) /\ u.fh = t.fh /\ u.dh = t.dh
  BY <1>3, ReleaseFine
<1> HIDE DEF u
<1>5. Bounded'
  BY <1>1, <1>2, <1>3, <1>4, MaxHandlesAssumption DEF Bounded
<1>6. ListType' /\ Progress'
  <2>1. <<>> \in Seq(DirEntry) /\ <<>> \in Seq(Name)
    OBVIOUS
  <2> QED BY <1>1, <2>1 DEF NoList, ListType, Progress
<1> QED BY <1>1, <1>2, <1>4, <1>5, <1>6 DEF ListInv, Inv

(* The calls of the others.                                                *)
LEMMA OthersOK ==
    ASSUME ListInv, Others
    PROVE  ListInv'
<1>1. Inv /\ Fine(dk) /\ list' = list /\ Root \in Ino
  BY InoAssumption DEF ListInv, Inv, Others
<1>2. Next
  <2>1. TRUE \in BOOLEAN
    OBVIOUS
  <2> QED BY <2>1 DEF Others, Next, HandleStep
<1>3. Inv'
  BY <1>1, <1>2, NextInv
<1>4. dk'.dh = dk.dh
  <2>1. CASE NameStep
    BY <1>1, <2>1, NameStepFine DEF Quiet
  <2>2. ASSUME NEW i \in Files, FuseOpen(i, TRUE) PROVE dk'.dh = dk.dh
    BY <1>1, <2>2, OpenStep
  <2>3. ASSUME NEW i \in Files, FuseRelease(i) PROVE dk'.dh = dk.dh
    BY <1>1, <2>3, ReleaseStep
  <2> QED BY <2>1, <2>2, <2>3 DEF Others
<1>5. ListType' /\ Progress'
  BY <1>1, <1>4 DEF ListInv, ListType, Progress
<1> QED BY <1>3, <1>5 DEF ListInv

(* The invariant holds initially, ...                                      *)
LEMMA InitListInv == InitList => ListInv
<1> SUFFICES ASSUME InitList PROVE ListInv
  OBVIOUS
<1>1. Inv /\ list = NoList
  BY InitInv DEF InitList
<1>2. <<>> \in Seq(DirEntry) /\ <<>> \in Seq(Name)
  OBVIOUS
<1> QED BY <1>1, <1>2 DEF ListInv, ListType, Progress, NoList

(* ... and every step keeps it.                                            *)
LEMMA NextListInv ==
    ListInv /\ [StartListing \/ FuseReaddir \/ EndListing \/ Others]_rvars => ListInv'
<1> SUFFICES ASSUME ListInv, [StartListing \/ FuseReaddir \/ EndListing \/ Others]_rvars
             PROVE  ListInv'
  OBVIOUS
<1>1. CASE StartListing
  BY <1>1, StartOK
<1>2. CASE FuseReaddir
  BY <1>2, ReaddirOK
<1>3. CASE EndListing
  BY <1>3, EndOK
<1>4. CASE Others
  BY <1>4, OthersOK
<1>5. CASE UNCHANGED rvars
  BY <1>5 DEF rvars, ListInv, Inv, Bounded, ListType, Progress
<1> QED BY <1>1, <1>2, <1>3, <1>4, <1>5

(* The invariant always holds.                                             *)
LEMMA ListInvAlways == ReadDirSpec => []ListInv
BY InitListInv, NextListInv, PTL DEF ReadDirSpec

-----------------------------------------------------------------------------
(* Listing keeps the mount's invariant: opening what others have removed   *)
(* meanwhile wraps no counter and opens no free slot.                      *)
THEOREM ListingTypeCorrect == ReadDirSpec => []TypeOK
<1>1. ListInv => TypeOK
  BY InvTypeOK DEF ListInv
<1> QED BY <1>1, ListInvAlways, PTL

(* A listing that ends without an error is the directory as it was opened, *)
(* each name once, whatever happened meanwhile (Handle::readdir).          *)
THEOREM ListingCompleteAlways == ReadDirSpec => []ListingComplete
<1>1. ListInv => ListingComplete
  BY DEF ListInv, Progress, ListingComplete, AllNames
<1> QED BY <1>1, ListInvAlways, PTL

(* A listing that fits one reply fails only for an inode that has been     *)
(* reclaimed, not for one that is unlinked and open, or waits on a close   *)
(* list, or whose number was given to a new inode (readdir in main.rs).    *)
THEOREM FailsOnlyIfReclaimedAlways == ReadDirSpec => FailsOnlyIfReclaimed
<1>1. ASSUME ListInv, [StartListing \/ FuseReaddir \/ EndListing \/ Others]_rvars,
             list'.status = "failed" /\ list.status = "open" /\ Len(list.snap) <= Room
      PROVE  \E k \in DOMAIN list.snap : Gone(dk', list.snap[k].ino)
  <2>1. CASE FuseReaddir
    BY <1>1, <2>1, ReaddirOK
  <2>2. CASE StartListing
    BY <1>1, <2>2 DEF StartListing
  <2>3. CASE EndListing
    BY <1>1, <2>3 DEF EndListing, NoList
  <2>4. CASE Others \/ UNCHANGED rvars
    BY <1>1, <2>4 DEF Others, rvars
  <2> QED BY <1>1, <2>1, <2>2, <2>3, <2>4
<1>2. ListInv /\ [StartListing \/ FuseReaddir \/ EndListing \/ Others]_rvars =>
        [list'.status = "failed" /\ list.status = "open" /\ Len(list.snap) <= Room =>
           \E k \in DOMAIN list.snap : Gone(dk', list.snap[k].ino)]_rvars
  BY <1>1
<1> QED BY <1>2, ListInvAlways, PTL DEF ReadDirSpec, FailsOnlyIfReclaimed
=============================================================================
