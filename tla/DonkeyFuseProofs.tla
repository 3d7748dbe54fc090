-------------------------- MODULE DonkeyFuseProofs ---------------------------
(***************************************************************************)
(* Proofs about the mounted file system of module DonkeyFuse, for any      *)
(* number of inodes, blocks, names and handles: its type invariant, and    *)
(* that nothing is stranded in a cache, no inode and no block is lost, and *)
(* the release of a handle reclaims what nobody can reach any more.        *)
(*                                                                         *)
(* The first part takes the calls of module Handle one by one (what holds  *)
(* after each, and what it did to the tree), the second the handlers with  *)
(* what the kernel has checked before it calls them, and the third puts    *)
(* the steps together into the inductive invariant.                        *)
(***************************************************************************)
EXTENDS DonkeyProofs

(* The invariant of states between calls.                                  *)
Fine(s) == Good(s, {}) /\ Sane(Tree(s))

(* Working off a close list keeps the tree sane, and everything held.      *)
LEMMA CalmFine ==
    ASSUME NEW s, NEW t, Fine(s), Good(t, {}), Calm(Tree(s), Tree(t))
    PROVE  Fine(t) /\ Safe(Tree(s), Tree(t), Positions)
<1>1. Tree(t) \in Trees
  BY TreeType DEF Good
<1>2. Counted(Tree(t)) /\ Safe(Tree(s), Tree(t), Positions)
  BY <1>1, CalmCounted DEF Fine, Sane
<1>3. RootLink \in Positions
  BY InoAssumption DEF RootLink, Positions, Name
<1> QED BY <1>2, <1>3, SafeSane DEF Fine

(* What is held may be opened.                                             *)
LEMMA HeldPinned ==
    ASSUME NEW s, NEW F, Good(s, F), NEW i \in Ino, NEW x, Held(Tree(s), i, x)
    PROVE  /\ Pinned(s, i, F) /\ Tree(s)[i] # Nil /\ Tree(s)[i].nlink \in Nat /\ Tree(s)[i].nlink > 0
           /\ Inode(s, i).kind = Tree(s)[i].kind
<1>1. Coherent(s, F)
  BY DEF Good
<1>2. /\ Tree(s)[i] # Nil /\ Cardinality(Refs(Tree(s), i) \ {x}) < Tree(s)[i].nlink
      /\ Cardinality(Refs(Tree(s), i) \ {x}) \in Nat
  BY RefsFinite DEF Held
<1>3. /\ Tree(s)[i].nlink \in Nat /\ Inode(s, i).kind = Tree(s)[i].kind /\ i \notin s.ifree
      /\ Tree(s)[i].nlink = Inode(s, i).nlink
  BY <1>1, <1>2, TreeFacts DEF Nodes
<1>4. Tree(s)[i].nlink > 0
  BY <1>2, <1>3
<1> QED BY <1>2, <1>3, <1>4 DEF Pinned

(* The entries of a cached directory are the tree's.                       *)
LEMMA CachedEntry ==
    ASSUME NEW s, NEW F, Good(s, F), NEW p \in Ino, s.dirs[p] # Nil
    PROVE  /\ Tree(s)[p] # Nil /\ Tree(s)[p].kind = "dir" /\ Tree(s)[p].ents = s.dirs[p].ents
           /\ \A n \in Name : Entry(s, p, n) = Tree(s)[p].ents[n]
           /\ \A n \in Name : Entry(s, p, n) \in Ino \union {Nil}
<1>1. Coherent(s, F) /\ s \in State /\ Sound(s, p, F)
  BY DEF Good, Coherent
<1>2. Inode(s, p).kind = "dir" /\ Ents(s, p) = s.dirs[p].ents /\ p \notin s.ifree
  BY <1>1 DEF Sound, Inode, Ents
<1>3. Tree(s)[p] # Nil /\ Tree(s)[p].kind = "dir" /\ Tree(s)[p].ents = s.dirs[p].ents
  BY <1>1, <1>2, TreeFacts
<1>4. Tree(s)[p] \in Nodes
  BY <1>1, <1>3, TreeFacts
<1> QED BY <1>3, <1>4 DEF Entry, Nodes, Entries

(* getattr changes the tree at most as a close list does.                  *)
LEMMA GetattrOK ==
    ASSUME NEW s, Fine(s), NEW i \in Ino, Pinned(s, i, {})
    PROVE  LET t == getattr(s, i)
           IN  /\ Fine(t) /\ Calm(Tree(s), Tree(t)) /\ Safe(Tree(s), Tree(t), Positions)
               /\ t.fh = s.fh /\ t.dh = s.dh /\ t.dirs = s.dirs /\ t.files[i] # Nil
<1> DEFINE u == Open(s, i)
           t == getattr(s, i)
<1>1. Good(s, {}) /\ s \in State
  BY DEF Fine, Good, Coherent
<1>2. /\ Good(u, {} \ {i}) /\ Calm(Tree(s), Tree(u)) /\ u.fh = [s.fh EXCEPT ![i] = @ + 1]
      /\ u.dh = s.dh /\ u.dirs = s.dirs
  BY <1>1, OpenOK
<1>3. t = DropFileHandle(u, i)
  BY DEF getattr
<1>4. {} \ {i} = {}
  OBVIOUS
<1> HIDE DEF u, t
<1>5. Good(u, {}) /\ u \in State /\ Sound(u, i, {})
  BY <1>2, <1>4 DEF Good, Coherent
<1>6. s.fh \in [Ino -> Nat] /\ s.fh[i] \in Nat /\ u.fh[i] = s.fh[i] + 1
  BY <1>1, <1>2 DEF State
<1>7. u.fh[i] > 0 /\ u.files[i] # Nil
  BY <1>5, <1>6 DEF Sound
<1>8. /\ Good(t, {}) /\ Tree(t) = Tree(u) /\ Still(u, t)
      /\ t.fh = [u.fh EXCEPT ![i] = @ - 1] /\ t.dh = u.dh
  BY <1>3, <1>5, <1>7, DropFileOK
<1>9. t.fh = s.fh
  <2>1. t.fh = [[s.fh EXCEPT ![i] = @ + 1] EXCEPT ![i] = @ - 1]
    BY <1>2, <1>8
  <2>2. s.fh[i] + 1 - 1 = s.fh[i]
    BY <1>6
  <2> QED BY <2>1, <2>2, <1>6
<1>10. Fine(t) /\ Safe(Tree(s), Tree(t), Positions)
  BY <1>2, <1>8, CalmFine
<1> QED BY <1>2, <1>7, <1>8, <1>9, <1>10 DEF Still, t

(* opendir: the directory has a handle and is cached.                      *)
LEMMA OpendirOK ==
    ASSUME NEW s, Fine(s), NEW p \in Ino, Pinned(s, p, {}), Inode(s, p).kind = "dir"
    PROVE  LET t == opendir(s, p)
           IN  /\ Fine(t) /\ Calm(Tree(s), Tree(t)) /\ Safe(Tree(s), Tree(t), Positions)
               /\ t.fh = s.fh /\ t.dh = [s.dh EXCEPT ![p] = @ + 1] /\ t.dh[p] > 0
               /\ t.dirs[p] # Nil
<1> DEFINE t == opendir(s, p)
<1>1. Good(s, {}) /\ s \in State
  BY DEF Fine, Good, Coherent
<1>2. t = OpenDir(s, p) /\ {} \ {p} = {}
  BY DEF opendir
<1>3. /\ Good(t, {} \ {p}) /\ Calm(Tree(s), Tree(t)) /\ t.dh = [s.dh EXCEPT ![p] = @ + 1]
      /\ t.fh = s.fh
  BY <1>1, <1>2, OpenDirOK
<1> HIDE DEF t
<1>4. Fine(t) /\ Safe(Tree(s), Tree(t), Positions)
  BY <1>2, <1>3, CalmFine
<1>5. s.dh \in [Ino -> Nat] /\ s.dh[p] \in Nat
  BY <1>1 DEF State
<1>6. t.dh[p] > 0
  BY <1>3, <1>5
<1>7. t.dirs[p] # Nil
  BY <1>4, <1>6 DEF Fine, Good, Coherent, Sound
<1> QED BY <1>3, <1>4, <1>6, <1>7 DEF t

(* lookup: the directory stays cached, with the result in it.              *)
LEMMA LookupOK ==
    ASSUME NEW s, Fine(s), NEW p \in Ino, Pinned(s, p, {}), Inode(s, p).kind = "dir", NEW n \in Name
    PROVE  LET t == lookup(s, p, n)
           IN  /\ Fine(t) /\ Calm(Tree(s), Tree(t)) /\ Safe(Tree(s), Tree(t), Positions)
               /\ t.fh = s.fh /\ t.dh = s.dh /\ t.dirs[p] # Nil
               /\ Entry(t, p, n) # Nil => t.files[Entry(t, p, n)] # Nil
<1> DEFINE u == opendir(s, p)
           e == Entry(u, p, n)
           v == IF e = Nil THEN u ELSE getattr(u, e)
           t == lookup(s, p, n)
<1>1. s \in State
  BY DEF Fine, Good, Coherent
<1>2. /\ Fine(u) /\ Calm(Tree(s), Tree(u)) /\ Safe(Tree(s), Tree(u), Positions)
      /\ u.fh = s.fh /\ u.dh = [s.dh EXCEPT ![p] = @ + 1] /\ u.dh[p] > 0 /\ u.dirs[p] # Nil
  BY OpendirOK
<1>3. t = DropDirHandle(v, p)
  BY DEF lookup
<1> HIDE DEF u, t
<1>4. /\ Tree(u)[p] # Nil /\ e = Tree(u)[p].ents[n] /\ e \in Ino \union {Nil}
  BY <1>2, CachedEntry DEF Fine
<1> HIDE DEF e
<1>5. /\ Fine(v) /\ Calm(Tree(u), Tree(v)) /\ v.fh = u.fh /\ v.dh = u.dh /\ v.dirs = u.dirs
      /\ e # Nil => v.files[e] # Nil
  <2>1. CASE e = Nil
    BY <2>1, <1>2, CalmSame
  <2>2. CASE e # Nil
    <3>1. e \in Ino /\ Held(Tree(u), e, <<p, n>>)
      BY <2>2, <1>2, <1>4, EntryHeld DEF Fine, Sane
    <3>2. Pinned(u, e, {})
      BY <3>1, <1>2, HeldPinned DEF Fine
    <3> DEFINE w == getattr(u, e)
    <3>3. /\ Fine(w) /\ Calm(Tree(u), Tree(w)) /\ w.fh = u.fh /\ w.dh = u.dh /\ w.dirs = u.dirs
          /\ w.files[e] # Nil
      BY <3>1, <3>2, <1>2, GetattrOK
    <3>4. v = w
      BY <2>2
    <3> HIDE DEF w, v
    <3> QED BY <3>3, <3>4
  <2> QED BY <2>1, <2>2
<1> HIDE DEF v
<1>6. /\ Good(t, {}) /\ Tree(t) = Tree(v) /\ Still(v, t)
      /\ t.dh = [v.dh EXCEPT ![p] = @ - 1] /\ t.fh = v.fh
  BY <1>2, <1>3, <1>5, DropDirOK, ZenonT(60) DEF Fine
<1>7. t.dh = s.dh
  <2>1. s.dh \in [Ino -> Nat] /\ s.dh[p] \in Nat
    BY <1>1 DEF State
  <2>2. t.dh = [[s.dh EXCEPT ![p] = @ + 1] EXCEPT ![p] = @ - 1]
    BY <1>2, <1>5, <1>6
  <2>3. s.dh[p] + 1 - 1 = s.dh[p]
    BY <2>1
  <2> QED BY <2>1, <2>2, <2>3
<1>8. Calm(Tree(s), Tree(t))
  <2>1. Tree(s) \in Trees
    BY TreeType DEF Fine, Good
  <2> QED BY <2>1, <1>2, <1>5, <1>6, CalmTrans
<1>9. Fine(t) /\ Safe(Tree(s), Tree(t), Positions)
  BY <1>6, <1>8, CalmFine
<1>10. t.dirs = u.dirs /\ t.files = v.files
  BY <1>5, <1>6 DEF Still
<1>11. Entry(t, p, n) = e
  BY <1>10 DEF Entry, e
<1> QED BY <1>2, <1>5, <1>6, <1>7, <1>8, <1>9, <1>10, <1>11 DEF t

-----------------------------------------------------------------------------
(* Donkey::link, with i a new inode or an old one: the counts stay right,  *)
(* everything held stays held, and i is held by its new name.              *)
LEMMA LinkFine ==
    ASSUME NEW s, NEW F, Good(s, F), Counted(Tree(s)), NEW p \in Ino, s.dh[p] > 0, NEW n \in Name,
           Tree(s)[p].ents[n] = Nil, NEW i \in Ino, Pinned(s, i, F), n \in Names => i \notin {p, Root}
    PROVE  LET t == Link(s, i, p, n)
           IN  /\ Good(t, F \ {i}) /\ Counted(Tree(t)) /\ Safe(Tree(s), Tree(t), Positions)
               /\ WithName(Tree(s), p, n, i) \in Trees /\ Calm(WithName(Tree(s), p, n, i), Tree(t))
               /\ Held(Tree(t), i, <<p, n>>)
               /\ t.fh = s.fh /\ t.dh = [s.dh EXCEPT ![p] = @ - 1] /\ t.files[i] # Nil
<1> DEFINE t == Link(s, i, p, n)
           g == WithName(Tree(s), p, n, i)
           x == <<p, n>>
<1>1. /\ Good(t, F \ {i}) /\ Tree(s)[p] # Nil /\ Tree(s)[i] # Nil /\ Calm(g, Tree(t))
      /\ t.fh = s.fh /\ t.dh = [s.dh EXCEPT ![p] = @ - 1] /\ t.files[i] # Nil
  BY LinkOK
<1> HIDE DEF t
<1>2. Counted(g) /\ Safe(Tree(s), g, Positions) /\ g[p] # Nil /\ g[p].ents[n] = i
  BY <1>1, WithNameCounted
<1> HIDE DEF g
<1>3. Tree(t) \in Trees
  BY <1>1, TreeType DEF Good
<1>4. Counted(Tree(t)) /\ Safe(g, Tree(t), Positions)
  BY <1>1, <1>2, <1>3, CalmCounted
<1>5. Safe(Tree(s), Tree(t), Positions)
  BY <1>2, <1>4, SafeTrans
<1>6. Held(g, i, x)
  BY <1>2, EntryHeld, NilAssumption
<1>7. x \in Positions
  BY DEF Positions
<1>8. Held(Tree(t), i, x)
  BY <1>4, <1>6, <1>7 DEF Safe
<1>9. g \in Trees
  BY <1>2 DEF Counted
<1> QED BY <1>1, <1>4, <1>5, <1>8, <1>9 DEF g, t, x

(* opendir and link, as in rename: the node survives the opening because   *)
(* it is held.                                                             *)
LEMMA AttachOK ==
    ASSUME NEW s, Fine(s), NEW p \in Ino, Pinned(s, p, {}), Inode(s, p).kind = "dir", NEW n \in Names,
           Tree(s)[p].ents[n] = Nil, NEW i \in Ino, NEW x \in Positions, Held(Tree(s), i, x),
           i \notin {p, Root}
    PROVE  LET t == Link(opendir(s, p), i, p, n)
           IN  /\ Fine(t) /\ Safe(Tree(s), Tree(t), Positions) /\ Held(Tree(t), i, <<p, n>>)
               /\ t.fh = s.fh /\ t.dh = s.dh /\ t.files[i] # Nil
               /\ Adds(Tree(s), Tree(t), {<<p, n>>}) /\ WithName(Tree(s), p, n, i) \in Trees
               /\ EnoughBlocks => Calm(WithName(Tree(s), p, n, i), Tree(t))
<1> DEFINE u == opendir(s, p)
           t == Link(u, i, p, n)
<1>0. n \in Name
  BY DEF Name
<1>1. /\ Fine(u) /\ Calm(Tree(s), Tree(u)) /\ Safe(Tree(s), Tree(u), Positions)
      /\ u.fh = s.fh /\ u.dh = [s.dh EXCEPT ![p] = @ + 1] /\ u.dh[p] > 0 /\ u.dirs[p] # Nil
  BY OpendirOK
<1> HIDE DEF u
<1>2. s \in State /\ Good(s, {}) /\ Coherent(s, {}) /\ Good(u, {}) /\ Coherent(u, {})
  BY <1>1 DEF Fine, Good, Coherent
<1>3. Tree(s) \in Trees /\ Tree(u) \in Trees /\ Counted(Tree(s)) /\ Counted(Tree(u))
  BY <1>1 DEF Fine, Sane, Counted
<1>4. Tree(s)[p] # Nil /\ Tree(u)[p] # Nil
  BY <1>1, <1>2, CachedEntry, TreeFacts DEF Pinned
<1>5. Tree(u)[p].ents[n] = Nil
  <2>1. \A m \in Nodes : [m EXCEPT !.ents = NoEntries].ents = NoEntries
    BY DEF Nodes
  <2>2. Tree(s)[p] \in Nodes /\ NoEntries[n] = Nil
    BY <1>0, <1>3, <1>4 DEF Trees, NoEntries
  <2> QED BY <2>1, <2>2, <1>1, <1>4 DEF Calm
<1>6. Held(Tree(u), i, x) /\ Pinned(u, i, {}) /\ Tree(u)[i] # Nil
  BY <1>1, <1>2, HeldPinned DEF Safe
<1>7. /\ Good(t, {} \ {i}) /\ Counted(Tree(t)) /\ Safe(Tree(u), Tree(t), Positions)
      /\ Calm(WithName(Tree(u), p, n, i), Tree(t))
      /\ Held(Tree(t), i, <<p, n>>)
      /\ t.fh = u.fh /\ t.dh = [u.dh EXCEPT ![p] = @ - 1] /\ t.files[i] # Nil
  <2>1. Good(u, {}) /\ Counted(Tree(u)) /\ u.dh[p] > 0 /\ Pinned(u, i, {})
    BY <1>1, <1>2, <1>3, <1>6
  <2>2. n \in Names => i \notin {p, Root}
    OBVIOUS
  <2> QED BY <2>1, <2>2, <1>0, <1>5, LinkFine, SMTT(30)
<1> HIDE DEF t
<1>8. Good(t, {})
  <2>1. {} \ {i} = {}
    OBVIOUS
  <2> QED BY <2>1, <1>7
<1>9. Safe(Tree(s), Tree(t), Positions)
  BY <1>1, <1>7, SafeTrans
<1>10. Fine(t)
  <2>1. RootLink \in Positions
    BY InoAssumption DEF RootLink, Positions, Name
  <2> QED BY <2>1, <1>7, <1>8, <1>9, SafeSane DEF Fine
<1>11. t.fh = s.fh /\ t.dh = s.dh
  <2>1. s.dh \in [Ino -> Nat] /\ s.dh[p] \in Nat
    BY <1>2 DEF State
  <2>2. t.dh = [[s.dh EXCEPT ![p] = @ + 1] EXCEPT ![p] = @ - 1]
    BY <1>1, <1>7
  <2>3. s.dh[p] + 1 - 1 = s.dh[p]
    BY <2>1
  <2> QED BY <2>1, <2>2, <2>3, <1>1, <1>7
<1>12. Adds(Tree(s), Tree(t), {<<p, n>>})
  <2>1. Adds(Tree(s), Tree(u), {})
    BY <1>1, <1>3, CalmAdds
  <2>2. Adds(Tree(s), Tree(u), {<<p, n>>})
    BY <2>1, AddsMore
  <2>3. Adds(Tree(u), Tree(t), {<<p, n>>})
    BY <1>0, <1>3, <1>4, <1>6, <1>7, NamedAdds
  <2> QED BY <2>2, <2>3, AddsTrans
<1>13. WithName(Tree(s), p, n, i) \in Trees
  <2>1. Tree(s)[i] # Nil
    BY DEF Held
  <2> QED BY <2>1, <1>0, <1>3, <1>4, WithNameCounted DEF Counted
<1>14. ASSUME EnoughBlocks PROVE Calm(WithName(Tree(s), p, n, i), Tree(t))
  <2>1. Calm(WithName(Tree(s), p, n, i), WithName(Tree(u), p, n, i))
    BY <1>0, <1>1, <1>3, <1>4, <1>6, <1>14, CalmWithName
  <2> QED BY <2>1, <1>7, <1>13, CalmTrans
<1> QED BY <1>7, <1>9, <1>10, <1>11, <1>12, <1>13, <1>14 DEF t, u

(* unlink keeps everything held without the name; the name is gone.        *)
LEMMA UnlinkFine ==
    ASSUME NEW s, Fine(s), NEW p \in Ino, Pinned(s, p, {}), Inode(s, p).kind = "dir", NEW n \in Name,
           <<p, n>> # RootLink
    PROVE  LET t == unlink(s, p, n)
           IN  /\ Fine(t) /\ Safe(Tree(s), Tree(t), Positions \ {<<p, n>>})
               /\ t.fh = s.fh /\ t.dh = s.dh
               /\ Adds(Tree(s), Tree(t), {}) /\ Clear(Tree(t), <<p, n>>)
               /\ EnoughBlocks => Calm(Drop(Tree(s), p, n), Tree(t))
<1> DEFINE u == opendir(s, p)
           e == u.dirs[p].ents[n]
           t == unlink(s, p, n)
           X == Positions \ {<<p, n>>}
<1>1. /\ Fine(u) /\ Calm(Tree(s), Tree(u)) /\ Safe(Tree(s), Tree(u), Positions)
      /\ u.fh = s.fh /\ u.dh = [s.dh EXCEPT ![p] = @ + 1] /\ u.dh[p] > 0 /\ u.dirs[p] # Nil
  BY OpendirOK
<1>2. t = Unlink(u, p, n)
  BY DEF unlink
<1> HIDE DEF u, t
<1>3. s \in State /\ Good(s, {}) /\ Coherent(s, {}) /\ Good(u, {}) /\ Coherent(u, {})
  BY <1>1 DEF Fine, Good, Coherent
<1>4. Tree(s) \in Trees /\ Tree(u) \in Trees /\ Counted(Tree(s)) /\ Counted(Tree(u))
  BY <1>1 DEF Fine, Sane, Counted
<1>5. Tree(s)[p] # Nil /\ Tree(u)[p] # Nil /\ Tree(u)[p].ents[n] = e
  BY <1>1, <1>3, CachedEntry, TreeFacts DEF Pinned
<1> HIDE DEF e
<1>6. e # Nil => e \in Ino /\ Tree(u)[e] # Nil /\ Tree(u)[e].nlink > 0
  BY <1>4, <1>5, EntryHeld
<1>7. /\ Good(t, {}) /\ t.fh = u.fh /\ t.dh = [u.dh EXCEPT ![p] = @ - 1]
      /\ e = Nil => Tree(t) = Tree(u)
      /\ e # Nil => Calm(WithoutName(Tree(u), p, n), Tree(t))
  <2>1. e = u.dirs[p].ents[n]
    BY DEF e
  <2>2. Good(u, {}) /\ u.dh[p] > 0 /\ (e # Nil => Tree(u)[e] # Nil /\ Tree(u)[e].nlink > 0)
    BY <1>1, <1>3, <1>6
  <2> DEFINE w == Unlink(u, p, n)
  <2>3. /\ Good(w, {}) /\ w.fh = u.fh /\ w.dh = [u.dh EXCEPT ![p] = @ - 1]
        /\ e = Nil => Tree(w) = Tree(u)
        /\ e # Nil => Calm(WithoutName(Tree(u), p, n), Tree(w))
    BY <2>1, <2>2, UnlinkOK
  <2> HIDE DEF w
  <2>4. t = w
    BY <1>2 DEF w
  <2> QED BY <2>3, <2>4, <1>5
<1>8. Counted(Tree(t)) /\ Safe(Tree(u), Tree(t), X)
  <2>1. CASE e = Nil
    BY <2>1, <1>4, <1>7, SafeSame
  <2>2. CASE e # Nil
    <3> DEFINE g == WithoutName(Tree(u), p, n)
    <3>1. Counted(g) /\ Safe(Tree(u), g, X)
      BY <2>2, <1>4, <1>5, WithoutNameCounted
    <3> HIDE DEF g
    <3>2. Calm(g, Tree(t)) /\ Tree(t) \in Trees
      BY <2>2, <1>7, TreeType DEF g, Good
    <3>3. Counted(Tree(t)) /\ Safe(g, Tree(t), X)
      BY <3>1, <3>2, CalmCounted DEF Safe
    <3> QED BY <3>1, <3>3, SafeTrans
  <2> QED BY <2>1, <2>2
<1>9. Safe(Tree(s), Tree(u), X)
  BY <1>1 DEF Safe
<1>10. Safe(Tree(s), Tree(t), X)
  BY <1>8, <1>9, SafeTrans
<1>11. Fine(t)
  <2>1. RootLink \in X
    BY InoAssumption DEF RootLink, Positions, Name
  <2> HIDE DEF X
  <2> QED BY <2>1, <1>7, <1>8, <1>10, SafeSane DEF Fine
<1>12. t.fh = s.fh /\ t.dh = s.dh
  <2>1. s.dh \in [Ino -> Nat] /\ s.dh[p] \in Nat
    BY <1>3 DEF State
  <2>2. t.dh = [[s.dh EXCEPT ![p] = @ + 1] EXCEPT ![p] = @ - 1]
    BY <1>1, <1>7
  <2>3. s.dh[p] + 1 - 1 = s.dh[p]
    BY <2>1
  <2> QED BY <2>1, <2>2, <2>3, <1>1, <1>7
<1>13. ASSUME EnoughBlocks
       PROVE  IF Tree(s)[p].ents[n] = Nil THEN Calm(Tree(s), Tree(t))
              ELSE Calm(WithoutName(Tree(s), p, n), Tree(t))
  <2>1. Tree(s)[p] = Tree(u)[p]
    BY <1>1, <1>5, <1>13 DEF Calm
  <2>2. CASE e = Nil
    BY <2>1, <2>2, <1>1, <1>5, <1>7
  <2>3. CASE e # Nil
    <3>1. Calm(WithoutName(Tree(s), p, n), WithoutName(Tree(u), p, n))
      BY <2>3, <1>1, <1>4, <1>5, <1>6, <1>13, CalmWithoutName
    <3>2. WithoutName(Tree(s), p, n) \in Trees
      BY <2>1, <2>3, <1>4, <1>5, WithoutNameCounted DEF Counted
    <3> QED BY <3>1, <3>2, <2>1, <2>3, <1>5, <1>7, CalmTrans
  <2> QED BY <2>2, <2>3
<1>14. Adds(Tree(s), Tree(t), {}) /\ Clear(Tree(t), <<p, n>>)
  <2>1. Adds(Tree(s), Tree(u), {})
    BY <1>1, <1>4, CalmAdds
  <2>2. CASE e = Nil
    BY <2>1, <2>2, <1>5, <1>7 DEF Clear
  <2>3. CASE e # Nil
    <3> DEFINE g == WithoutName(Tree(u), p, n)
    <3>1. Adds(Tree(u), g, {}) /\ Clear(g, <<p, n>>) /\ g \in Trees
      BY <2>3, <1>4, <1>5, WithoutNameAdds
    <3> HIDE DEF g
    <3>2. Adds(g, Tree(t), {})
      BY <2>3, <3>1, <1>7, CalmAdds DEF g
    <3>3. <<p, n>> \in Positions \ {}
      BY DEF Positions
    <3>4. Clear(Tree(t), <<p, n>>)
      BY <3>1, <3>2, <3>3 DEF Adds
    <3> QED BY <2>1, <3>1, <3>2, <3>4, AddsTrans
  <2> QED BY <2>2, <2>3
<1>15. EnoughBlocks => Calm(Drop(Tree(s), p, n), Tree(t))
  BY <1>13 DEF Drop
<1> QED BY <1>10, <1>11, <1>12, <1>14, <1>15 DEF t

-----------------------------------------------------------------------------
(* An inode number that users see as free, as an allocation may return it. *)
Vacant(s, i) ==
    /\ Tree(s)[i] = Nil \/ Tree(s)[i].nlink = 0
    /\ s.fh[i] = 0 /\ s.dh[i] = 0

(* The tree f with the new node i, still without a name.                   *)
Grown(f, i, kind) == [f EXCEPT ![i] = NewNode(kind)]

(* Donkey::mknod and link, with the parent open: the new node has its      *)
(* name.                                                                   *)
LEMMA MakeNode ==
    ASSUME NEW s, Fine(s), NEW p \in Ino, s.dh[p] > 0, NEW n \in Names, Tree(s)[p].ents[n] = Nil,
           NEW i \in s.ifree
    PROVE  LET t == Link(Mknod(s, i, "file"), i, p, n)
               f == Grown(Tree(s), i, "file")
           IN  /\ i \in Ino /\ i # p /\ Fine(t) /\ Held(Tree(t), i, <<p, n>>) /\ Tree(t)[i].kind = "file"
               /\ WithName(f, p, n, i) \in Trees /\ Calm(WithName(f, p, n, i), Tree(t))
               /\ t.fh = s.fh /\ t.dh = [s.dh EXCEPT ![p] = @ - 1]
               /\ s.fh[i] = 0 /\ s.dh[i] = 0
<1> DEFINE u == Mknod(s, i, "file")
           t == Link(u, i, p, n)
           f == Grown(Tree(s), i, "file")
<1>1. Good(s, {}) /\ Coherent(s, {}) /\ Sane(Tree(s)) /\ Counted(Tree(s)) /\ Tree(s) \in Trees
  BY DEF Fine, Good, Sane, Counted
<1>2. /\ Good(u, {i}) /\ Pinned(u, i, {i}) /\ i \in Ino /\ Tree(s)[i] = Nil /\ Tree(u) = f
      /\ u.fh = s.fh /\ u.dh = s.dh /\ s.fh[i] = 0 /\ s.dh[i] = 0
  BY <1>1, MknodOK DEF Grown
<1> HIDE DEF u
<1>3. s.dirs[p] # Nil
  BY <1>1 DEF Coherent, Sound
<1>4. Tree(s)[p] # Nil
  BY <1>1, <1>3, CachedEntry
<1>5. i \notin {p, Root}
  BY <1>1, <1>2, <1>4 DEF Sane, Rooted, Held
<1>6. /\ NewNode("file") \in Nodes /\ NewNode("file").ents = NoEntries /\ NewNode("file").kind = "file"
  BY NewNodeType
<1>7. Counted(f) /\ Safe(Tree(s), f, Positions)
  BY <1>1, <1>2, <1>6, NewNodeCounted DEF Grown
<1>8. f[p] = Tree(s)[p] /\ f[i] = NewNode("file")
  BY <1>1, <1>2, <1>5 DEF Trees, Grown
<1> HIDE DEF f
<1>9. n \in Name /\ u.dh[p] > 0 /\ Tree(u)[p].ents[n] = Nil
  BY <1>2, <1>8 DEF Name
<1>10. /\ Good(t, {i} \ {i}) /\ Counted(Tree(t)) /\ Safe(Tree(u), Tree(t), Positions)
       /\ WithName(Tree(u), p, n, i) \in Trees /\ Calm(WithName(Tree(u), p, n, i), Tree(t))
       /\ Held(Tree(t), i, <<p, n>>)
       /\ t.fh = u.fh /\ t.dh = [u.dh EXCEPT ![p] = @ - 1]
  <2>1. Counted(Tree(u)) /\ (n \in Names => i \notin {p, Root})
    BY <1>2, <1>5, <1>7
  <2> QED BY <2>1, <1>2, <1>9, LinkFine
<1> HIDE DEF t
<1>11. {i} \ {i} = {}
  OBVIOUS
<1>12. Safe(Tree(s), Tree(t), Positions)
  BY <1>2, <1>7, <1>10, SafeTrans
<1>13. Fine(t)
  <2>1. RootLink \in Positions
    BY InoAssumption DEF RootLink, Positions, Name
  <2> QED BY <2>1, <1>1, <1>10, <1>11, <1>12, SafeSane DEF Fine
<1>14. Tree(t)[i].kind = "file"
  <2> DEFINE g == WithName(Tree(u), p, n, i)
  <2>1. g = AddLinks(SetName(f, p, n, i), i, 1)
    BY <1>2 DEF WithName
  <2>2. f \in Trees /\ f[p] # Nil /\ f[i] # Nil /\ f[i].nlink + 1 \in Nat /\ i \in Ino \union {Nil}
    BY <1>2, <1>4, <1>6, <1>7, <1>8, NodeAssumption DEF Counted, Nodes
  <2>3. g[i] # Nil /\ g[i].kind = f[i].kind
    BY <2>1, <2>2, <1>2, <1>9, NameEdit
  <2>4. Tree(t)[i] # Nil /\ g[i] \in Nodes
    BY <2>3, <1>2, <1>10 DEF Held, Trees
  <2>5. \A m \in Nodes : [m EXCEPT !.ents = NoEntries].kind = m.kind
    BY DEF Nodes
  <2>6. Tree(t)[i].kind = g[i].kind
    BY <2>4, <2>5, <1>2, <1>10 DEF Calm
  <2> QED BY <2>3, <2>6, <1>6, <1>8
<1> QED BY <1>2, <1>5, <1>10, <1>13, <1>14 DEF f, t, u

(* mknod, successful or out of inodes.                                     *)
LEMMA MknodFine ==
    ASSUME NEW s, Fine(s), NEW p \in Ino, Pinned(s, p, {}), Inode(s, p).kind = "dir", NEW n \in Names,
           Tree(s)[p].ents[n] = Nil, NEW i, i \in Allocatable(opendir(s, p))
    PROVE  LET t == mknod(s, p, n, i)
               f == Grown(Tree(s), i, "file")
           IN  /\ Fine(t) /\ t.fh = s.fh /\ t.dh = s.dh
               /\ i = Nil => Calm(Tree(s), Tree(t))
               /\ i # Nil =>
                    /\ i \in Ino /\ Vacant(s, i) /\ t.files[i] # Nil
                    /\ Held(Tree(t), i, <<p, n>>) /\ Tree(t)[i].kind = "file"
                    /\ EnoughBlocks => /\ WithName(f, p, n, i) \in Trees
                                       /\ Calm(WithName(f, p, n, i), Tree(t))
<1> DEFINE u == opendir(s, p)
           t == mknod(s, p, n, i)
<1>1. /\ Fine(u) /\ Calm(Tree(s), Tree(u)) /\ Safe(Tree(s), Tree(u), Positions)
      /\ u.fh = s.fh /\ u.dh = [s.dh EXCEPT ![p] = @ + 1] /\ u.dh[p] > 0 /\ u.dirs[p] # Nil
  BY OpendirOK
<1>2. t = IF i = Nil THEN DropDirHandle(u, p)
          ELSE getattr(Link(Mknod(u, i, "file"), i, p, n), i)
  BY DEF mknod
<1>3. i \in IF u.ifree = {} THEN {Nil} ELSE u.ifree
  BY DEF Allocatable, Exhausted
<1> HIDE DEF u, t
<1>4. s \in State /\ Good(s, {}) /\ Coherent(s, {}) /\ Good(u, {}) /\ Coherent(u, {}) /\ u \in State
  BY <1>1 DEF Fine, Good, Coherent
<1>5. Tree(s) \in Trees /\ Tree(u) \in Trees /\ Tree(s)[p] # Nil /\ Tree(u)[p] # Nil
  BY <1>1, <1>4, CachedEntry, TreeFacts, TreeType DEF Pinned
<1>6. s.dh \in [Ino -> Nat] /\ s.dh[p] \in Nat
  BY <1>4 DEF State
<1>7. [u.dh EXCEPT ![p] = @ - 1] = s.dh
  <2>1. [u.dh EXCEPT ![p] = @ - 1] = [[s.dh EXCEPT ![p] = @ + 1] EXCEPT ![p] = @ - 1]
    BY <1>1
  <2>2. s.dh[p] + 1 - 1 = s.dh[p]
    BY <1>6
  <2> QED BY <2>1, <2>2, <1>6
<1>8. CASE i = Nil
  <2>1. t = DropDirHandle(u, p)
    BY <1>2, <1>8
  <2>2. /\ Good(t, {}) /\ Tree(t) = Tree(u)
        /\ t.dh = [u.dh EXCEPT ![p] = @ - 1] /\ t.fh = u.fh
    BY <2>1, <1>1, <1>4, DropDirOK, ZenonT(60)
  <2>3. Fine(t)
    BY <2>2, <1>1 DEF Fine
  <2> QED BY <2>2, <2>3, <1>1, <1>7, <1>8 DEF t
<1>9. CASE i # Nil
  <2> DEFINE v == Link(Mknod(u, i, "file"), i, p, n)
             g == Grown(Tree(u), i, "file")
             f == Grown(Tree(s), i, "file")
  <2>1. i \in u.ifree /\ i \in Ino /\ t = getattr(v, i)
    BY <1>2, <1>3, <1>4, <1>9 DEF State
  <2>2. Tree(u)[p].ents[n] = Nil /\ n \in Name
    <3>1. \A m \in Nodes : [m EXCEPT !.ents = NoEntries].ents = NoEntries
      BY DEF Nodes
    <3>2. n \in Name
      BY DEF Name
    <3>3. Tree(s)[p] \in Nodes /\ NoEntries[n] = Nil
      BY <3>2, <1>5 DEF Trees, NoEntries
    <3> QED BY <3>1, <3>2, <3>3, <1>1, <1>5 DEF Calm
  <2>3. /\ Fine(v) /\ Held(Tree(v), i, <<p, n>>) /\ Tree(v)[i].kind = "file"
        /\ WithName(g, p, n, i) \in Trees /\ Calm(WithName(g, p, n, i), Tree(v))
        /\ v.fh = u.fh /\ v.dh = [u.dh EXCEPT ![p] = @ - 1] /\ u.fh[i] = 0 /\ u.dh[i] = 0
        /\ i # p
    <3>1. Fine(u) /\ u.dh[p] > 0
      BY <1>1
    <3>2. i \in u.ifree
      BY <2>1
    <3>3. Tree(u)[p].ents[n] = Nil
      BY <2>2
    <3> QED BY <3>1, <3>2, <3>3, MakeNode
  <2> HIDE DEF v
  <2>4. Pinned(v, i, {})
    BY <2>1, <2>3, HeldPinned DEF Fine
  <2>5. /\ Fine(t) /\ Calm(Tree(v), Tree(t)) /\ Safe(Tree(v), Tree(t), Positions)
        /\ t.fh = v.fh /\ t.dh = v.dh /\ t.files[i] # Nil
    BY <2>1, <2>3, <2>4, GetattrOK
  <2>6. Held(Tree(t), i, <<p, n>>) /\ Tree(t)[i].kind = "file"
    <3>1. <<p, n>> \in Positions
      BY <2>2 DEF Positions
    <3> QED BY <3>1, <2>1, <2>3, <2>5 DEF Safe
  <2>7. Vacant(s, i)
    <3>1. Tree(u)[i] = Nil
      BY <2>1, <1>4, TreeFacts
    <3>2. s.fh[i] = 0 /\ s.dh[i] = 0
      BY <2>1, <2>3, <1>1, <1>6
    <3>3. Tree(s)[i] # Nil => [Tree(s)[i] EXCEPT !.ents = NoEntries] # Nil
      <4>1. Tree(s)[i] # Nil => Tree(s)[i] \in Nodes
        BY <2>1, <1>5 DEF Trees
      <4>2. NoEntries \in Entries
        BY DEF NoEntries, Entries
      <4>3. Tree(s)[i] # Nil => [Tree(s)[i] EXCEPT !.ents = NoEntries] \in Nodes
        BY <4>1, <4>2, NodeEdits
      <4> QED BY <4>3, NodeAssumption
    <3> QED BY <3>1, <3>2, <3>3, <2>1, <1>1 DEF Vacant, Calm
  <2>8. ASSUME EnoughBlocks PROVE WithName(f, p, n, i) \in Trees /\ Calm(WithName(f, p, n, i), Tree(t))
    <3>1. Calm(f, g)
      BY <2>1, <1>1, <1>5, CalmNew DEF Grown
    <3>2. NewNode("file") \in Nodes /\ NewNode("file").nlink = 0
      BY NewNodeType
    <3>3. f \in Trees /\ g \in Trees /\ f[i] = NewNode("file") /\ g[i] = NewNode("file")
      BY <3>2, <2>1, <1>5 DEF Trees, Grown
    <3>4. f[p] # Nil /\ g[p] # Nil /\ f[i] # Nil /\ g[i] # Nil
      BY <3>2, <3>3, <2>3, <1>5, NodeAssumption DEF Trees, Grown
    <3>5. f[i].nlink + 1 \in Nat /\ WithName(f, p, n, i) = AddLinks(SetName(f, p, n, i), i, 1)
      BY <3>2, <3>3 DEF WithName
    <3> HIDE DEF f, g
    <3>6. Calm(WithName(f, p, n, i), WithName(g, p, n, i))
      BY <3>1, <3>3, <3>4, <2>1, <2>2, <2>8, CalmWithName
    <3>7. WithName(f, p, n, i) \in Trees
      BY <3>3, <3>4, <3>5, <2>1, <2>2, NameEdit
    <3>8. Calm(WithName(f, p, n, i), Tree(v))
      BY <3>6, <3>7, <2>3, CalmTrans
    <3> QED BY <3>7, <3>8, <2>5, CalmTrans
  <2> QED BY <2>1, <2>3, <2>5, <2>6, <2>7, <2>8, <1>1, <1>7, <1>9 DEF t
<1> QED BY <1>8, <1>9

-----------------------------------------------------------------------------
(* link, with a node held by some entry x.                                 *)
LEMMA LinkHandler ==
    ASSUME NEW s, Fine(s), NEW p \in Ino, Pinned(s, p, {}), Inode(s, p).kind = "dir", NEW n \in Names,
           Tree(s)[p].ents[n] = Nil, NEW i \in Ino, NEW x \in Positions, Held(Tree(s), i, x),
           i \notin {p, Root}
    PROVE  LET t == link(s, i, p, n)
           IN  /\ Fine(t) /\ t.fh = s.fh /\ t.dh = s.dh
               /\ WithName(Tree(s), p, n, i) \in Trees
               /\ EnoughBlocks => Calm(WithName(Tree(s), p, n, i), Tree(t))
<1> DEFINE u == Link(opendir(s, p), i, p, n)
           t == link(s, i, p, n)
           g == WithName(Tree(s), p, n, i)
<1>1. /\ Fine(u) /\ Safe(Tree(s), Tree(u), Positions) /\ Held(Tree(u), i, <<p, n>>)
      /\ u.fh = s.fh /\ u.dh = s.dh /\ u.files[i] # Nil
      /\ Adds(Tree(s), Tree(u), {<<p, n>>}) /\ WithName(Tree(s), p, n, i) \in Trees
      /\ EnoughBlocks => Calm(WithName(Tree(s), p, n, i), Tree(u))
  BY AttachOK
<1>2. t = getattr(u, i)
  BY DEF link
<1> HIDE DEF u, t
<1>3. Pinned(u, i, {})
  BY <1>1, HeldPinned DEF Fine
<1>4. Fine(t) /\ Calm(Tree(u), Tree(t)) /\ t.fh = u.fh /\ t.dh = u.dh
  BY <1>1, <1>2, <1>3, GetattrOK
<1>5. EnoughBlocks => Calm(g, Tree(t))
  BY <1>1, <1>4, CalmTrans
<1> QED BY <1>1, <1>4, <1>5 DEF t

(* Donkey::link of a node that is not new.                                 *)
LEMMA LinkAgain ==
    ASSUME NEW s, Good(s, {}), Counted(Tree(s)), NEW p \in Ino, s.dh[p] > 0, NEW n \in Name,
           Tree(s)[p].ents[n] = Nil, NEW i \in Ino, Pinned(s, i, {}), n \in Names => i \notin {p, Root},
           NEW t, t = Link(s, i, p, n)
    PROVE  /\ Good(t, {}) /\ Counted(Tree(t)) /\ Safe(Tree(s), Tree(t), Positions)
           /\ WithName(Tree(s), p, n, i) \in Trees /\ Calm(WithName(Tree(s), p, n, i), Tree(t))
           /\ Held(Tree(t), i, <<p, n>>)
           /\ t.fh = s.fh /\ t.dh = [s.dh EXCEPT ![p] = @ - 1]
<1> DEFINE w == Link(s, i, p, n)
<1>1. /\ Good(w, {} \ {i}) /\ Counted(Tree(w)) /\ Safe(Tree(s), Tree(w), Positions)
      /\ WithName(Tree(s), p, n, i) \in Trees /\ Calm(WithName(Tree(s), p, n, i), Tree(w))
      /\ Held(Tree(w), i, <<p, n>>)
      /\ w.fh = s.fh /\ w.dh = [s.dh EXCEPT ![p] = @ - 1]
  BY LinkFine
<1>2. t = w /\ {} \ {i} = {}
  OBVIOUS
<1> HIDE DEF w
<1> QED BY <1>1, <1>2

(* Donkey::mkdir: the new directory i has "." and ".." and is held by the  *)
(* former, whether its parent q exists or is the directory itself.         *)
LEMMA MkdirOK ==
    ASSUME NEW s, Good(s, {}), Counted(Tree(s)), NEW i \in s.ifree, NEW q \in Ino, NEW x \in Positions,
           q = i \/ Held(Tree(s), q, x),
           NEW f, f = Grown(Tree(s), i, "dir"),
           NEW t, t = Mkdir(s, i, q)
    PROVE  /\ i \in Ino /\ Tree(s)[i] = Nil /\ s.fh[i] = 0 /\ s.dh[i] = 0
           /\ Good(t, {}) /\ Counted(Tree(t)) /\ Safe(Tree(s), Tree(t), Positions)
           /\ Held(Tree(t), i, <<i, ".">>) /\ Tree(t)[i].kind = "dir"
           /\ t.fh = s.fh /\ t.dh = s.dh
           /\ Adds(Tree(s), Tree(t), {<<i, ".">>, <<i, "..">>})
           /\ EnoughBlocks => LET g == WithName(WithName(f, i, ".", i), i, "..", q)
                              IN  g \in Trees /\ Calm(g, Tree(t))
<1> DEFINE a == Mknod(s, i, "dir")
           b == OpenDir(a, i)
           c == CloneDir(b, i)
           d == Link(c, i, i, ".")
<1>1. "." \in Name /\ ".." \in Name /\ "." \notin Names /\ ".." \notin Names /\ "." # ".."
  BY NamesAssumption DEF Name
<1>2. /\ Good(a, {i}) /\ Pinned(a, i, {i}) /\ i \in Ino /\ Tree(s)[i] = Nil /\ Tree(a) = f
      /\ Inode(a, i).kind = "dir"
      /\ a.fh = s.fh /\ a.dh = s.dh /\ s.fh[i] = 0 /\ s.dh[i] = 0
  BY MknodOK, ZenonT(60) DEF Grown
<1>3. t = Link(d, q, i, "..")
  BY DEF Mkdir
<1> HIDE DEF a
<1>4. NewNode("dir") \in Nodes /\ NewNode("dir").ents = NoEntries /\ NewNode("dir").kind = "dir"
  BY NewNodeType
<1>5. Counted(f) /\ Safe(Tree(s), f, Positions) /\ f \in Trees /\ Tree(s) \in Trees
  BY <1>2, <1>4, NewNodeCounted DEF Grown, Counted
<1>6. f[i] = NewNode("dir") /\ f[i] # Nil
  BY <1>2, <1>4, <1>5, NodeAssumption DEF Trees, Grown
<1>7. Clear(f, <<i, ".">>) /\ Clear(f, <<i, "..">>)
  BY <1>1, <1>4, <1>6 DEF Clear, NoEntries
<1>8. /\ Good(b, {}) /\ Calm(f, Tree(b)) /\ b.dh = [s.dh EXCEPT ![i] = @ + 1] /\ b.fh = s.fh
  <2>1. {i} \ {i} = {}
    OBVIOUS
  <2>2. /\ Good(b, {i} \ {i}) /\ Calm(Tree(a), Tree(b)) /\ b.dh = [a.dh EXCEPT ![i] = @ + 1]
        /\ b.fh = a.fh
    BY <1>2, OpenDirOK
  <2> HIDE DEF b
  <2> QED BY <2>1, <2>2, <1>2
<1> HIDE DEF b
<1>9. s.dh \in [Ino -> Nat] /\ s.dh[i] = 0 /\ b.dh \in [Ino -> Nat] /\ b.dh[i] = 1
  <2>1. s.dh \in [Ino -> Nat]
    BY DEF Good, Coherent, State
  <2> QED BY <2>1, <1>2, <1>8
<1>10. b.dirs[i] # Nil
  BY <1>2, <1>8, <1>9 DEF Good, Coherent, Sound
<1>11. /\ Good(c, {}) /\ Tree(c) = Tree(b) /\ c.dh = [b.dh EXCEPT ![i] = @ + 1] /\ c.fh = b.fh
       /\ Still(b, c)
  BY <1>2, <1>8, <1>10, CloneDirOK, SMTT(30)
<1> HIDE DEF c
<1>12. c.dh \in [Ino -> Nat] /\ c.dh[i] = 2 /\ c.dh[i] > 0
  BY <1>2, <1>9, <1>11
<1>13. Pinned(c, i, {})
  <2>1. Sound(c, i, {})
    BY <1>2, <1>11 DEF Good, Coherent
  <2>2. i \notin c.ifree
    BY <2>1, <1>12 DEF Sound
  <2> QED BY <2>2, <1>12 DEF Pinned
<1>14. Counted(Tree(c)) /\ Safe(f, Tree(c), Positions) /\ Adds(f, Tree(c), {}) /\ Tree(c) \in Trees
  <2>1. Tree(c) \in Trees /\ Calm(f, Tree(c))
    BY <1>8, <1>11, TreeType DEF Good
  <2> QED BY <2>1, <1>5, CalmCounted, CalmAdds
<1>15. Tree(c)[i] # Nil
  BY <1>2, <1>11, <1>13, TreeFacts DEF Pinned, Good
<1>16. /\ Clear(Tree(c), <<i, ".">>) /\ Clear(Tree(c), <<i, "..">>)
       /\ Tree(c)[i].ents["."] = Nil /\ Tree(c)[i].kind = "dir"
  <2>1. <<i, ".">> \in Positions \ {} /\ <<i, "..">> \in Positions \ {}
    BY <1>1, <1>2 DEF Positions
  <2>2. Clear(Tree(c), <<i, ".">>) /\ Clear(Tree(c), <<i, "..">>)
    BY <2>1, <1>7, <1>14 DEF Adds
  <2>3. Tree(c)[i].ents["."] = Nil
    BY <2>2, <1>15 DEF Clear
  <2>4. \A m \in Nodes : [m EXCEPT !.ents = NoEntries].kind = m.kind
    BY DEF Nodes
  <2>5. f[i] \in Nodes /\ f[i].kind = "dir"
    BY <1>4, <1>6
  <2>6. Tree(c)[i].kind = "dir"
    <3>1. Calm(f, Tree(c)) /\ i \in Ino
      BY <1>2, <1>8, <1>11
    <3> QED BY <2>4, <2>5, <3>1, <1>15 DEF Calm
  <2> QED BY <2>2, <2>3, <2>6
<1>17. /\ Good(d, {}) /\ Counted(Tree(d)) /\ Safe(Tree(c), Tree(d), Positions)
       /\ WithName(Tree(c), i, ".", i) \in Trees /\ Calm(WithName(Tree(c), i, ".", i), Tree(d))
       /\ Held(Tree(d), i, <<i, ".">>)
       /\ d.fh = c.fh /\ d.dh = [c.dh EXCEPT ![i] = @ - 1]
  <2>1. Good(c, {}) /\ Counted(Tree(c)) /\ c.dh[i] > 0 /\ i \in Ino /\ Pinned(c, i, {})
    BY <1>2, <1>11, <1>12, <1>13, <1>14
  <2>2. "." \in Names => i \notin {i, Root}
    BY <1>1
  <2>3. {} \ {i} = {}
    OBVIOUS
  <2>4. /\ Good(d, {} \ {i}) /\ Counted(Tree(d)) /\ Safe(Tree(c), Tree(d), Positions)
       /\ WithName(Tree(c), i, ".", i) \in Trees /\ Calm(WithName(Tree(c), i, ".", i), Tree(d))
       /\ Held(Tree(d), i, <<i, ".">>)
       /\ d.fh = c.fh /\ d.dh = [c.dh EXCEPT ![i] = @ - 1]
    <3>1. Tree(c)[i].ents["."] = Nil /\ "." \in Name
      BY <1>1, <1>16
    <3> QED BY <2>1, <2>2, <3>1, LinkFine, SMTT(30)
  <2> HIDE DEF d
  <2> QED BY <2>3, <2>4
<1> HIDE DEF d
<1>18. Adds(Tree(c), Tree(d), {<<i, ".">>})
  BY <1>1, <1>2, <1>14, <1>15, <1>17, NamedAdds
<1>19. Tree(d)[i] # Nil /\ Tree(d)[i].ents[".."] = Nil
  <2>1. <<i, "..">> \in Positions \ {<<i, ".">>}
    BY <1>1, <1>2 DEF Positions
  <2>2. Clear(Tree(d), <<i, "..">>)
    BY <2>1, <1>16, <1>18 DEF Adds
  <2>3. Tree(d)[i] # Nil
    BY <1>17 DEF Held
  <2> QED BY <2>2, <2>3 DEF Clear
<1>20. d.dh \in [Ino -> Nat] /\ d.dh[i] = 1 /\ d.dh[i] > 0
  BY <1>2, <1>12, <1>17
<1>21. <<i, ".">> \in Positions
  BY <1>1, <1>2 DEF Positions
<1>22. Tree(d) \in Trees
  BY <1>17 DEF Counted
<1>23. Pinned(d, q, {}) /\ Tree(d)[q] # Nil
  <2>1. CASE q = i
    BY <2>1, <1>17, HeldPinned
  <2>2. CASE Held(Tree(s), q, x)
    <3>1. Held(Tree(d), q, x)
      BY <2>2, <1>5, <1>14, <1>17 DEF Safe
    <3> QED BY <3>1, <1>17, HeldPinned
  <2> QED BY <2>1, <2>2
<1>24. /\ Good(t, {}) /\ Counted(Tree(t)) /\ Safe(Tree(d), Tree(t), Positions)
       /\ WithName(Tree(d), i, "..", q) \in Trees /\ Calm(WithName(Tree(d), i, "..", q), Tree(t))
       /\ Held(Tree(t), q, <<i, "..">>)
       /\ t.fh = d.fh /\ t.dh = [d.dh EXCEPT ![i] = @ - 1]
  <2>1. Good(d, {}) /\ Counted(Tree(d)) /\ d.dh[i] > 0 /\ i \in Ino /\ Pinned(d, q, {})
    BY <1>2, <1>17, <1>20, <1>23
  <2>2. ".." \in Names => q \notin {i, Root}
    BY <1>1
  <2>3. Tree(d)[i].ents[".."] = Nil /\ ".." \in Name
    BY <1>1, <1>19
  <2> QED BY <2>1, <2>2, <2>3, <1>3, LinkAgain
<1> HIDE <1>3
<1>25. Safe(Tree(s), Tree(t), Positions)
  BY <1>5, <1>14, <1>17, <1>24, SafeTrans
<1>26. Held(Tree(t), i, <<i, ".">>) /\ Tree(t)[i].kind = "dir"
  <2>1. Tree(t)[i].kind = Tree(d)[i].kind /\ Held(Tree(t), i, <<i, ".">>)
    BY <1>2, <1>17, <1>21, <1>24 DEF Safe
  <2>2. Tree(d)[i].kind = "dir"
    <3> DEFINE g == WithName(Tree(c), i, ".", i)
    <3>1. g = AddLinks(SetName(Tree(c), i, ".", i), i, 1)
      BY DEF WithName
    <3>2. Tree(c)[i].nlink + 1 \in Nat
      BY <1>2, <1>14, <1>15 DEF Trees, Nodes
    <3>3. g[i] # Nil /\ g[i].kind = Tree(c)[i].kind
      BY <3>1, <3>2, <1>1, <1>2, <1>14, <1>15, NameEdit
    <3>4. g \in Trees /\ Calm(g, Tree(d))
      BY <1>17
    <3> HIDE DEF g
    <3>5. \A m \in Nodes : [m EXCEPT !.ents = NoEntries].kind = m.kind
      BY DEF Nodes
    <3>6. g[i] \in Nodes
      BY <3>3, <3>4, <1>2 DEF Trees
    <3> QED BY <3>3, <3>4, <3>5, <3>6, <1>2, <1>16, <1>19 DEF Calm
  <2> QED BY <2>1, <2>2
<1>27. t.fh = s.fh /\ t.dh = s.dh
  <2>1. t.fh = s.fh
    BY <1>8, <1>11, <1>17, <1>24
  <2>2. \A j \in Ino : t.dh[j] = s.dh[j]
    BY <1>8, <1>9, <1>11, <1>12, <1>17, <1>20, <1>24
  <2>3. t.dh \in [Ino -> Nat]
    BY <1>24 DEF Good, Coherent, State
  <2> QED BY <2>1, <2>2, <2>3, <1>9
<1>28. Adds(Tree(s), Tree(t), {<<i, ".">>, <<i, "..">>})
  <2> DEFINE Y == {<<i, ".">>, <<i, "..">>}
  <2>1. Adds(Tree(s), f, {})
    <3> SUFFICES ASSUME NEW y \in Positions, Clear(Tree(s), y)
                 PROVE  Clear(f, y)
      BY DEF Adds
    <3>1. y[1] \in Ino /\ y[2] \in Name
      BY DEF Positions
    <3>2. CASE y[1] = i
      BY <3>1, <3>2, <1>4, <1>6 DEF Clear, NoEntries
    <3>3. CASE y[1] # i
      <4>1. f[y[1]] = Tree(s)[y[1]]
        BY <3>1, <3>3, <1>5 DEF Grown, Trees
      <4> QED BY <4>1 DEF Clear
    <3> QED BY <3>2, <3>3
  <2>2. Adds(Tree(d), Tree(t), {<<i, "..">>})
    BY <1>1, <1>2, <1>19, <1>22, <1>23, <1>24, NamedAdds
  <2>3. {} \subseteq Y /\ {<<i, ".">>} \subseteq Y /\ {<<i, "..">>} \subseteq Y
    OBVIOUS
  <2> HIDE DEF Y
  <2>4. Adds(Tree(s), f, Y) /\ Adds(f, Tree(c), Y)
    BY <2>1, <2>3, <1>14, AddsMore
  <2>5. Adds(Tree(c), Tree(d), Y) /\ Adds(Tree(d), Tree(t), Y)
    BY <2>2, <2>3, <1>18, AddsMore
  <2>6. Adds(Tree(s), Tree(c), Y)
    BY <2>4, AddsTrans
  <2>7. Adds(Tree(c), Tree(t), Y)
    BY <2>5, AddsTrans
  <2>8. Adds(Tree(s), Tree(t), Y)
    BY <2>6, <2>7, AddsTrans
  <2> QED BY <2>8 DEF Y
<1>29. ASSUME EnoughBlocks
       PROVE  LET g == WithName(WithName(f, i, ".", i), i, "..", q)
              IN  g \in Trees /\ Calm(g, Tree(t))
  <2> DEFINE h == WithName(f, i, ".", i)
             k == WithName(Tree(c), i, ".", i)
             g == WithName(h, i, "..", q)
             l == WithName(Tree(d), i, "..", q)
  <2>1. Calm(h, k)
    BY <1>1, <1>2, <1>5, <1>8, <1>11, <1>14, <1>15, <1>29, CalmWithName
  <2>2. h \in Trees
    BY <1>1, <1>2, <1>5, <1>6, WithNameAdds
  <2>3. Calm(k, Tree(d))
    BY <1>17
  <2> HIDE DEF h, k
  <2>4. Calm(h, Tree(d))
    BY <2>1, <2>2, <2>3, CalmTrans
  <2>5. h[i] # Nil /\ h[q] # Nil
    BY <2>4, <1>2, <1>19, <1>23 DEF Calm
  <2>6. g \in Trees
    BY <2>2, <2>5, <1>1, <1>2, WithNameAdds
  <2>7. Calm(g, l)
    BY <2>2, <2>4, <1>1, <1>2, <1>19, <1>22, <1>23, <1>29, CalmWithName
  <2>8. Calm(l, Tree(t))
    BY <1>24
  <2> HIDE DEF g, l
  <2>9. Calm(g, Tree(t))
    BY <2>6, <2>7, <2>8, CalmTrans
  <2> QED BY <2>6, <2>9 DEF g, h
<1> QED BY <1>2, <1>24, <1>25, <1>26, <1>27, <1>28, <1>29

-----------------------------------------------------------------------------
(* A new directory i below q: "." and ".." only.                           *)
NewDir(f, i, q) == WithName(WithName(Grown(f, i, "dir"), i, ".", i), i, "..", q)

(* The tree of a device that was just formatted: nothing.                  *)
NoTree == [i \in Ino |-> Nil]

(* The invariant holds of the empty device.                                *)
LEMMA BlankOK ==
    /\ Good(Blank, {}) /\ Tree(Blank) = NoTree /\ Counted(NoTree)
    /\ Blank.ifree = Ino
    /\ Blank.fh = [i \in Ino |-> 0] /\ Blank.dh = [i \in Ino |-> 0]
<1> DEFINE s == Blank
<1>1. /\ s.ifree = Ino /\ s.bfree = Blocks /\ s.inode = [i \in Ino |-> FreeSlot]
      /\ s.data = [i \in Ino |-> NoEntries] /\ s.files = [i \in Ino |-> Nil]
      /\ s.dirs = [i \in Ino |-> Nil] /\ s.closeF = {} /\ s.closeD = <<>>
      /\ s.fh = [i \in Ino |-> 0] /\ s.dh = [i \in Ino |-> 0]
  BY DEF Blank, Unmounted
<1> DEFINE A == [i \in Ino |-> Nil]
           Z == [i \in Ino |-> 0]
           T == [i \in Ino |-> FreeSlot]
           D == [i \in Ino |-> NoEntries]
<1>2. s = [ifree |-> Ino, bfree |-> Blocks, inode |-> T, data |-> D, files |-> A, dirs |-> A,
           closeF |-> {}, closeD |-> <<>>, fh |-> Z, dh |-> Z]
  <2> DEFINE r == [ifree |-> Ino, bfree |-> Blocks, inode |-> T, data |-> D,
                   files |-> Nil, dirs |-> Nil, closeF |-> {}, closeD |-> <<>>,
                   fh |-> Nil, dh |-> Nil]
  <2>1. s = Unmounted(r)
    BY DEF Blank
  <2> HIDE DEF s
  <2>2. s = [r EXCEPT !.files = A, !.dirs = A, !.closeF = {}, !.closeD = <<>>, !.fh = Z, !.dh = Z]
    BY <2>1 DEF Unmounted
  <2> HIDE DEF A, Z, T, D
  <2> QED BY <2>2
<1> HIDE DEF s
<1>3. FreeSlot \in DiskInode /\ FreeSlot.size = 0 /\ FreeSlot.kind = "free"
  BY DEF FreeSlot, DiskInode
<1>4. NoEntries \in Entries
  BY DEF NoEntries, Entries
<1>5. s \in State
  <2>1. T \in [Ino -> DiskInode] /\ D \in [Ino -> Entries]
    BY <1>3, <1>4
  <2>2. /\ A \in [Ino -> DkFile \union {Nil}] /\ A \in [Ino -> DkDir \union {Nil}]
        /\ Z \in [Ino -> Nat]
    OBVIOUS
  <2>3. {} \in SUBSET Ino /\ Ino \in SUBSET Ino /\ <<>> \in Seq(Ino)
    OBVIOUS
  <2> HIDE DEF A, Z, T, D
  <2> QED BY <1>2, <2>1, <2>2, <2>3, BlocksAssumption DEF State
<1>6. \A i \in Ino : Inode(s, i) = FreeSlot
  BY <1>1 DEF Inode
<1>7. ASSUME NEW i \in Ino PROVE Sound(s, i, {})
  BY <1>1, <1>7 DEF Sound
<1>8. Accounted(s)
  <2>1. Full(s) = {}
    BY <1>3, <1>6 DEF Full
  <2>2. Blocks + 0 = Blocks
    BY BlocksAssumption
  <2> QED BY <1>1, <2>1, <2>2, FS_EmptySet DEF Accounted
<1>9. Kept(s)
  BY <1>1 DEF Kept
<1>10. Tree(s) = NoTree
  BY <1>1 DEF Tree, NoTree
<1>11. Good(s, {})
  BY <1>5, <1>7, <1>8, <1>9 DEF Good, Coherent
<1>12. Counted(NoTree)
  <2>1. NoTree \in Trees /\ Proper(NoTree)
    BY DEF NoTree, Trees, Proper
  <2>2. ASSUME NEW i \in Ino PROVE Cardinality(Refs(NoTree, i)) <= 0
    <3>1. Refs(NoTree, i) = {}
      BY DEF Refs, NoTree, Positions
    <3> QED BY <3>1, FS_EmptySet
  <2>3. Covered(NoTree)
    BY <2>2 DEF Covered, NoTree
  <2> QED BY <2>1, <2>3 DEF Counted
<1> QED BY <1>1, <1>10, <1>11, <1>12 DEF s

(* format leaves the root, linked by its own entries.                      *)
LEMMA FormatOK ==
    /\ Fine(Format)
    /\ Format.fh = [i \in Ino |-> 0] /\ Format.dh = [i \in Ino |-> 0]
    /\ EnoughBlocks => /\ NewDir(NoTree, Root, Root) \in Trees
                       /\ Calm(NewDir(NoTree, Root, Root), Tree(Format))
<1> DEFINE s == Blank
           u == Mkdir(s, Root, Root)
           t == ApplyReleases(u)
           f == Grown(Tree(s), Root, "dir")
           x == <<Root, ".">>
<1>1. /\ Good(s, {}) /\ Tree(s) = NoTree /\ Counted(NoTree)
      /\ s.ifree = Ino /\ s.fh = [i \in Ino |-> 0] /\ s.dh = [i \in Ino |-> 0]
  BY BlankOK
<1> HIDE DEF s
<1>2. Root \in Ino /\ Root \in s.ifree /\ x \in Positions
  BY <1>1, InoAssumption DEF Positions, Name
<1>3. /\ Root \in Ino /\ Tree(s)[Root] = Nil /\ s.fh[Root] = 0 /\ s.dh[Root] = 0
      /\ Good(u, {}) /\ Counted(Tree(u)) /\ Safe(Tree(s), Tree(u), Positions)
      /\ Held(Tree(u), Root, <<Root, ".">>) /\ Tree(u)[Root].kind = "dir"
      /\ u.fh = s.fh /\ u.dh = s.dh
      /\ Adds(Tree(s), Tree(u), {<<Root, ".">>, <<Root, "..">>})
      /\ EnoughBlocks => LET g == WithName(WithName(f, Root, ".", Root), Root, "..", Root)
                         IN  g \in Trees /\ Calm(g, Tree(u))
  <2>1. Counted(Tree(s))
    BY <1>1
  <2> HIDE DEF f, u
  <2> QED BY <2>1, <1>1, <1>2, MkdirOK DEF f, u
<1>4. EnoughBlocks => /\ NewDir(NoTree, Root, Root) \in Trees
                      /\ Calm(NewDir(NoTree, Root, Root), Tree(u))
  BY <1>1, <1>3 DEF NewDir
<1> HIDE DEF u
<1>5. Fine(u)
  BY <1>3 DEF Fine, Sane, Rooted, RootLink
<1>6. Good(t, {}) /\ Calm(Tree(u), Tree(t)) /\ t.fh = u.fh /\ t.dh = u.dh
  BY <1>3, ApplyReleasesOK
<1> HIDE DEF t
<1>7. Fine(t)
  BY <1>5, <1>6, CalmFine
<1>8. EnoughBlocks => Calm(NewDir(NoTree, Root, Root), Tree(t))
  BY <1>4, <1>6, CalmTrans
<1>9. t = Format
  BY DEF t, u, s, Format
<1> QED BY <1>1, <1>3, <1>4, <1>6, <1>7, <1>8, <1>9

(* mkdir: the parent, held by x, survives until it is opened.              *)
LEMMA MkdirHandler ==
    ASSUME NEW s, Fine(s), NEW p \in Ino, NEW x \in Positions, Held(Tree(s), p, x),
           Tree(s)[p].kind = "dir", NEW n \in Names, Tree(s)[p].ents[n] = Nil,
           NEW i, i \in Allocatable(s)
    PROVE  LET t == mkdir(s, p, n, i)
               g == NewDir(Tree(s), i, p)
           IN  /\ Fine(t) /\ t.fh = s.fh /\ t.dh = s.dh
               /\ i = Nil => t = s
               /\ i # Nil =>
                    /\ i \in Ino /\ Vacant(s, i)
                    /\ EnoughBlocks => /\ g \in Trees /\ WithName(g, p, n, i) \in Trees
                                       /\ Calm(WithName(g, p, n, i), Tree(t))
<1> DEFINE t == mkdir(s, p, n, i)
           g == NewDir(Tree(s), i, p)
<1>1. CASE i = Nil
  <2>1. t = s
    BY <1>1 DEF mkdir
  <2> QED BY <1>1, <2>1
<1>2. CASE i # Nil
  <2> DEFINE u == Mkdir(s, i, p)
             f == Grown(Tree(s), i, "dir")
  <2>1. i \in s.ifree /\ Good(s, {}) /\ Counted(Tree(s)) /\ Sane(Tree(s))
    BY <1>2 DEF Allocatable, Exhausted, Fine, Sane
  <2>2. t = link(u, i, p, n)
    BY <1>2 DEF mkdir, link
  <2>3. /\ i \in Ino /\ Tree(s)[i] = Nil /\ s.fh[i] = 0 /\ s.dh[i] = 0
        /\ Good(u, {}) /\ Counted(Tree(u)) /\ Safe(Tree(s), Tree(u), Positions)
        /\ Held(Tree(u), i, <<i, ".">>) /\ Tree(u)[i].kind = "dir"
        /\ u.fh = s.fh /\ u.dh = s.dh
        /\ Adds(Tree(s), Tree(u), {<<i, ".">>, <<i, "..">>})
        /\ EnoughBlocks => LET h == WithName(WithName(f, i, ".", i), i, "..", p)
                           IN  h \in Trees /\ Calm(h, Tree(u))
    <3> HIDE DEF f, u
    <3> QED BY <2>1, MkdirOK DEF f, u
  <2>4. EnoughBlocks => g \in Trees /\ Calm(g, Tree(u))
    BY <2>3 DEF NewDir
  <2> HIDE DEF t, u, f, g
  <2>5. Fine(u)
    <3>1. RootLink \in Positions
      BY InoAssumption DEF RootLink, Positions, Name
    <3> QED BY <3>1, <2>1, <2>3, SafeSane DEF Fine
  <2>6. Held(Tree(u), p, x) /\ Tree(u)[p].kind = "dir"
    BY <2>3 DEF Safe
  <2>7. Pinned(u, p, {}) /\ Inode(u, p).kind = "dir"
    BY <2>3, <2>6, HeldPinned
  <2>8. i \notin {p, Root}
    BY <2>1, <2>3 DEF Held, Sane, Rooted
  <2>9. n \in Name /\ n # "." /\ n # ".."
    BY NamesAssumption DEF Name
  <2>10. Tree(u)[p].ents[n] = Nil
    <3>1. <<p, n>> \in Positions \ {<<i, ".">>, <<i, "..">>}
      BY <2>9 DEF Positions
    <3>2. Clear(Tree(s), <<p, n>>)
      BY DEF Clear
    <3>3. Clear(Tree(u), <<p, n>>)
      BY <3>1, <3>2, <2>3 DEF Adds
    <3> QED BY <3>3, <2>6 DEF Clear, Held
  <2>11. <<i, ".">> \in Positions
    BY <2>3 DEF Positions, Name
  <2>12. /\ Fine(t) /\ t.fh = u.fh /\ t.dh = u.dh
         /\ EnoughBlocks => Calm(WithName(Tree(u), p, n, i), Tree(t))
    <3> DEFINE w == link(u, i, p, n)
    <3>1. Held(Tree(u), i, <<i, ".">>) /\ i \in Ino
      BY <2>3
    <3>2. /\ Fine(w) /\ w.fh = u.fh /\ w.dh = u.dh
          /\ WithName(Tree(u), p, n, i) \in Trees
          /\ EnoughBlocks => Calm(WithName(Tree(u), p, n, i), Tree(w))
      BY <3>1, <2>5, <2>7, <2>8, <2>10, <2>11, LinkHandler
    <3>3. t = w
      BY <2>2
    <3> HIDE DEF w
    <3> QED BY <3>2, <3>3
  <2> HIDE <2>2
  <2>13. ASSUME EnoughBlocks
         PROVE  g \in Trees /\ WithName(g, p, n, i) \in Trees /\ Calm(WithName(g, p, n, i), Tree(t))
    <3>1. g \in Trees /\ Calm(g, Tree(u)) /\ Tree(u) \in Trees
      BY <2>3, <2>4, <2>13 DEF Counted
    <3>2. Tree(u)[p] # Nil /\ Tree(u)[i] # Nil
      BY <2>3, <2>6 DEF Held
    <3>3. g[p] # Nil /\ g[i] # Nil
      BY <3>1, <3>2, <2>3 DEF Calm
    <3>4. WithName(g, p, n, i) \in Trees
      BY <3>1, <3>3, <2>3, <2>9, WithNameAdds
    <3>5. Calm(WithName(g, p, n, i), WithName(Tree(u), p, n, i))
      BY <3>1, <3>2, <2>3, <2>9, <2>13, CalmWithName
    <3>6. Calm(WithName(g, p, n, i), Tree(t))
      BY <3>4, <3>5, <2>12, <2>13, CalmTrans
    <3> QED BY <3>1, <3>4, <3>6
  <2>14. Vacant(s, i)
    BY <2>3 DEF Vacant
  <2> QED BY <1>2, <2>3, <2>12, <2>13, <2>14 DEF t, g
<1> QED BY <1>1, <1>2

-----------------------------------------------------------------------------
(* Attributes of the tree change.                                          *)
SetSuid(f, i, suid) == [f EXCEPT ![i].suid = suid]
SetSize(f, i, size) == [f EXCEPT ![i].size = size]

(* New set-id bits change one node.                                        *)
LEMMA SetSuidTree ==
    ASSUME NEW f \in Trees, NEW i \in Ino, f[i] # Nil, NEW b \in BOOLEAN
    PROVE  /\ SetSuid(f, i, b) \in Trees /\ SetSuid(f, i, b)[i] = [f[i] EXCEPT !.suid = b]
           /\ \A j \in Ino \ {i} : SetSuid(f, i, b)[j] = f[j]
<1> DEFINE m == [f[i] EXCEPT !.suid = b]
<1>1. m \in Nodes
  BY DEF Trees, Nodes
<1>2. SetSuid(f, i, b) = [f EXCEPT ![i] = m]
  BY DEF SetSuid
<1> HIDE DEF m
<1> QED BY <1>1, <1>2 DEF Trees, m

(* A new size changes one node.                                            *)
LEMMA SetSizeTree ==
    ASSUME NEW f \in Trees, NEW i \in Ino, f[i] # Nil, NEW z \in 0 .. 1
    PROVE  /\ SetSize(f, i, z) \in Trees /\ SetSize(f, i, z)[i] = [f[i] EXCEPT !.size = z]
           /\ \A j \in Ino \ {i} : SetSize(f, i, z)[j] = f[j]
<1> DEFINE m == [f[i] EXCEPT !.size = z]
<1>1. m \in Nodes
  BY DEF Trees, Nodes
<1>2. SetSize(f, i, z) = [f EXCEPT ![i] = m]
  BY DEF SetSize
<1> HIDE DEF m
<1> QED BY <1>1, <1>2 DEF Trees, m

(* With enough blocks, a close list may be worked off before or after      *)
(* attributes change.                                                      *)
LEMMA CalmAttrs ==
    ASSUME NEW f \in Trees, NEW g \in Trees, Calm(f, g), EnoughBlocks, NEW i \in Ino, g[i] # Nil,
           NEW b, NEW z
    PROVE  Calm(SetSuid(f, i, b), SetSuid(g, i, b)) /\ Calm(SetSize(f, i, z), SetSize(g, i, z))
<1>1. f[i] = g[i]
  BY DEF Calm
<1> DEFINE m == [f[i] EXCEPT !.suid = b]
           k == [f[i] EXCEPT !.size = z]
<1>2. SetSuid(f, i, b) = [f EXCEPT ![i] = m] /\ SetSize(f, i, z) = [f EXCEPT ![i] = k]
  BY DEF SetSuid, SetSize
<1>3. SetSuid(g, i, b) = [g EXCEPT ![i] = m] /\ SetSize(g, i, z) = [g EXCEPT ![i] = k]
  BY <1>1 DEF SetSuid, SetSize
<1> HIDE DEF m, k
<1>4. Calm([f EXCEPT ![i] = m], [g EXCEPT ![i] = m])
  BY CalmNew
<1>5. Calm([f EXCEPT ![i] = k], [g EXCEPT ![i] = k])
  BY CalmNew
<1> QED BY <1>2, <1>3, <1>4, <1>5

(* Attributes change in the cache.                                         *)
LEMMA AttrEdit ==
    ASSUME NEW s, Fine(s), NEW i \in Ino, s.files[i] # Nil,
           NEW f \in DkFile, f.kind = s.files[i].kind, f.nlink = s.files[i].nlink, f.dirty,
           NEW n \in Nat, n = s.bfree + s.files[i].size - f.size,
           f.size = s.files[i].size \/ f.kind = "file",
           NEW t, Edited(s, t, i, f, n)
    PROVE  /\ Fine(t) /\ Safe(Tree(s), Tree(t), Positions)
           /\ t.fh = s.fh /\ t.dh = s.dh /\ t.files[i] = f
           /\ f.size = s.files[i].size => Tree(t) = SetSuid(Tree(s), i, f.suid)
           /\ f.suid = s.files[i].suid /\ f.kind = "file" => Tree(t) = SetSize(Tree(s), i, f.size)
<1>1. Good(s, {}) /\ Coherent(s, {}) /\ s \in State /\ Sane(Tree(s)) /\ Counted(Tree(s))
  BY DEF Fine, Good, Coherent, Sane
<1>2. /\ Good(t, {}) /\ Alike(Tree(s), Tree(t))
      /\ \A j \in Ino \ {i} : Tree(t)[j] = Tree(s)[j]
      /\ Tree(t)[i] = Refreshed(Tree(s)[i], f)
      /\ t.fh = s.fh /\ t.dh = s.dh /\ t.dirs = s.dirs /\ t.files[i] = f /\ t.files[i] # Nil
  BY <1>1, EditGood
<1>3. Tree(t) \in Trees /\ Tree(s) \in Trees
  BY <1>1, <1>2, TreeType DEF Good
<1>4. Counted(Tree(t)) /\ Safe(Tree(s), Tree(t), Positions)
  BY <1>1, <1>2, <1>3, AlikeCounted
<1>5. Fine(t)
  <2>1. RootLink \in Positions
    BY InoAssumption DEF RootLink, Positions, Name
  <2> QED BY <2>1, <1>1, <1>2, <1>4, SafeSane DEF Fine
<1>6. /\ Tree(s)[i] # Nil /\ Tree(s)[i] \in Nodes /\ Inode(s, i) = s.files[i]
      /\ Tree(s)[i].kind = s.files[i].kind /\ Tree(s)[i].nlink = s.files[i].nlink
      /\ Tree(s)[i].suid = s.files[i].suid
      /\ Tree(s)[i].size = IF s.files[i].kind = "dir" THEN 0 ELSE s.files[i].size
  <2>1. i \notin s.ifree /\ Inode(s, i) = s.files[i]
    BY <1>1 DEF Coherent, Sound, Inode
  <2>2. Tree(s)[i] = NodeOf(s, i)
    BY <2>1 DEF Tree
  <2>3. Tree(s)[i] # Nil /\ Tree(s)[i] \in Nodes
    BY <2>1, <1>1, TreeFacts
  <2> QED BY <2>1, <2>2, <2>3 DEF NodeOf
<1>7. f.suid \in BOOLEAN /\ f.size \in 0 .. 1 /\ f.kind # "dir" => f.kind = "file"
  BY DEF DkFile
<1>8. f.size \in 0 .. 1 /\ f.suid \in BOOLEAN
  BY DEF DkFile
<1>9. ASSUME f.size = s.files[i].size PROVE Tree(t) = SetSuid(Tree(s), i, f.suid)
  <2>1. Refreshed(Tree(s)[i], f) = [Tree(s)[i] EXCEPT !.suid = f.suid]
    <3> DEFINE m == Tree(s)[i]
    <3>1. m \in Nodes /\ m.nlink = f.nlink /\ m.size = IF m.kind = "dir" THEN 0 ELSE f.size
      BY <1>6, <1>9
    <3> HIDE DEF m
    <3>2. Refreshed(m, f) = [kind |-> m.kind, nlink |-> m.nlink, suid |-> f.suid, size |-> m.size,
                             ents |-> m.ents]
      BY <3>1 DEF Refreshed
    <3>3. \A b : [m EXCEPT !.suid = b] = [kind |-> m.kind, nlink |-> m.nlink, suid |-> b,
                                          size |-> m.size, ents |-> m.ents]
      BY <3>1 DEF Nodes
    <3> QED BY <3>2, <3>3 DEF m
  <2>2. /\ SetSuid(Tree(s), i, f.suid) \in Trees
        /\ SetSuid(Tree(s), i, f.suid)[i] = [Tree(s)[i] EXCEPT !.suid = f.suid]
        /\ \A j \in Ino \ {i} : SetSuid(Tree(s), i, f.suid)[j] = Tree(s)[j]
    BY <1>3, <1>6, <1>8, SetSuidTree
  <2>3. \A j \in Ino : SetSuid(Tree(s), i, f.suid)[j] = Tree(t)[j]
    BY <2>1, <2>2, <1>2
  <2> QED BY <2>2, <2>3, <1>3 DEF Trees
<1>10. ASSUME f.suid = s.files[i].suid, f.kind = "file" PROVE Tree(t) = SetSize(Tree(s), i, f.size)
  <2>1. Refreshed(Tree(s)[i], f) = [Tree(s)[i] EXCEPT !.size = f.size]
    <3> DEFINE m == Tree(s)[i]
    <3>1. m \in Nodes /\ m.nlink = f.nlink /\ m.suid = f.suid /\ m.kind # "dir"
      BY <1>6, <1>10
    <3> HIDE DEF m
    <3>2. Refreshed(m, f) = [kind |-> m.kind, nlink |-> m.nlink, suid |-> m.suid, size |-> f.size,
                             ents |-> m.ents]
      BY <3>1 DEF Refreshed
    <3>3. \A z : [m EXCEPT !.size = z] = [kind |-> m.kind, nlink |-> m.nlink, suid |-> m.suid,
                                          size |-> z, ents |-> m.ents]
      BY <3>1 DEF Nodes
    <3> QED BY <3>2, <3>3 DEF m
  <2>2. /\ SetSize(Tree(s), i, f.size) \in Trees
        /\ SetSize(Tree(s), i, f.size)[i] = [Tree(s)[i] EXCEPT !.size = f.size]
        /\ \A j \in Ino \ {i} : SetSize(Tree(s), i, f.size)[j] = Tree(s)[j]
    BY <1>3, <1>6, <1>8, SetSizeTree
  <2>3. \A j \in Ino : SetSize(Tree(s), i, f.size)[j] = Tree(t)[j]
    BY <2>1, <2>2, <1>2
  <2> QED BY <2>2, <2>3, <1>3 DEF Trees
<1> QED BY <1>2, <1>4, <1>5, <1>9, <1>10

(* Handles on a cached file come and go.                                   *)
LEMMA FileHandles ==
    ASSUME NEW s, Fine(s), NEW i \in Ino
    PROVE  /\ s.files[i] # Nil =>
                LET t == CloneFile(s, i)
                IN  /\ Fine(t) /\ Tree(t) = Tree(s) /\ Still(s, t)
                    /\ t.fh = [s.fh EXCEPT ![i] = @ + 1] /\ t.dh = s.dh
           /\ s.fh[i] > 0 =>
                LET t == DropFileHandle(s, i)
                IN  /\ Fine(t) /\ Tree(t) = Tree(s) /\ Still(s, t)
                    /\ t.fh = [s.fh EXCEPT ![i] = @ - 1] /\ t.dh = s.dh
<1>1. Good(s, {})
  BY DEF Fine
<1>2. ASSUME s.files[i] # Nil
      PROVE  LET t == CloneFile(s, i)
             IN  /\ Fine(t) /\ Tree(t) = Tree(s) /\ Still(s, t)
                 /\ t.fh = [s.fh EXCEPT ![i] = @ + 1] /\ t.dh = s.dh
  <2> DEFINE t == CloneFile(s, i)
  <2>1. /\ Good(t, {}) /\ Tree(t) = Tree(s) /\ Still(s, t)
        /\ t.fh = [s.fh EXCEPT ![i] = @ + 1] /\ t.dh = s.dh
        /\ t.closeF = s.closeF /\ t.closeD = s.closeD
    BY <1>1, <1>2, CloneFileOK
  <2> HIDE DEF t
  <2>2. Fine(t)
    BY <2>1 DEF Fine
  <2> QED BY <2>1, <2>2 DEF t
<1>3. ASSUME s.fh[i] > 0
      PROVE  LET t == DropFileHandle(s, i)
             IN  /\ Fine(t) /\ Tree(t) = Tree(s) /\ Still(s, t)
                 /\ t.fh = [s.fh EXCEPT ![i] = @ - 1] /\ t.dh = s.dh
  <2> DEFINE t == DropFileHandle(s, i)
  <2>1. /\ Good(t, {}) /\ Tree(t) = Tree(s) /\ Still(s, t)
        /\ t.fh = [s.fh EXCEPT ![i] = @ - 1] /\ t.dh = s.dh
        /\ t.closeF = s.closeF \union {i} /\ t.closeD = s.closeD
    BY <1>1, <1>3, DropFileOK
  <2> HIDE DEF t
  <2>2. Fine(t)
    BY <2>1 DEF Fine
  <2> QED BY <2>1, <2>2 DEF t
<1> QED BY <1>2, <1>3

(* One more handle and one less are the handles from before.               *)
LEMMA UpDown ==
    ASSUME NEW h \in [Ino -> Nat], NEW i \in Ino
    PROVE  /\ [[h EXCEPT ![i] = @ + 1] EXCEPT ![i] = @ - 1] = h
           /\ [h EXCEPT ![i] = @ + 1][i] > 0
<1>1. h[i] \in Nat /\ h[i] + 1 - 1 = h[i]
  OBVIOUS
<1>2. [[h EXCEPT ![i] = @ + 1] EXCEPT ![i] = @ - 1] = h
  <2> DEFINE g == [h EXCEPT ![i] = @ + 1]
             k == [g EXCEPT ![i] = @ - 1]
  <2>1. g[i] = h[i] + 1 /\ g \in [Ino -> Nat] /\ \A j \in Ino \ {i} : g[j] = h[j]
    BY <1>1
  <2> HIDE DEF g
  <2>2. k[i] = h[i] /\ \A j \in Ino \ {i} : k[j] = h[j]
    BY <1>1, <2>1
  <2>3. k = [j \in Ino |-> k[j]] /\ h = [j \in Ino |-> h[j]]
    BY <2>1
  <2> HIDE DEF k
  <2>4. k = h
    BY <2>2, <2>3
  <2> QED BY <2>4 DEF k, g
<1>3. [h EXCEPT ![i] = @ + 1][i] > 0
  BY <1>1
<1> QED BY <1>2, <1>3

(* open: the inode has a handle and is cached.                             *)
LEMMA OpenHandler ==
    ASSUME NEW s, Fine(s), NEW i \in Ino, Pinned(s, i, {})
    PROVE  LET t == open(s, i)
           IN  /\ Fine(t) /\ Calm(Tree(s), Tree(t)) /\ Safe(Tree(s), Tree(t), Positions)
               /\ t.fh = [s.fh EXCEPT ![i] = @ + 1] /\ t.dh = s.dh /\ t.fh[i] > 0
               /\ t.files[i] # Nil /\ Tree(t)[i] # Nil /\ Inode(t, i).kind = Inode(s, i).kind
<1> DEFINE t == open(s, i)
<1>1. Good(s, {}) /\ s \in State /\ Coherent(s, {}) /\ {} \ {i} = {}
  BY DEF Fine, Good, Coherent
<1>2. /\ Good(t, {} \ {i}) /\ Calm(Tree(s), Tree(t))
      /\ t.fh = [s.fh EXCEPT ![i] = @ + 1] /\ t.dh = s.dh
  BY <1>1, OpenOK DEF open
<1> HIDE DEF t
<1>3. Good(t, {}) /\ Coherent(t, {})
  BY <1>1, <1>2 DEF Good
<1>4. Fine(t) /\ Safe(Tree(s), Tree(t), Positions)
  BY <1>2, <1>3, CalmFine
<1>5. s.fh \in [Ino -> Nat]
  BY <1>1 DEF State
<1>6. t.fh[i] > 0
  BY <1>2, <1>5
<1>7. t.files[i] # Nil /\ i \notin t.ifree
  BY <1>3, <1>6 DEF Coherent, Sound
<1>8. Tree(t)[i] # Nil /\ Tree(t)[i].kind = Inode(t, i).kind
  BY <1>3, <1>7, TreeFacts
<1>9. Tree(s)[i] # Nil /\ Tree(s)[i].kind = Inode(s, i).kind /\ Tree(s)[i] \in Nodes
  BY <1>1, TreeFacts DEF Pinned
<1>10. Tree(t)[i].kind = Tree(s)[i].kind
  <2>1. \A m \in Nodes : [m EXCEPT !.ents = NoEntries].kind = m.kind
    BY DEF Nodes
  <2> QED BY <2>1, <1>2, <1>8, <1>9 DEF Calm
<1> QED BY <1>2, <1>4, <1>6, <1>7, <1>8, <1>9, <1>10 DEF t

-----------------------------------------------------------------------------
(* What a handle is on is cached, allocated and may be opened.             *)
LEMMA Handled ==
    ASSUME NEW s, Fine(s), NEW i \in Ino, s.fh[i] > 0 \/ s.dh[i] > 0 \/ s.files[i] # Nil
    PROVE  /\ s.files[i] # Nil /\ s.files[i] \in DkFile /\ Inode(s, i) = s.files[i]
           /\ Tree(s)[i] # Nil /\ Tree(s)[i] \in Nodes /\ Tree(s)[i].kind = s.files[i].kind
           /\ s.fh[i] > 0 \/ s.dh[i] > 0 => Pinned(s, i, {})
           /\ s.dh[i] > 0 => s.dirs[i] # Nil /\ s.files[i].kind = "dir"
<1>1. s \in State /\ Coherent(s, {}) /\ Sound(s, i, {})
  BY DEF Fine, Good, Coherent
<1>2. s.files[i] # Nil /\ i \notin s.ifree
  BY <1>1 DEF Sound
<1>3. s.files[i] \in DkFile /\ Inode(s, i) = s.files[i]
  BY <1>1, <1>2, FileType
<1>4. Tree(s)[i] # Nil /\ Tree(s)[i] \in Nodes /\ Tree(s)[i].kind = s.files[i].kind
  BY <1>1, <1>2, <1>3, TreeFacts
<1>5. s.dh[i] > 0 => s.dirs[i] # Nil /\ s.files[i].kind = "dir"
  BY <1>1 DEF Sound
<1>6. s.fh[i] > 0 \/ s.dh[i] > 0 => Pinned(s, i, {})
  BY <1>2 DEF Pinned
<1> QED BY <1>2, <1>3, <1>4, <1>5, <1>6

(* The tree with the attributes that chmod or truncate sets.               *)
WithAttrs(f, i, suid, size) == IF size = Nil THEN SetSuid(f, i, suid) ELSE SetSize(f, i, size)

(* The assignments of setattr.                                             *)
LEMMA SetAttrsFine ==
    ASSUME NEW s, Fine(s), NEW i \in Ino, s.files[i] # Nil, NEW suid, NEW size,
           \/ suid \in BOOLEAN /\ size = Nil
           \/ suid = Nil /\ size = 0 /\ s.files[i].kind = "file",
           NEW t, t = SetAttrs([s EXCEPT !.files[i].dirty = TRUE], i, suid, size)
    PROVE  /\ Fine(t) /\ Safe(Tree(s), Tree(t), Positions)
           /\ t.fh = s.fh /\ t.dh = s.dh /\ t.files[i] # Nil
           /\ Tree(t) = WithAttrs(Tree(s), i, suid, size)
<1>1. Good(s, {})
  BY DEF Fine
<1>2. (suid \in BOOLEAN /\ size = Nil) \/ (suid = Nil /\ size = 0)
  OBVIOUS
<1>3. PICK f \in DkFile, n \in Nat :
             /\ f.kind = s.files[i].kind /\ f.nlink = s.files[i].nlink
             /\ f.suid = IF suid = Nil THEN s.files[i].suid ELSE suid
             /\ f.size = IF size = Nil THEN s.files[i].size ELSE 0
             /\ f.dirty /\ n = s.bfree + s.files[i].size - f.size /\ Edited(s, t, i, f, n)
  BY <1>1, <1>2, SetAttrsEdits
<1>4. f.size = s.files[i].size \/ f.kind = "file"
  BY <1>3
<1>5. /\ Fine(t) /\ Safe(Tree(s), Tree(t), Positions)
      /\ t.fh = s.fh /\ t.dh = s.dh /\ t.files[i] = f
      /\ f.size = s.files[i].size => Tree(t) = SetSuid(Tree(s), i, f.suid)
      /\ f.suid = s.files[i].suid /\ f.kind = "file" => Tree(t) = SetSize(Tree(s), i, f.size)
  BY <1>3, <1>4, AttrEdit
<1>6. t.files[i] # Nil
  BY <1>5, NilAssumption
<1>7. Tree(t) = WithAttrs(Tree(s), i, suid, size)
  BY <1>3, <1>5, NilAssumption DEF WithAttrs
<1> QED BY <1>5, <1>6, <1>7

(* setattr, with a handle it was given or one of its own.                  *)
LEMMA SetattrHandler ==
    ASSUME NEW s, Fine(s), NEW i \in Ino, NEW given \in BOOLEAN,
           given => s.fh[i] > 0, ~given => Pinned(s, i, {}), NEW suid, NEW size,
           \/ suid \in BOOLEAN /\ size = Nil
           \/ suid = Nil /\ size = 0 /\ Inode(s, i).kind = "file"
    PROVE  LET t == setattr(s, i, given, suid, size)
           IN  /\ Fine(t) /\ t.fh = s.fh /\ t.dh = s.dh
               /\ EnoughBlocks => /\ WithAttrs(Tree(s), i, suid, size) \in Trees
                                  /\ Calm(WithAttrs(Tree(s), i, suid, size), Tree(t))
<1> DEFINE u == IF given THEN CloneFile(s, i) ELSE open(s, i)
           v == SetAttrs([u EXCEPT !.files[i].dirty = TRUE], i, suid, size)
           w == getattr(v, i)
           t == setattr(s, i, given, suid, size)
<1>1. t = DropFileHandle(w, i)
  BY DEF setattr
<1>2. s.fh \in [Ino -> Nat] /\ Tree(s) \in Trees
  BY TreeType DEF Fine, Good, Coherent, State
<1>3. /\ Fine(u) /\ Calm(Tree(s), Tree(u)) /\ u.fh = [s.fh EXCEPT ![i] = @ + 1] /\ u.dh = s.dh
      /\ Inode(u, i).kind = Inode(s, i).kind
  <2>1. CASE given
    <3> DEFINE c == CloneFile(s, i)
    <3>1. s.files[i] # Nil /\ u = c
      BY <2>1, Handled
    <3>2. /\ Fine(c) /\ Tree(c) = Tree(s) /\ Still(s, c)
          /\ c.fh = [s.fh EXCEPT ![i] = @ + 1] /\ c.dh = s.dh
      BY <3>1, FileHandles
    <3> HIDE DEF c, u
    <3>3. Inode(c, i) = Inode(s, i)
      BY <3>2 DEF Inode, Still
    <3> QED BY <3>1, <3>2, <3>3, CalmSame
  <2>2. CASE ~given
    <3> DEFINE o == open(s, i)
    <3>1. /\ Fine(o) /\ Calm(Tree(s), Tree(o)) /\ Safe(Tree(s), Tree(o), Positions)
          /\ o.fh = [s.fh EXCEPT ![i] = @ + 1] /\ o.dh = s.dh /\ o.fh[i] > 0
          /\ o.files[i] # Nil /\ Tree(o)[i] # Nil /\ Inode(o, i).kind = Inode(s, i).kind
      BY <2>2, OpenHandler
    <3>2. u = o
      BY <2>2
    <3> HIDE DEF o, u
    <3> QED BY <3>1, <3>2
  <2> QED BY <2>1, <2>2
<1> HIDE DEF u, t
<1>4. u.fh[i] > 0 /\ [u.fh EXCEPT ![i] = @ - 1] = s.fh
  BY <1>2, <1>3, UpDown
<1>5. u.files[i] # Nil /\ Inode(u, i) = u.files[i] /\ Tree(u)[i] # Nil
  BY <1>3, <1>4, Handled
<1>6. /\ Fine(v) /\ Safe(Tree(u), Tree(v), Positions) /\ v.fh = u.fh /\ v.dh = u.dh /\ v.files[i] # Nil
      /\ Tree(v) = WithAttrs(Tree(u), i, suid, size)
  BY <1>3, <1>5, SetAttrsFine
<1> HIDE DEF v
<1>7. Pinned(v, i, {})
  BY <1>4, <1>6, Handled
<1>8. /\ Fine(w) /\ Calm(Tree(v), Tree(w)) /\ Safe(Tree(v), Tree(w), Positions)
      /\ w.fh = v.fh /\ w.dh = v.dh /\ w.dirs = v.dirs /\ w.files[i] # Nil
  BY <1>6, <1>7, GetattrOK
<1> HIDE DEF w
<1>9. w.fh[i] > 0
  BY <1>4, <1>6, <1>8
<1> DEFINE d == DropFileHandle(w, i)
<1>10. /\ Fine(d) /\ Tree(d) = Tree(w) /\ Still(w, d)
       /\ d.fh = [w.fh EXCEPT ![i] = @ - 1] /\ d.dh = w.dh
  BY <1>8, <1>9, FileHandles
<1>11. t = d
  BY <1>1
<1> HIDE DEF d
<1>12. t.fh = s.fh /\ t.dh = s.dh /\ Fine(t) /\ Calm(Tree(v), Tree(t))
  BY <1>3, <1>4, <1>6, <1>8, <1>10, <1>11
<1>13. ASSUME EnoughBlocks
       PROVE  /\ WithAttrs(Tree(s), i, suid, size) \in Trees
              /\ Calm(WithAttrs(Tree(s), i, suid, size), Tree(t))
  <2>1. Tree(u) \in Trees
    BY <1>3, TreeType DEF Fine, Good
  <2>2. Tree(s)[i] # Nil
    BY <1>3, <1>5 DEF Calm
  <2>3. WithAttrs(Tree(s), i, suid, size) \in Trees
    <3>1. CASE size = Nil
      BY <3>1, <2>2, <1>2, SetSuidTree, NilAssumption DEF WithAttrs
    <3>2. CASE size # Nil
      <4>1. size = 0 /\ size \in 0 .. 1
        BY <3>2
      <4> QED BY <3>2, <4>1, <2>2, <1>2, SetSizeTree DEF WithAttrs
    <3> QED BY <3>1, <3>2
  <2>4. /\ Calm(SetSuid(Tree(s), i, suid), SetSuid(Tree(u), i, suid))
        /\ Calm(SetSize(Tree(s), i, size), SetSize(Tree(u), i, size))
    BY <2>1, <1>2, <1>3, <1>5, <1>13, CalmAttrs
  <2>5. Calm(WithAttrs(Tree(s), i, suid, size), Tree(v))
    BY <2>4, <1>6 DEF WithAttrs
  <2> QED BY <2>3, <2>5, <1>12, CalmTrans
<1> QED BY <1>12, <1>13 DEF t

(* write: the size becomes 1, or stays as it is without a free block.      *)
LEMMA WriteHandler ==
    ASSUME NEW s, Fine(s), NEW i \in Ino, s.fh[i] > 0, Inode(s, i).kind = "file"
    PROVE  LET t == write(s, i)
           IN  /\ Fine(t) /\ Safe(Tree(s), Tree(t), Positions) /\ t.fh = s.fh /\ t.dh = s.dh
               /\ t.files[i] # Nil /\ Tree(t)[i] # Nil
               /\ \E size \in 0 .. 1 : Tree(t) = SetSize(Tree(s), i, size)
<1> DEFINE u == CloneFile(s, i)
           v == WriteBlock(u, i)
           t == write(s, i)
<1>1. t = DropFileHandle(v, i)
  BY DEF write
<1>2. s.fh \in [Ino -> Nat]
  BY DEF Fine, Good, Coherent, State
<1>3. s.files[i] # Nil /\ Inode(s, i) = s.files[i]
  BY Handled
<1>4. /\ Fine(u) /\ Tree(u) = Tree(s) /\ Still(s, u)
      /\ u.fh = [s.fh EXCEPT ![i] = @ + 1] /\ u.dh = s.dh
  BY <1>3, FileHandles
<1> HIDE DEF u, t
<1>5. u.fh[i] > 0 /\ [u.fh EXCEPT ![i] = @ - 1] = s.fh
  BY <1>2, <1>4, UpDown
<1>6. u.files[i] # Nil /\ u.files[i] \in DkFile /\ Tree(u)[i] # Nil /\ u.files[i].kind = "file"
  <2>1. u.files[i] # Nil /\ u.files[i] \in DkFile /\ Tree(u)[i] # Nil
    BY <1>4, <1>5, Handled
  <2>2. u.files[i].kind = "file"
    BY <1>3, <1>4 DEF Still
  <2> QED BY <2>1, <2>2
<1>7. u \in State
  BY <1>4 DEF Fine, Good, Coherent
<1>8. PICK f \in DkFile, n \in Nat :
        /\ Edited(u, v, i, f, n)
        /\ f.kind = u.files[i].kind /\ f.nlink = u.files[i].nlink /\ f.suid = u.files[i].suid
        /\ f.dirty /\ n = u.bfree + u.files[i].size - f.size
  BY <1>6, <1>7, WriteBlockEdits
<1> HIDE DEF v
<1>9. f.size = u.files[i].size \/ f.kind = "file"
  BY <1>6, <1>8
<1>10. /\ Fine(v) /\ Safe(Tree(u), Tree(v), Positions)
       /\ v.fh = u.fh /\ v.dh = u.dh /\ v.files[i] = f
       /\ f.size = u.files[i].size => Tree(v) = SetSuid(Tree(u), i, f.suid)
       /\ f.suid = u.files[i].suid /\ f.kind = "file" => Tree(v) = SetSize(Tree(u), i, f.size)
  BY <1>4, <1>6, <1>8, <1>9, AttrEdit
<1>11. v.fh[i] > 0
  BY <1>5, <1>10
<1> DEFINE d == DropFileHandle(v, i)
<1>12. /\ Fine(d) /\ Tree(d) = Tree(v) /\ Still(v, d)
       /\ d.fh = [v.fh EXCEPT ![i] = @ - 1] /\ d.dh = v.dh
  BY <1>10, <1>11, FileHandles
<1>13. t = d
  BY <1>1
<1> HIDE DEF d
<1>14. f.size \in 0 .. 1 /\ Tree(t) = SetSize(Tree(s), i, f.size)
  <2>1. f.size \in 0 .. 1
    BY DEF DkFile
  <2> QED BY <2>1, <1>4, <1>6, <1>8, <1>10, <1>12, <1>13
<1>15. t.fh = s.fh /\ t.dh = s.dh
  BY <1>4, <1>5, <1>10, <1>12, <1>13
<1>16. Fine(t) /\ Safe(Tree(s), Tree(t), Positions)
  BY <1>4, <1>10, <1>12, <1>13
<1>17. t.fh[i] > 0
  BY <1>15
<1>18. t.files[i] # Nil /\ Tree(t)[i] # Nil
  BY <1>16, <1>17, Handled
<1> QED BY <1>14, <1>15, <1>16, <1>18 DEF t

-----------------------------------------------------------------------------
(* flush leaves the tree as it is.                                         *)
LEMMA FlushHandler ==
    ASSUME NEW s, Fine(s), NEW i \in Ino, s.fh[i] > 0
    PROVE  LET t == flush(s, i)
           IN  Fine(t) /\ Tree(t) = Tree(s) /\ t.fh = s.fh /\ t.dh = s.dh
<1> DEFINE u == CloneFile(s, i)
           v == FlushFile(u, i)
           t == flush(s, i)
<1>1. t = DropFileHandle(v, i)
  BY DEF flush
<1>2. s.fh \in [Ino -> Nat] /\ s.files[i] # Nil
  BY Handled DEF Fine, Good, Coherent, State
<1>3. /\ Fine(u) /\ Tree(u) = Tree(s) /\ Still(s, u)
      /\ u.fh = [s.fh EXCEPT ![i] = @ + 1] /\ u.dh = s.dh
  BY <1>2, FileHandles
<1> HIDE DEF u, t
<1>4. u.fh[i] > 0 /\ [u.fh EXCEPT ![i] = @ - 1] = s.fh
  BY <1>2, <1>3, UpDown
<1>5. u.files[i] # Nil /\ Good(u, {})
  BY <1>3, <1>4, Handled DEF Fine
<1>6. /\ Good(v, {}) /\ Tree(v) = Tree(u) /\ v.fh = u.fh /\ v.dh = u.dh /\ v.dirs = u.dirs
      /\ v.files[i] # Nil
  BY <1>5, FlushFileOK
<1> HIDE DEF v
<1>7. Fine(v) /\ v.fh[i] > 0
  BY <1>3, <1>4, <1>6 DEF Fine
<1> DEFINE d == DropFileHandle(v, i)
<1>8. /\ Fine(d) /\ Tree(d) = Tree(v) /\ Still(v, d)
      /\ d.fh = [v.fh EXCEPT ![i] = @ - 1] /\ d.dh = v.dh
  BY <1>7, FileHandles
<1>9. t = d
  BY <1>1
<1> HIDE DEF d
<1> QED BY <1>3, <1>4, <1>6, <1>8, <1>9 DEF t

(* read leaves the tree as it is.                                          *)
LEMMA ReadHandler ==
    ASSUME NEW s, Fine(s), NEW i \in Ino, s.fh[i] > 0
    PROVE  LET t == read(s, i)
           IN  Fine(t) /\ Tree(t) = Tree(s) /\ t.fh = s.fh /\ t.dh = s.dh
<1> DEFINE u == CloneFile(s, i)
           t == read(s, i)
<1>1. t = DropFileHandle(u, i)
  BY DEF read
<1>2. s.fh \in [Ino -> Nat] /\ s.files[i] # Nil
  BY Handled DEF Fine, Good, Coherent, State
<1>3. /\ Fine(u) /\ Tree(u) = Tree(s) /\ Still(s, u)
      /\ u.fh = [s.fh EXCEPT ![i] = @ + 1] /\ u.dh = s.dh
  BY <1>2, FileHandles
<1> HIDE DEF u, t
<1>4. u.fh[i] > 0 /\ [u.fh EXCEPT ![i] = @ - 1] = s.fh
  BY <1>2, <1>3, UpDown
<1> DEFINE d == DropFileHandle(u, i)
<1>5. /\ Fine(d) /\ Tree(d) = Tree(u) /\ Still(u, d)
      /\ d.fh = [u.fh EXCEPT ![i] = @ - 1] /\ d.dh = u.dh
  BY <1>3, <1>4, FileHandles
<1>6. t = d
  BY <1>1
<1> HIDE DEF d
<1> QED BY <1>3, <1>4, <1>5, <1>6 DEF t

(* readlink opens the inode twice; it survives between, held or in use.    *)
LEMMA ReadlinkHandler ==
    ASSUME NEW s, Fine(s), NEW i \in Ino, Pinned(s, i, {}), NEW x \in Positions,
           Held(Tree(s), i, x) \/ s.fh[i] > 0
    PROVE  LET t == DropFileHandle(open(getattr(s, i), i), i)
           IN  Fine(t) /\ Calm(Tree(s), Tree(t)) /\ t.fh = s.fh /\ t.dh = s.dh
<1> DEFINE u == getattr(s, i)
           v == open(u, i)
           t == DropFileHandle(v, i)
<1>1. /\ Fine(u) /\ Calm(Tree(s), Tree(u)) /\ Safe(Tree(s), Tree(u), Positions)
      /\ u.fh = s.fh /\ u.dh = s.dh /\ u.dirs = s.dirs /\ u.files[i] # Nil
  BY GetattrOK
<1> HIDE DEF u
<1>2. u.fh \in [Ino -> Nat] /\ Tree(s) \in Trees
  BY <1>1, TreeType DEF Fine, Good, Coherent, State
<1>3. Pinned(u, i, {})
  <2>1. CASE s.fh[i] > 0
    BY <2>1, <1>1, Handled
  <2>2. CASE Held(Tree(s), i, x)
    <3>1. Held(Tree(u), i, x)
      BY <2>2, <1>1 DEF Safe
    <3> QED BY <3>1, <1>1, HeldPinned DEF Fine
  <2> QED BY <2>1, <2>2
<1>4. /\ Fine(v) /\ Calm(Tree(u), Tree(v)) /\ Safe(Tree(u), Tree(v), Positions)
      /\ v.fh = [u.fh EXCEPT ![i] = @ + 1] /\ v.dh = u.dh /\ v.fh[i] > 0
      /\ v.files[i] # Nil /\ Tree(v)[i] # Nil /\ Inode(v, i).kind = Inode(u, i).kind
  BY <1>1, <1>3, OpenHandler
<1> HIDE DEF v
<1>5. [v.fh EXCEPT ![i] = @ - 1] = u.fh
  BY <1>2, <1>4, UpDown
<1>6. /\ Fine(t) /\ Tree(t) = Tree(v) /\ Still(v, t)
      /\ t.fh = [v.fh EXCEPT ![i] = @ - 1] /\ t.dh = v.dh
  BY <1>4, FileHandles
<1> HIDE DEF t
<1>7. Calm(Tree(s), Tree(t))
  BY <1>1, <1>2, <1>4, <1>6, CalmTrans
<1> QED BY <1>1, <1>4, <1>5, <1>6, <1>7 DEF t, u, v

(* clear_set_bits.                                                         *)
LEMMA ClearSetBits ==
    ASSUME NEW s, Fine(s), NEW i \in Ino, s.files[i] # Nil
    PROVE  LET t == clear_set_bits(s, i)
           IN  Fine(t) /\ Tree(t) = SetSuid(Tree(s), i, FALSE) /\ t.fh = s.fh /\ t.dh = s.dh
<1> DEFINE t == clear_set_bits(s, i)
           d == [s EXCEPT !.files[i].dirty = TRUE]
           w == SetAttrs(d, i, FALSE, Nil)
<1>1. s \in State /\ s.files[i] \in DkFile
  BY Handled DEF Fine, Good, Coherent
<1>2. FALSE # Nil
  BY NilAssumption
<1>3. w = [d EXCEPT !.files[i].suid = FALSE]
  BY <1>2 DEF SetAttrs
<1>4. t = w
  <2> DEFINE f == s.files[i]
  <2>1. [[f EXCEPT !.dirty = TRUE] EXCEPT !.suid = FALSE] = [f EXCEPT !.suid = FALSE, !.dirty = TRUE]
    BY <1>1 DEF DkFile
  <2>2. t = [s EXCEPT !.files = [s.files EXCEPT ![i] = [f EXCEPT !.suid = FALSE, !.dirty = TRUE]]]
    BY <1>1 DEF clear_set_bits, State
  <2>3. w = [s EXCEPT !.files = [s.files EXCEPT ![i] = [[f EXCEPT !.dirty = TRUE] EXCEPT !.suid = FALSE]]]
    BY <1>1, <1>3 DEF State
  <2> HIDE DEF t, w, f
  <2> QED BY <2>1, <2>2, <2>3
<1>5. /\ Fine(w) /\ Safe(Tree(s), Tree(w), Positions)
      /\ w.fh = s.fh /\ w.dh = s.dh /\ w.files[i] # Nil
      /\ Tree(w) = WithAttrs(Tree(s), i, FALSE, Nil)
  <2> DEFINE b == FALSE
             v == SetAttrs(d, i, b, Nil)
  <2>1. b \in BOOLEAN /\ v = w
    OBVIOUS
  <2> HIDE DEF b, v, w
  <2>2. /\ Fine(v) /\ Safe(Tree(s), Tree(v), Positions)
        /\ v.fh = s.fh /\ v.dh = s.dh /\ v.files[i] # Nil
        /\ Tree(v) = WithAttrs(Tree(s), i, b, Nil)
    <3>1. v = SetAttrs([s EXCEPT !.files[i].dirty = TRUE], i, b, Nil)
      BY DEF v
    <3>2. (b \in BOOLEAN /\ Nil = Nil) \/ (b = Nil /\ Nil = 0 /\ s.files[i].kind = "file")
      BY <2>1
    <3> QED BY <3>1, <3>2, SetAttrsFine
  <2> QED BY <2>1, <2>2 DEF b
<1> HIDE DEF t, w
<1>6. WithAttrs(Tree(s), i, FALSE, Nil) = SetSuid(Tree(s), i, FALSE)
  BY DEF WithAttrs
<1> QED BY <1>4, <1>5, <1>6 DEF t

(* open by a user other than root.                                         *)
LEMMA OpenClearing ==
    ASSUME NEW s, Fine(s), NEW i \in Ino, Pinned(s, i, {})
    PROVE  LET t == clear_set_bits(open(s, i), i)
           IN  /\ Fine(t) /\ t.fh = [s.fh EXCEPT ![i] = @ + 1] /\ t.dh = s.dh
               /\ EnoughBlocks => /\ SetSuid(Tree(s), i, FALSE) \in Trees
                                  /\ Calm(SetSuid(Tree(s), i, FALSE), Tree(t))
<1> DEFINE u == open(s, i)
           t == clear_set_bits(u, i)
<1>1. /\ Fine(u) /\ Calm(Tree(s), Tree(u)) /\ Safe(Tree(s), Tree(u), Positions)
      /\ u.fh = [s.fh EXCEPT ![i] = @ + 1] /\ u.dh = s.dh /\ u.fh[i] > 0
      /\ u.files[i] # Nil /\ Tree(u)[i] # Nil /\ Inode(u, i).kind = Inode(s, i).kind
  BY OpenHandler
<1> HIDE DEF u
<1>2. Fine(t) /\ Tree(t) = SetSuid(Tree(u), i, FALSE) /\ t.fh = u.fh /\ t.dh = u.dh
  BY <1>1, ClearSetBits
<1> HIDE DEF t
<1>3. Tree(s) \in Trees /\ Tree(u) \in Trees
  BY <1>1, TreeType DEF Fine, Good
<1>4. ASSUME EnoughBlocks
      PROVE  SetSuid(Tree(s), i, FALSE) \in Trees /\ Calm(SetSuid(Tree(s), i, FALSE), Tree(t))
  <2>1. Tree(s)[i] # Nil /\ FALSE \in BOOLEAN
    BY <1>1 DEF Calm
  <2>2. SetSuid(Tree(s), i, FALSE) \in Trees
    BY <2>1, <1>3, SetSuidTree
  <2>3. /\ Calm(SetSuid(Tree(s), i, FALSE), SetSuid(Tree(u), i, FALSE))
        /\ Calm(SetSize(Tree(s), i, 0), SetSize(Tree(u), i, 0))
    BY <1>1, <1>3, <1>4, CalmAttrs
  <2> QED BY <2>2, <2>3, <1>2
<1> QED BY <1>1, <1>2, <1>4 DEF t, u

-----------------------------------------------------------------------------
(* symlink: mknod, and the target is written while there is a block.       *)
LEMMA SymlinkHandler ==
    ASSUME NEW s, Fine(s), NEW p \in Ino, Pinned(s, p, {}), Inode(s, p).kind = "dir", NEW n \in Names,
           Tree(s)[p].ents[n] = Nil, NEW i, i \in Allocatable(opendir(s, p)),
           NEW f, f = WithName(Grown(Tree(s), i, "file"), p, n, i)
    PROVE  LET t == symlink(s, p, n, i)
           IN  /\ Fine(t) /\ t.fh = s.fh /\ t.dh = s.dh
               /\ i = Nil => Calm(Tree(s), Tree(t))
               /\ i # Nil =>
                    /\ i \in Ino /\ Vacant(s, i)
                    /\ EnoughBlocks => /\ f \in Trees /\ f[i] # Nil
                                       /\ \E z \in 0 .. 1 : /\ SetSize(f, i, z) \in Trees
                                                            /\ Calm(SetSize(f, i, z), Tree(t))
<1> DEFINE u == mknod(s, p, n, i)
           t == symlink(s, p, n, i)
<1>1. /\ Fine(u) /\ u.fh = s.fh /\ u.dh = s.dh
      /\ i = Nil => Calm(Tree(s), Tree(u))
      /\ i # Nil =>
           /\ i \in Ino /\ Vacant(s, i) /\ u.files[i] # Nil
           /\ Held(Tree(u), i, <<p, n>>) /\ Tree(u)[i].kind = "file"
           /\ EnoughBlocks => f \in Trees /\ Calm(f, Tree(u))
  BY MknodFine
<1>2. CASE i = Nil
  <2>1. t = u
    BY <1>2 DEF symlink
  <2> HIDE DEF u, t
  <2> QED BY <2>1, <1>1, <1>2 DEF t
<1>3. CASE i # Nil
  <2> DEFINE v == open(u, i)
             w == write(v, i)
             x == IF CanWrite(v, i) THEN getattr(w, i) ELSE w
             d == DropFileHandle(x, i)
  <2>1. t = d
    BY <1>3 DEF symlink
  <2> HIDE DEF u, t
  <2>2. i \in Ino /\ Held(Tree(u), i, <<p, n>>) /\ Tree(u)[i].kind = "file" /\ Good(u, {})
    BY <1>1, <1>3 DEF Fine
  <2>3. Pinned(u, i, {}) /\ Inode(u, i).kind = "file"
    BY <2>2, HeldPinned
  <2>4. /\ Fine(v) /\ Calm(Tree(u), Tree(v)) /\ Safe(Tree(u), Tree(v), Positions)
        /\ v.fh = [u.fh EXCEPT ![i] = @ + 1] /\ v.dh = u.dh /\ v.fh[i] > 0
        /\ v.files[i] # Nil /\ Tree(v)[i] # Nil /\ Inode(v, i).kind = Inode(u, i).kind
    BY <2>2, <2>3, <1>1, OpenHandler, SMTT(30)
  <2> HIDE DEF v
  <2>5. u.fh \in [Ino -> Nat] /\ Tree(u) \in Trees /\ Tree(v) \in Trees
    BY <2>4, <1>1, TreeType DEF Fine, Good, Coherent, State
  <2>6. [v.fh EXCEPT ![i] = @ - 1] = u.fh
    BY <2>2, <2>4, <2>5, UpDown
  <2>7. Inode(v, i).kind = "file"
    BY <2>3, <2>4
  <2>8. /\ Fine(w) /\ Safe(Tree(v), Tree(w), Positions) /\ w.fh = v.fh /\ w.dh = v.dh
        /\ w.files[i] # Nil /\ Tree(w)[i] # Nil
        /\ \E size \in 0 .. 1 : Tree(w) = SetSize(Tree(v), i, size)
    <3>1. Fine(v) /\ i \in Ino /\ v.fh[i] > 0
      BY <2>2, <2>4
    <3> QED BY <3>1, <2>7, WriteHandler
  <2> HIDE DEF w
  <2>9. PICK z \in 0 .. 1 : Tree(w) = SetSize(Tree(v), i, z)
    BY <2>8
  <2>10. w.fh[i] > 0 /\ Pinned(w, i, {})
    <3>1. w.fh[i] > 0
      BY <2>4, <2>8
    <3> QED BY <3>1, <2>2, <2>8, Handled
  <2>11. Fine(x) /\ Calm(Tree(w), Tree(x)) /\ x.fh = w.fh /\ x.dh = w.dh
    <3> DEFINE g == getattr(w, i)
    <3>1. /\ Fine(g) /\ Calm(Tree(w), Tree(g)) /\ Safe(Tree(w), Tree(g), Positions)
          /\ g.fh = w.fh /\ g.dh = w.dh /\ g.dirs = w.dirs /\ g.files[i] # Nil
      BY <2>2, <2>8, <2>10, GetattrOK
    <3> HIDE DEF g
    <3>2. x = g \/ x = w
      BY DEF g
    <3> HIDE DEF x
    <3> QED BY <3>1, <3>2, <2>8, CalmSame
  <2> HIDE DEF x
  <2>12. x.fh[i] > 0
    BY <2>10, <2>11
  <2>13. /\ Fine(d) /\ Tree(d) = Tree(x) /\ Still(x, d)
         /\ d.fh = [x.fh EXCEPT ![i] = @ - 1] /\ d.dh = x.dh
    BY <2>2, <2>11, <2>12, FileHandles
  <2> HIDE DEF d
  <2>14. t.fh = s.fh /\ t.dh = s.dh /\ Fine(t) /\ Calm(Tree(w), Tree(t))
    BY <2>1, <2>4, <2>6, <2>8, <2>11, <2>13, <1>1
  <2>15. ASSUME EnoughBlocks
         PROVE  f \in Trees /\ f[i] # Nil /\ SetSize(f, i, z) \in Trees /\ Calm(SetSize(f, i, z), Tree(t))
    <3>1. f \in Trees /\ Calm(f, Tree(u))
      BY <2>15, <1>1, <1>3
    <3>2. Calm(f, Tree(v))
      BY <3>1, <2>4, CalmTrans
    <3>3. f[i] # Nil
      BY <3>2, <2>2, <2>4 DEF Calm
    <3>4. SetSize(f, i, z) \in Trees
      BY <3>1, <3>3, <2>2, SetSizeTree
    <3>5. /\ Calm(SetSuid(f, i, FALSE), SetSuid(Tree(v), i, FALSE))
          /\ Calm(SetSize(f, i, z), SetSize(Tree(v), i, z))
      BY <3>1, <3>2, <2>2, <2>4, <2>5, <2>15, CalmAttrs
    <3>6. Calm(SetSize(f, i, z), Tree(w))
      BY <3>5, <2>9
    <3> QED BY <3>1, <3>3, <3>4, <3>6, <2>14, CalmTrans
  <2>16. i \in Ino /\ Vacant(s, i)
    BY <1>1, <1>3
  <2> QED BY <1>3, <2>14, <2>15, <2>16 DEF t
<1> QED BY <1>2, <1>3

-----------------------------------------------------------------------------
(* The flush in fsyncdir leaves the tree as it is.                         *)
LEMMA FlushDirGood ==
    ASSUME NEW s, Fine(s), NEW i \in Ino, s.dirs[i] # Nil
    PROVE  LET t == FlushDir(s, i)
           IN  Fine(t) /\ Tree(t) = Tree(s) /\ t.fh = s.fh /\ t.dh = s.dh /\ t.dirs[i] # Nil
<1> DEFINE t == FlushDir(s, i)
<1>1. Coherent(s, {}) /\ Kept(s)
  BY DEF Fine, Good
<1>2. /\ Coherent(t, {}) /\ \A j \in Ino : Tree(t)[j] = Tree(s)[j]
      /\ t.fh = s.fh /\ t.dh = s.dh /\ t.closeF = s.closeF /\ t.closeD = s.closeD
      /\ \A j \in Ino : t.files[j] = Nil <=> s.files[j] = Nil
      /\ \A j \in Ino \ {i} : t.dirs[j] = s.dirs[j]
      /\ t.dirs[i] # Nil
  BY <1>1, FlushDirOK
<1> HIDE DEF t
<1>3. Tree(t) = Tree(s)
  <2>1. Tree(t) \in Trees /\ Tree(s) \in Trees
    BY <1>1, <1>2, TreeType
  <2> QED BY <2>1, <1>2 DEF Trees
<1>4. \A j \in Ino : (t.dirs[j] = Nil <=> s.dirs[j] = Nil) /\ FileRefs(t, j) = FileRefs(s, j)
  BY <1>2 DEF FileRefs
<1>5. Kept(t)
  BY <1>1, <1>2, <1>4 DEF Kept
<1> QED BY <1>2, <1>3, <1>5 DEF Fine, Good, t

(* Handles on a cached directory come and go.                              *)
LEMMA DirHandles ==
    ASSUME NEW s, Fine(s), NEW i \in Ino
    PROVE  /\ s.dirs[i] # Nil =>
                LET t == CloneDir(s, i)
                IN  /\ Fine(t) /\ Tree(t) = Tree(s) /\ Still(s, t)
                    /\ t.dh = [s.dh EXCEPT ![i] = @ + 1] /\ t.fh = s.fh
           /\ s.dh[i] > 0 =>
                LET t == DropDirHandle(s, i)
                IN  /\ Fine(t) /\ Tree(t) = Tree(s) /\ Still(s, t)
                    /\ t.dh = [s.dh EXCEPT ![i] = @ - 1] /\ t.fh = s.fh
<1>1. Good(s, {})
  BY DEF Fine
<1>2. ASSUME s.dirs[i] # Nil
      PROVE  LET t == CloneDir(s, i)
             IN  /\ Fine(t) /\ Tree(t) = Tree(s) /\ Still(s, t)
                 /\ t.dh = [s.dh EXCEPT ![i] = @ + 1] /\ t.fh = s.fh
  <2> DEFINE t == CloneDir(s, i)
  <2>1. /\ Good(t, {}) /\ Tree(t) = Tree(s) /\ Still(s, t)
        /\ t.dh = [s.dh EXCEPT ![i] = @ + 1] /\ t.fh = s.fh
        /\ t.closeF = s.closeF /\ t.closeD = s.closeD
    BY <1>1, <1>2, CloneDirOK
  <2> HIDE DEF t
  <2>2. Fine(t)
    BY <2>1 DEF Fine
  <2> QED BY <2>1, <2>2 DEF t
<1>3. ASSUME s.dh[i] > 0
      PROVE  LET t == DropDirHandle(s, i)
             IN  /\ Fine(t) /\ Tree(t) = Tree(s) /\ Still(s, t)
                 /\ t.dh = [s.dh EXCEPT ![i] = @ - 1] /\ t.fh = s.fh
  <2> DEFINE t == DropDirHandle(s, i)
  <2>1. /\ Good(t, {}) /\ Tree(t) = Tree(s) /\ Still(s, t)
        /\ t.dh = [s.dh EXCEPT ![i] = @ - 1] /\ t.fh = s.fh
        /\ t.closeF = s.closeF
    BY <1>1, <1>3, DropDirOK
  <2> HIDE DEF t
  <2>2. Fine(t)
    BY <2>1 DEF Fine
  <2> QED BY <2>1, <2>2 DEF t
<1> QED BY <1>2, <1>3

(* fsyncdir that does not panic leaves the tree as it is.                  *)
LEMMA FsyncdirHandler ==
    ASSUME NEW s, Fine(s), NEW i \in Ino, s.dh[i] > 0
    PROVE  LET t == fsyncdir(s, i)
           IN  Fine(t) /\ Tree(t) = Tree(s) /\ t.fh = s.fh /\ t.dh = s.dh
<1> DEFINE u == CloneDir(s, i)
           v == FlushDir(u, i)
           w == read(v, i)
           t == fsyncdir(s, i)
<1>1. t = DropDirHandle(w, i)
  BY DEF fsyncdir, read
<1>2. s.dh \in [Ino -> Nat] /\ s.dirs[i] # Nil
  BY Handled DEF Fine, Good, Coherent, State
<1>3. /\ Fine(u) /\ Tree(u) = Tree(s) /\ Still(s, u)
      /\ u.dh = [s.dh EXCEPT ![i] = @ + 1] /\ u.fh = s.fh
  BY <1>2, DirHandles
<1> HIDE DEF u, t
<1>4. u.dh[i] > 0 /\ [u.dh EXCEPT ![i] = @ - 1] = s.dh
  BY <1>2, <1>3, UpDown
<1>5. u.dirs[i] # Nil
  BY <1>3, <1>4, Handled
<1>6. Fine(v) /\ Tree(v) = Tree(u) /\ v.fh = u.fh /\ v.dh = u.dh /\ v.dirs[i] # Nil
  BY <1>3, <1>5, FlushDirGood
<1> HIDE DEF v
<1>7. v.dh[i] > 0 /\ v.files[i] # Nil /\ v.fh \in [Ino -> Nat]
  <2>1. v.dh[i] > 0
    BY <1>4, <1>6
  <2>2. v.files[i] # Nil
    BY <2>1, <1>6, Handled
  <2>3. v.fh \in [Ino -> Nat]
    BY <1>6 DEF Fine, Good, Coherent, State
  <2> QED BY <2>1, <2>2, <2>3
<1>8. Fine(w) /\ Tree(w) = Tree(v) /\ w.fh = v.fh /\ w.dh = v.dh
  <2> DEFINE c == CloneFile(v, i)
             d == DropFileHandle(c, i)
  <2>1. /\ Fine(c) /\ Tree(c) = Tree(v) /\ Still(v, c)
        /\ c.fh = [v.fh EXCEPT ![i] = @ + 1] /\ c.dh = v.dh
    BY <1>6, <1>7, FileHandles
  <2> HIDE DEF c
  <2>2. c.fh[i] > 0 /\ [c.fh EXCEPT ![i] = @ - 1] = v.fh
    BY <2>1, <1>7, UpDown
  <2>3. /\ Fine(d) /\ Tree(d) = Tree(c) /\ Still(c, d)
        /\ d.fh = [c.fh EXCEPT ![i] = @ - 1] /\ d.dh = c.dh
    BY <2>1, <2>2, FileHandles
  <2>4. w = d
    BY DEF read, c
  <2> HIDE DEF d, w
  <2> QED BY <2>1, <2>2, <2>3, <2>4
<1> HIDE DEF w
<1>9. w.dh[i] > 0
  BY <1>7, <1>8
<1> DEFINE d == DropDirHandle(w, i)
<1>10. /\ Fine(d) /\ Tree(d) = Tree(w) /\ Still(w, d)
       /\ d.dh = [w.dh EXCEPT ![i] = @ - 1] /\ d.fh = w.fh
  BY <1>8, <1>9, DirHandles
<1>11. t = d
  BY <1>1
<1> HIDE DEF d
<1> QED BY <1>3, <1>4, <1>6, <1>8, <1>10, <1>11 DEF t

(* Nothing unreachable is kept.                                            *)
Reclaimed(s) == \A j \in Ino : j \in s.ifree \/ InUse(s, j)

(* apply_releases reclaims what is unreachable.                            *)
LEMMA ReleaseFine ==
    ASSUME NEW s, Fine(s)
    PROVE  LET t == apply_releases(s)
           IN  Fine(t) /\ Calm(Tree(s), Tree(t)) /\ t.fh = s.fh /\ t.dh = s.dh /\ Reclaimed(t)
<1> DEFINE t == apply_releases(s)
<1>1. /\ Good(t, {}) /\ Calm(Tree(s), Tree(t)) /\ t.fh = s.fh /\ t.dh = s.dh
      /\ \A j \in Ino : /\ t.dirs[j] # Nil => t.dh[j] > 0
                        /\ t.files[j] # Nil => t.fh[j] > 0 \/ t.dh[j] > 0
  BY ApplyReleasesOK DEF Fine, apply_releases
<1> HIDE DEF t
<1>2. Fine(t)
  BY <1>1, CalmFine
<1>3. ASSUME NEW j \in Ino, j \notin t.ifree PROVE InUse(t, j)
  <2>1. t \in State /\ Sound(t, j, {}) /\ t.fh[j] \in Nat /\ t.dh[j] \in Nat /\ Inode(t, j).nlink \in Nat
    BY <1>1, StateFields DEF Good, Coherent
  <2>2. CASE t.files[j] = Nil
    <3>1. t.inode[j].nlink > 0 /\ t.inode[j].kind # "free" /\ Inode(t, j) = t.inode[j]
      BY <2>1, <2>2, <1>3 DEF Sound, Inode
    <3> QED BY <3>1, <2>1 DEF InUse
  <2>3. CASE t.files[j] # Nil
    <3>1. t.files[j] \in DkFile /\ Inode(t, j) = t.files[j]
      BY <2>1, <2>3, FileType
    <3>2. Inode(t, j).kind # "free"
      BY <3>1 DEF DkFile
    <3>3. t.fh[j] > 0 \/ t.dh[j] > 0
      BY <2>3, <1>1
    <3> QED BY <3>2, <3>3, <2>1 DEF InUse
  <2> QED BY <2>2, <2>3
<1> QED BY <1>1, <1>2, <1>3 DEF Reclaimed, t

-----------------------------------------------------------------------------
(* lookup in a held directory: the entry e found is the tree's from        *)
(* before, unless the directory's content was lost, and is held in both    *)
(* trees.                                                                  *)
LEMMA LookedUp ==
    ASSUME NEW s, Fine(s), NEW p \in Ino, NEW x \in Positions, Held(Tree(s), p, x),
           Tree(s)[p].kind = "dir", NEW n \in Name,
           NEW t, t = lookup(s, p, n), NEW e, e = Entry(t, p, n)
    PROVE  /\ Fine(t) /\ Calm(Tree(s), Tree(t)) /\ Safe(Tree(s), Tree(t), Positions)
           /\ t.fh = s.fh /\ t.dh = s.dh
           /\ Tree(t)[p] # Nil /\ e = Tree(t)[p].ents[n] /\ e \in {Tree(s)[p].ents[n], Nil}
           /\ EnoughBlocks => e = Tree(s)[p].ents[n]
           /\ e # Nil => /\ e \in Ino /\ Tree(t)[e] # Nil /\ t.files[e] # Nil
                         /\ Held(Tree(t), e, <<p, n>>) /\ Held(Tree(s), e, <<p, n>>)
                         /\ Tree(t)[e].kind = Tree(s)[e].kind
           /\ e # Nil /\ n \in Names => e # Root /\ e # p
<1>1. Pinned(s, p, {}) /\ Inode(s, p).kind = "dir" /\ Tree(s)[p] # Nil
  BY HeldPinned DEF Fine, Held
<1> DEFINE w == lookup(s, p, n)
<1>2. /\ Fine(w) /\ Calm(Tree(s), Tree(w)) /\ Safe(Tree(s), Tree(w), Positions)
      /\ w.fh = s.fh /\ w.dh = s.dh /\ w.dirs[p] # Nil
      /\ Entry(w, p, n) # Nil => w.files[Entry(w, p, n)] # Nil
  BY <1>1, LookupOK
<1>3. w = t
  OBVIOUS
<1> HIDE DEF w
<1>4. /\ Fine(t) /\ Calm(Tree(s), Tree(t)) /\ Safe(Tree(s), Tree(t), Positions)
      /\ t.fh = s.fh /\ t.dh = s.dh /\ t.dirs[p] # Nil /\ (e # Nil => t.files[e] # Nil)
  BY <1>2, <1>3
<1>5. Good(t, {}) /\ Counted(Tree(t)) /\ Counted(Tree(s)) /\ Tree(s) \in Trees
  BY <1>4 DEF Fine, Sane, Counted
<1>6. Tree(t)[p] # Nil /\ e = Tree(t)[p].ents[n]
  BY <1>4, <1>5, CachedEntry
<1>7. e \in {Tree(s)[p].ents[n], Nil}
  <2>1. Tree(s)[p] \in Nodes
    BY <1>1, <1>5 DEF Trees
  <2>2. [Tree(s)[p] EXCEPT !.ents = NoEntries].ents = NoEntries /\ NoEntries[n] = Nil
    BY <2>1 DEF Nodes, NoEntries
  <2> QED BY <2>2, <1>4, <1>6 DEF Calm
<1>8. EnoughBlocks => e = Tree(s)[p].ents[n]
  BY <1>4, <1>6 DEF Calm
<1>9. ASSUME e # Nil
      PROVE  /\ e \in Ino /\ Tree(t)[e] # Nil /\ t.files[e] # Nil
             /\ Held(Tree(t), e, <<p, n>>) /\ Held(Tree(s), e, <<p, n>>)
             /\ Tree(t)[e].kind = Tree(s)[e].kind
  <2>1. e = Tree(s)[p].ents[n]
    BY <1>7, <1>9
  <2>2. e \in Ino /\ Tree(t)[e] # Nil /\ Held(Tree(t), e, <<p, n>>)
    BY <1>5, <1>6, <1>9, EntryHeld
  <2>3. Held(Tree(s), e, <<p, n>>)
    BY <2>1, <1>1, <1>5, <1>9, EntryHeld
  <2>4. <<p, n>> \in Positions
    BY DEF Positions
  <2>5. Tree(t)[e].kind = Tree(s)[e].kind
    BY <2>2, <2>3, <2>4, <1>4 DEF Safe
  <2> QED BY <2>2, <2>3, <2>5, <1>4, <1>9
<1>10. e # Nil /\ n \in Names => e # Root /\ e # p
  BY <1>5, <1>6 DEF Counted, Proper
<1> QED BY <1>4, <1>6, <1>7, <1>8, <1>9, <1>10

(* rmdir on the tree: the directory's own entries go, then its name.       *)
DropDir(f, j, p, n) == Drop(Drop(Drop(f, j, "."), j, ".."), p, n)

(* The three unlinks of rmdir, with the directory j open: its handle keeps *)
(* it, and the parent p is held by an entry x that is not removed.         *)
LEMMA RemoveDir ==
    ASSUME NEW s, Fine(s), NEW j \in Ino, j # Root, s.dh[j] > 0,
           NEW p \in Ino, NEW n \in Names, NEW x \in Anchors \ {<<p, n>>}, Held(Tree(s), p, x),
           Tree(s)[p].kind = "dir",
           NEW t, t = unlink(unlink(unlink(s, j, "."), j, ".."), p, n)
    PROVE  /\ Fine(t) /\ Safe(Tree(s), Tree(t), Anchors \ {<<p, n>>})
           /\ t.fh = s.fh /\ t.dh = s.dh
           /\ Adds(Tree(s), Tree(t), {}) /\ Clear(Tree(t), <<p, n>>)
           /\ EnoughBlocks => Calm(DropDir(Tree(s), j, p, n), Tree(t))
<1> DEFINE a == unlink(s, j, ".")
           b == unlink(a, j, "..")
           c == unlink(b, p, n)
           X == Anchors \ {<<p, n>>}
<1>1. "." \in Name /\ ".." \in Name /\ n \in Name
  BY DEF Name
<1>2. /\ <<j, ".">> # RootLink /\ <<j, "..">> # RootLink /\ <<p, n>> # RootLink
      /\ X \subseteq Positions \ {<<j, ".">>} /\ X \subseteq Positions \ {<<j, "..">>}
      /\ X \subseteq Positions \ {<<p, n>>}
  BY AnchorsOK DEF RootLink
<1>3. Pinned(s, j, {}) /\ Inode(s, j).kind = "dir" /\ Tree(s)[j] # Nil
  BY Handled
<1>4. /\ Fine(a) /\ Safe(Tree(s), Tree(a), Positions \ {<<j, ".">>})
      /\ a.fh = s.fh /\ a.dh = s.dh
      /\ Adds(Tree(s), Tree(a), {}) /\ Clear(Tree(a), <<j, ".">>)
      /\ EnoughBlocks => Calm(Drop(Tree(s), j, "."), Tree(a))
  BY <1>1, <1>2, <1>3, UnlinkFine
<1>5. t = c
  OBVIOUS
<1> HIDE DEF a
<1>6. Pinned(a, j, {}) /\ Inode(a, j).kind = "dir" /\ Tree(a)[j] # Nil
  <2>1. a.dh[j] > 0
    BY <1>4
  <2> QED BY <2>1, <1>4, Handled
<1>7. /\ Fine(b) /\ Safe(Tree(a), Tree(b), Positions \ {<<j, "..">>})
      /\ b.fh = a.fh /\ b.dh = a.dh
      /\ Adds(Tree(a), Tree(b), {}) /\ Clear(Tree(b), <<j, "..">>)
      /\ EnoughBlocks => Calm(Drop(Tree(a), j, ".."), Tree(b))
  <2>1. Fine(a)
    BY <1>4
  <2> QED BY <2>1, <1>1, <1>2, <1>6, UnlinkFine
<1> HIDE DEF b
<1>8. Safe(Tree(s), Tree(a), X) /\ Safe(Tree(a), Tree(b), X)
  BY <1>2, <1>4, <1>7, SafeSub
<1>9. Safe(Tree(s), Tree(b), X)
  BY <1>8, SafeTrans
<1>10. Held(Tree(b), p, x) /\ Tree(b)[p].kind = "dir" /\ Tree(b)[p] # Nil
  BY <1>9 DEF Safe, Held
<1>11. Pinned(b, p, {}) /\ Inode(b, p).kind = "dir"
  BY <1>7, <1>10, HeldPinned DEF Fine
<1>12. /\ Fine(c) /\ Safe(Tree(b), Tree(c), Positions \ {<<p, n>>})
       /\ c.fh = b.fh /\ c.dh = b.dh
       /\ Adds(Tree(b), Tree(c), {}) /\ Clear(Tree(c), <<p, n>>)
       /\ EnoughBlocks => Calm(Drop(Tree(b), p, n), Tree(c))
  <2>1. Fine(b)
    BY <1>7
  <2> QED BY <2>1, <1>1, <1>2, <1>11, UnlinkFine
<1> HIDE DEF c
<1>13. Safe(Tree(b), Tree(c), X)
  BY <1>2, <1>12, SafeSub
<1>14. Safe(Tree(s), Tree(c), X)
  BY <1>9, <1>13, SafeTrans
<1>15. Adds(Tree(s), Tree(c), {})
  BY <1>4, <1>7, <1>12, AddsTrans
<1>16. ASSUME EnoughBlocks PROVE Calm(DropDir(Tree(s), j, p, n), Tree(c))
  <2> DEFINE f == Drop(Tree(s), j, ".")
             g == Drop(f, j, "..")
             h == Drop(g, p, n)
  <2>1. Counted(Tree(s)) /\ Counted(Tree(a)) /\ Counted(Tree(b))
    BY <1>4, <1>7 DEF Fine, Sane
  <2>2. Counted(f) /\ f \in Trees /\ \A d \in Ino : f[d] = Nil <=> Tree(s)[d] = Nil
    BY <2>1, <1>1, <1>3, DropCounted
  <2>3. Calm(f, Tree(a))
    BY <1>4, <1>16
  <2> HIDE DEF f
  <2>4. f[j] # Nil
    BY <2>2, <1>3
  <2>5. Calm(g, Drop(Tree(a), j, ".."))
    BY <2>1, <2>2, <2>3, <1>1, <1>6, <1>16, CalmDrop
  <2>6. Counted(g) /\ g \in Trees /\ \A d \in Ino : g[d] = Nil <=> f[d] = Nil
    BY <2>2, <2>4, <1>1, DropCounted
  <2> HIDE DEF g
  <2>7. Calm(g, Tree(b))
    BY <2>5, <2>6, <1>7, <1>16, CalmTrans
  <2>8. Calm(h, Drop(Tree(b), p, n))
    BY <2>1, <2>6, <2>7, <1>1, <1>10, <1>16, CalmDrop
  <2>9. g[p] # Nil
    BY <2>7, <1>10 DEF Calm
  <2>10. Counted(h) /\ h \in Trees /\ \A d \in Ino : h[d] = Nil <=> g[d] = Nil
    BY <2>6, <2>9, <1>1, DropCounted
  <2> HIDE DEF h
  <2>11. Calm(h, Tree(c))
    BY <2>8, <2>10, <1>12, <1>16, CalmTrans
  <2> QED BY <2>11 DEF DropDir, h, g, f
<1> QED BY <1>4, <1>5, <1>7, <1>12, <1>14, <1>15, <1>16

(* With enough blocks, a close list may be worked off before or after      *)
(* rmdir.                                                                  *)
LEMMA CalmDropDir ==
    ASSUME EnoughBlocks, NEW f, NEW g, Counted(f), Counted(g), Calm(f, g),
           NEW j \in Ino, g[j] # Nil, NEW p \in Ino, g[p] # Nil, NEW n \in Name
    PROVE  DropDir(f, j, p, n) \in Trees /\ Calm(DropDir(f, j, p, n), DropDir(g, j, p, n))
<1> DEFINE f1 == Drop(f, j, ".")
           f2 == Drop(f1, j, "..")
           g1 == Drop(g, j, ".")
           g2 == Drop(g1, j, "..")
<1>1. "." \in Name /\ ".." \in Name /\ f[j] # Nil /\ f[p] # Nil
  BY DEF Calm, Name
<1>2. Counted(f1) /\ \A k \in Ino : f1[k] = Nil <=> f[k] = Nil
  BY <1>1, DropCounted
<1>3. Counted(g1) /\ \A k \in Ino : g1[k] = Nil <=> g[k] = Nil
  BY <1>1, DropCounted
<1>4. Calm(f1, g1)
  BY <1>1, CalmDrop
<1> HIDE DEF f1, g1
<1>5. f1[j] # Nil /\ g1[j] # Nil /\ f1[p] # Nil /\ g1[p] # Nil
  BY <1>1, <1>2, <1>3
<1>6. Counted(f2) /\ \A k \in Ino : f2[k] = Nil <=> f1[k] = Nil
  BY <1>1, <1>2, <1>5, DropCounted
<1>7. Counted(g2) /\ \A k \in Ino : g2[k] = Nil <=> g1[k] = Nil
  BY <1>1, <1>3, <1>5, DropCounted
<1>8. Calm(f2, g2)
  BY <1>1, <1>2, <1>3, <1>4, <1>5, CalmDrop
<1> HIDE DEF f2, g2
<1>9. f2[p] # Nil /\ g2[p] # Nil
  BY <1>5, <1>6, <1>7
<1>10. Calm(Drop(f2, p, n), Drop(g2, p, n))
  BY <1>6, <1>7, <1>8, <1>9, CalmDrop
<1>11. Drop(f2, p, n) \in Trees
  BY <1>6, <1>9, DropCounted
<1> QED BY <1>10, <1>11 DEF DropDir, f1, f2, g1, g2

(* The drop of a directory handle, for a state with a name of its own.     *)
LEMMA DirDropped ==
    ASSUME NEW s, Fine(s), NEW i \in Ino, s.dh[i] > 0, NEW t, t = DropDirHandle(s, i)
    PROVE  /\ Fine(t) /\ Tree(t) = Tree(s) /\ Still(s, t)
           /\ t.dh = [s.dh EXCEPT ![i] = @ - 1] /\ t.fh = s.fh
BY DirHandles

(* rmdir: fails and changes nothing, or removes the empty directory j.     *)
LEMMA RmdirFine ==
    ASSUME NEW s, Fine(s), NEW p \in Ino, NEW n \in Names, NEW x \in Anchors \ {<<p, n>>},
           Held(Tree(s), p, x), Tree(s)[p].kind = "dir",
           NEW j, j = Tree(s)[p].ents[n], j # Nil => Tree(s)[j].kind = "dir",
           NEW r, r = rmdir(s, p, n)
    PROVE  /\ Fine(r.s) /\ Safe(Tree(s), Tree(r.s), Anchors \ {<<p, n>>})
           /\ r.s.fh = s.fh /\ r.s.dh = s.dh
           /\ Adds(Tree(s), Tree(r.s), {})
           /\ r.ok => j # Nil /\ Clear(Tree(r.s), <<p, n>>)
           /\ ~r.ok => Calm(Tree(s), Tree(r.s))
           /\ r.ok /\ EnoughBlocks => /\ Calm(DropDir(Tree(s), j, p, n), Tree(r.s))
                                      /\ Count(Tree(s)[j].ents) = 2
<1> DEFINE t == lookup(s, p, n)
           e == Entry(t, p, n)
           u == opendir(t, e)
           empty == Count(u.dirs[e].ents) = 2
           v == unlink(unlink(unlink(u, e, "."), e, ".."), p, n)
           w == IF empty THEN v ELSE u
           d == DropDirHandle(w, e)
           X == Anchors \ {<<p, n>>}
<1>1. r = IF e = Nil THEN [s |-> t, ok |-> FALSE] ELSE [s |-> d, ok |-> empty]
  BY DEF rmdir
<1>2. n \in Name /\ x \in Positions /\ X \subseteq Positions
  BY AnchorsOK DEF Name
<1>3. /\ Fine(t) /\ Calm(Tree(s), Tree(t)) /\ Safe(Tree(s), Tree(t), Positions)
      /\ t.fh = s.fh /\ t.dh = s.dh
      /\ Tree(t)[p] # Nil /\ e = Tree(t)[p].ents[n] /\ e \in {Tree(s)[p].ents[n], Nil}
      /\ EnoughBlocks => e = Tree(s)[p].ents[n]
      /\ e # Nil => /\ e \in Ino /\ Tree(t)[e] # Nil /\ t.files[e] # Nil
                    /\ Held(Tree(t), e, <<p, n>>) /\ Held(Tree(s), e, <<p, n>>)
                    /\ Tree(t)[e].kind = Tree(s)[e].kind
      /\ e # Nil /\ n \in Names => e # Root /\ e # p
  <2> HIDE DEF t, e
  <2> QED BY <1>2, LookedUp DEF t, e
<1> HIDE DEF t, e, d
<1>4. Tree(s) \in Trees /\ Tree(t) \in Trees
  BY <1>3, TreeType DEF Fine, Good
<1>5. CASE e = Nil
  <2>1. r.s = t /\ ~r.ok
    BY <1>1, <1>5
  <2>2. Safe(Tree(s), Tree(t), X) /\ Adds(Tree(s), Tree(t), {})
    BY <1>2, <1>3, <1>4, SafeSub, CalmAdds
  <2> QED BY <2>1, <2>2, <1>3
<1>6. CASE e # Nil
  <2>1. r.s = d /\ r.ok = empty
    <3> HIDE DEF empty
    <3>1. r = [s |-> d, ok |-> empty]
      BY <1>1, <1>6
    <3> QED BY <3>1
  <2>2. e = j /\ e \in Ino /\ e # Root /\ Held(Tree(t), e, <<p, n>>) /\ Tree(t)[e].kind = "dir"
    BY <1>3, <1>6
  <2>3. Pinned(t, e, {}) /\ Inode(t, e).kind = "dir"
    BY <2>2, <1>3, HeldPinned DEF Fine
  <2>4. /\ Fine(u) /\ Calm(Tree(t), Tree(u)) /\ Safe(Tree(t), Tree(u), Positions)
        /\ u.fh = t.fh /\ u.dh = [t.dh EXCEPT ![e] = @ + 1] /\ u.dh[e] > 0
        /\ u.dirs[e] # Nil
    <3>1. Fine(t) /\ e \in Ino
      BY <2>2, <1>3
    <3> QED BY <3>1, <2>3, OpendirOK
  <2> HIDE DEF u
  <2>5. t.dh \in [Ino -> Nat]
    BY <1>3 DEF Fine, Good, Coherent, State
  <2>6. [u.dh EXCEPT ![e] = @ - 1] = t.dh
    BY <2>2, <2>4, <2>5, UpDown
  <2>7. Calm(Tree(s), Tree(u)) /\ Safe(Tree(s), Tree(u), X) /\ Tree(u) \in Trees
    <3>1. Safe(Tree(s), Tree(t), X) /\ Safe(Tree(t), Tree(u), X)
      BY <2>4, <1>2, <1>3, SafeSub
    <3>2. Tree(u) \in Trees
      BY <2>4, TreeType DEF Fine, Good
    <3> QED BY <3>1, <3>2, <2>4, <1>3, <1>4, SafeTrans, CalmTrans
  <2>8. Held(Tree(u), p, x) /\ Tree(u)[p].kind = "dir" /\ Tree(u)[p] # Nil
    BY <2>7 DEF Safe, Held
  <2>9. /\ Fine(v) /\ Safe(Tree(u), Tree(v), Anchors \ {<<p, n>>})
        /\ v.fh = u.fh /\ v.dh = u.dh
        /\ Adds(Tree(u), Tree(v), {}) /\ Clear(Tree(v), <<p, n>>)
        /\ EnoughBlocks => Calm(DropDir(Tree(u), e, p, n), Tree(v))
    <3>1. Fine(u) /\ e \in Ino /\ e # Root /\ u.dh[e] > 0
      BY <2>2, <2>4
    <3>2. Held(Tree(u), p, x) /\ Tree(u)[p].kind = "dir"
      BY <2>8
    <3> HIDE DEF v
    <3> QED BY <3>1, <3>2, RemoveDir DEF v
  <2> HIDE DEF v
  <2>10. Fine(w) /\ w.fh = t.fh /\ w.dh = u.dh /\ w.dh[e] > 0
    BY <2>4, <2>9
  <2>11. empty => w = v
    OBVIOUS
  <2>12. ~empty => w = u
    OBVIOUS
  <2> HIDE DEF w
  <2>13. /\ Fine(d) /\ Tree(d) = Tree(w) /\ Still(w, d)
         /\ d.dh = [w.dh EXCEPT ![e] = @ - 1] /\ d.fh = w.fh
    <3>1. Fine(w) /\ e \in Ino /\ w.dh[e] > 0
      BY <2>2, <2>10
    <3>2. d = DropDirHandle(w, e)
      BY DEF d
    <3> HIDE DEF d
    <3> QED BY <3>1, <3>2, DirDropped
  <2>14. d.fh = s.fh /\ d.dh = s.dh
    BY <2>6, <2>10, <2>13, <1>3
  <2>15. Adds(Tree(s), Tree(u), {})
    BY <2>7, <1>4, CalmAdds
  <2>16. CASE ~empty
    <3>1. Tree(d) = Tree(u)
      BY <2>12, <2>13, <2>16
    <3> QED BY <3>1, <2>1, <2>7, <2>13, <2>14, <2>15, <2>16
  <2>17. CASE empty
    <3>1. Tree(d) = Tree(v)
      BY <2>11, <2>13, <2>17
    <3>2. Safe(Tree(s), Tree(v), X)
      BY <2>7, <2>9, SafeTrans
    <3>3. Adds(Tree(s), Tree(v), {})
      BY <2>9, <2>15, AddsTrans
    <3>4. ASSUME EnoughBlocks
          PROVE  Calm(DropDir(Tree(s), j, p, n), Tree(v)) /\ Count(Tree(s)[j].ents) = 2
      <4>1. Counted(Tree(s)) /\ Counted(Tree(u)) /\ Good(u, {})
        BY <2>4 DEF Fine, Sane
      <4>2. Tree(u)[e] # Nil /\ Tree(u)[e].ents = u.dirs[e].ents
        BY <2>2, <2>4, <4>1, CachedEntry
      <4>3. Tree(s)[j] = Tree(u)[j]
        BY <2>2, <2>7, <3>4, <4>2 DEF Calm
      <4>4. Count(Tree(s)[j].ents) = 2
        BY <2>2, <2>17, <4>2, <4>3
      <4>5. j \in Ino /\ Tree(u)[j] # Nil
        BY <2>2, <4>2
      <4>6. DropDir(Tree(s), j, p, n) \in Trees /\ Calm(DropDir(Tree(s), j, p, n), DropDir(Tree(u), j, p, n))
        BY <4>1, <4>5, <3>4, <2>7, <2>8, <1>2, CalmDropDir
      <4>7. Calm(DropDir(Tree(u), j, p, n), Tree(v))
        BY <2>2, <2>9, <3>4
      <4>8. Calm(DropDir(Tree(s), j, p, n), Tree(v))
        BY <4>6, <4>7, CalmTrans
      <4> QED BY <4>4, <4>8
    <3>5. j # Nil
      BY <2>2, NilAssumption
    <3> QED BY <3>1, <3>2, <3>3, <3>4, <3>5, <2>1, <2>9, <2>13, <2>14, <2>17
  <2> QED BY <2>16, <2>17
<1> QED BY <1>5, <1>6

(* The tree after rename has removed what is at the new name.              *)
Vacated(f, p, n) ==
    LET j == f[p].ents[n]
    IN  IF j = Nil THEN f
        ELSE IF f[j].kind = "dir" THEN DropDir(f, j, p, n)
        ELSE Drop(f, p, n)

(* What rename does with the new name: it is free, or the call fails.      *)
LEMMA MakeRoomFine ==
    ASSUME NEW s, Fine(s), NEW p \in Ino, NEW n \in Names, NEW x \in Anchors \ {<<p, n>>},
           Held(Tree(s), p, x), Tree(s)[p].kind = "dir",
           NEW j, j = Tree(s)[p].ents[n],
           NEW r, r = MakeRoom(s, p, n)
    PROVE  /\ Fine(r.s) /\ Safe(Tree(s), Tree(r.s), Anchors \ {<<p, n>>})
           /\ r.s.fh = s.fh /\ r.s.dh = s.dh
           /\ Adds(Tree(s), Tree(r.s), {})
           /\ r.ok => Clear(Tree(r.s), <<p, n>>)
           /\ ~r.ok => Calm(Tree(s), Tree(r.s))
           /\ r.ok /\ EnoughBlocks =>
                /\ Vacated(Tree(s), p, n) \in Trees /\ Calm(Vacated(Tree(s), p, n), Tree(r.s))
                /\ j # Nil /\ Tree(s)[j].kind = "dir" => Count(Tree(s)[j].ents) = 2
<1> DEFINE t == lookup(s, p, n)
           e == Entry(t, p, n)
           X == Anchors \ {<<p, n>>}
<1>1. r = IF e = Nil THEN [s |-> t, ok |-> TRUE]
          ELSE IF t.files[e].kind = "dir" THEN rmdir(t, p, n)
          ELSE [s |-> unlink(t, p, n), ok |-> TRUE]
  BY DEF MakeRoom
<1>2. n \in Name /\ x \in Positions /\ X \subseteq Positions /\ X \subseteq Positions \ {<<p, n>>}
      /\ <<p, n>> # RootLink
  BY AnchorsOK DEF Name
<1>3. /\ Fine(t) /\ Calm(Tree(s), Tree(t)) /\ Safe(Tree(s), Tree(t), Positions)
      /\ t.fh = s.fh /\ t.dh = s.dh
      /\ Tree(t)[p] # Nil /\ e = Tree(t)[p].ents[n] /\ e \in {Tree(s)[p].ents[n], Nil}
      /\ EnoughBlocks => e = Tree(s)[p].ents[n]
      /\ e # Nil => /\ e \in Ino /\ Tree(t)[e] # Nil /\ t.files[e] # Nil
                    /\ Held(Tree(t), e, <<p, n>>) /\ Held(Tree(s), e, <<p, n>>)
                    /\ Tree(t)[e].kind = Tree(s)[e].kind
      /\ e # Nil /\ n \in Names => e # Root /\ e # p
  <2> HIDE DEF t, e
  <2> QED BY <1>2, LookedUp DEF t, e
<1> HIDE DEF t, e
<1>4. Tree(s) \in Trees /\ Tree(t) \in Trees /\ Counted(Tree(s)) /\ Counted(Tree(t))
  BY <1>3 DEF Fine, Sane, Counted
<1>5. Safe(Tree(s), Tree(t), X) /\ Adds(Tree(s), Tree(t), {})
  BY <1>2, <1>3, <1>4, SafeSub, CalmAdds
<1>6. Held(Tree(t), p, x) /\ Tree(t)[p].kind = "dir"
  BY <1>5 DEF Safe
<1>7. CASE e = Nil
  <2>1. r.s = t /\ r.ok
    BY <1>1, <1>7
  <2>2. Clear(Tree(t), <<p, n>>)
    BY <1>3, <1>7 DEF Clear
  <2>3. EnoughBlocks => j = Nil /\ Vacated(Tree(s), p, n) = Tree(s)
    BY <1>3, <1>7 DEF Vacated
  <2> QED BY <2>1, <2>2, <2>3, <1>3, <1>4, <1>5
<1>8. CASE e # Nil
  <2>1. /\ e = j /\ e \in Ino /\ e # Root /\ t.files[e] # Nil /\ Tree(t)[e] # Nil /\ Tree(s)[e] # Nil
        /\ Tree(t)[e].kind = Tree(s)[e].kind
    BY <1>3, <1>8 DEF Held
  <2>2. t.files[e].kind = Tree(s)[e].kind
    BY <2>1, <1>3, Handled
  <2>3. CASE Tree(s)[e].kind = "dir"
    <3>1. r = rmdir(t, p, n)
      BY <2>2, <2>3, <1>1, <1>8
    <3>2. e # Nil => Tree(t)[e].kind = "dir"
      BY <2>1, <2>3
    <3>3. /\ Fine(r.s) /\ Safe(Tree(t), Tree(r.s), Anchors \ {<<p, n>>})
          /\ r.s.fh = t.fh /\ r.s.dh = t.dh
          /\ Adds(Tree(t), Tree(r.s), {})
          /\ r.ok => e # Nil /\ Clear(Tree(r.s), <<p, n>>)
          /\ ~r.ok => Calm(Tree(t), Tree(r.s))
          /\ r.ok /\ EnoughBlocks => /\ Calm(DropDir(Tree(t), e, p, n), Tree(r.s))
                                     /\ Count(Tree(t)[e].ents) = 2
      <4>1. Fine(t) /\ e = Tree(t)[p].ents[n]
        BY <1>3
      <4> QED BY <4>1, <3>1, <3>2, <1>6, RmdirFine
    <3>4. Safe(Tree(s), Tree(r.s), X) /\ Adds(Tree(s), Tree(r.s), {})
      BY <3>3, <1>5, SafeTrans, AddsTrans
    <3>5. ~r.ok => Calm(Tree(s), Tree(r.s))
      BY <3>3, <1>3, <1>4, CalmTrans
    <3>6. ASSUME r.ok, EnoughBlocks
          PROVE  /\ Vacated(Tree(s), p, n) \in Trees /\ Calm(Vacated(Tree(s), p, n), Tree(r.s))
                 /\ Count(Tree(s)[j].ents) = 2
      <4>1. Tree(s)[e] = Tree(t)[e] /\ Tree(t)[p] # Nil
        BY <2>1, <3>6, <1>3 DEF Calm
      <4>2. Vacated(Tree(s), p, n) = DropDir(Tree(s), e, p, n)
        BY <2>1, <2>3, <1>8 DEF Vacated
      <4>3. /\ DropDir(Tree(s), e, p, n) \in Trees
            /\ Calm(DropDir(Tree(s), e, p, n), DropDir(Tree(t), e, p, n))
        BY <2>1, <3>6, <4>1, <1>2, <1>3, <1>4, CalmDropDir
      <4>4. Calm(DropDir(Tree(t), e, p, n), Tree(r.s)) /\ Count(Tree(t)[e].ents) = 2
        BY <3>3, <3>6
      <4>5. Calm(DropDir(Tree(s), e, p, n), Tree(r.s))
        BY <4>3, <4>4, CalmTrans
      <4> QED BY <2>1, <4>1, <4>2, <4>3, <4>4, <4>5
    <3> QED BY <3>3, <3>4, <3>5, <3>6, <1>3
  <2>4. CASE Tree(s)[e].kind # "dir"
    <3> DEFINE u == unlink(t, p, n)
    <3>1. r = [s |-> u, ok |-> TRUE]
      BY <2>2, <2>4, <1>1, <1>8
    <3>2. Pinned(t, p, {}) /\ Inode(t, p).kind = "dir"
      BY <1>3, <1>6, HeldPinned DEF Fine
    <3>3. /\ Fine(u) /\ Safe(Tree(t), Tree(u), Positions \ {<<p, n>>})
          /\ u.fh = t.fh /\ u.dh = t.dh
          /\ Adds(Tree(t), Tree(u), {}) /\ Clear(Tree(u), <<p, n>>)
          /\ EnoughBlocks => Calm(Drop(Tree(t), p, n), Tree(u))
      <4>1. Fine(t) /\ n \in Name /\ <<p, n>> # RootLink
        BY <1>2, <1>3
      <4> QED BY <4>1, <3>2, UnlinkFine
    <3> HIDE DEF u
    <3>4. r.s = u /\ r.ok
      BY <3>1
    <3>5. Safe(Tree(t), Tree(u), X)
      BY <3>3, <1>2, SafeSub
    <3>6. Safe(Tree(s), Tree(u), X) /\ Adds(Tree(s), Tree(u), {})
      BY <3>3, <3>5, <1>5, SafeTrans, AddsTrans
    <3>7. ASSUME EnoughBlocks
          PROVE  Vacated(Tree(s), p, n) \in Trees /\ Calm(Vacated(Tree(s), p, n), Tree(u))
      <4>1. Vacated(Tree(s), p, n) = Drop(Tree(s), p, n)
        BY <2>1, <2>4, <1>8 DEF Vacated
      <4>2. Tree(s)[p] # Nil /\ Tree(t)[p] # Nil
        BY <1>3 DEF Held
      <4>3. Drop(Tree(s), p, n) \in Trees
        BY <4>2, <1>2, <1>4, DropCounted
      <4>4. Calm(Drop(Tree(s), p, n), Drop(Tree(t), p, n))
        BY <3>7, <4>2, <1>2, <1>3, <1>4, CalmDrop
      <4>5. Calm(Drop(Tree(s), p, n), Tree(u))
        BY <3>3, <3>7, <4>3, <4>4, CalmTrans
      <4> QED BY <4>1, <4>3, <4>5
    <3> QED BY <3>3, <3>4, <3>6, <3>7, <2>1, <2>4, <1>3
  <2> QED BY <2>3, <2>4
<1> QED BY <1>7, <1>8

(* rename on the tree, with the node i.                                    *)
Moved(f, p, n, q, m, i) == Drop(WithName(Vacated(f, q, m), q, m, i), p, n)

(* rename. Both parents are held by entries other than the new name, and   *)
(* the node i by its old name, so all three survive that the new name is   *)
(* made free.                                                              *)
LEMMA RenameHandler ==
    ASSUME NEW s, Fine(s), NEW p \in Ino, NEW n \in Names, NEW q \in Ino, NEW m \in Names,
           NEW x \in Anchors \ {<<q, m>>}, Held(Tree(s), p, x), Tree(s)[p].kind = "dir",
           NEW y \in Anchors \ {<<q, m>>}, Held(Tree(s), q, y), Tree(s)[q].kind = "dir",
           NEW i, i = Tree(s)[p].ents[n], NEW j, j = Tree(s)[q].ents[m], i # Nil, i # j, i # q
    PROVE  LET t == rename(s, p, n, q, m)
           IN  /\ Fine(t) /\ t.fh = s.fh /\ t.dh = s.dh
               /\ EnoughBlocks =>
                    \/ Calm(Tree(s), Tree(t))
                    \/ /\ Vacated(Tree(s), q, m) \in Trees
                       /\ WithName(Vacated(Tree(s), q, m), q, m, i) \in Trees
                       /\ Moved(Tree(s), p, n, q, m, i) \in Trees
                       /\ Calm(Moved(Tree(s), p, n, q, m, i), Tree(t))
                       /\ j # Nil /\ Tree(s)[j].kind = "dir" => Count(Tree(s)[j].ents) = 2
<1> DEFINE u == lookup(s, p, n)
           e == Entry(u, p, n)
           r == MakeRoom(u, q, m)
           w == Link(opendir(r.s, q), e, q, m)
           t == rename(s, p, n, q, m)
           X == Anchors \ {<<q, m>>}
<1>1. t = IF e = Nil THEN u ELSE IF r.ok THEN unlink(w, p, n) ELSE r.s
  BY DEF rename
<1>2. n \in Name /\ m \in Name /\ x \in Positions /\ y \in Positions /\ X \subseteq Positions
      /\ <<p, n>> # RootLink /\ <<p, n>> \in Anchors /\ <<p, n>> \in Positions
      /\ <<q, m>> \in Positions
  BY AnchorsOK DEF Name
<1>3. <<p, n>> \in X
  BY <1>2
<1>4. /\ Fine(u) /\ Calm(Tree(s), Tree(u)) /\ Safe(Tree(s), Tree(u), Positions)
      /\ u.fh = s.fh /\ u.dh = s.dh
      /\ Tree(u)[p] # Nil /\ e = Tree(u)[p].ents[n] /\ e \in {Tree(s)[p].ents[n], Nil}
      /\ EnoughBlocks => e = Tree(s)[p].ents[n]
      /\ e # Nil => /\ e \in Ino /\ Tree(u)[e] # Nil /\ u.files[e] # Nil
                    /\ Held(Tree(u), e, <<p, n>>) /\ Held(Tree(s), e, <<p, n>>)
                    /\ Tree(u)[e].kind = Tree(s)[e].kind
      /\ e # Nil /\ n \in Names => e # Root /\ e # p
  <2> HIDE DEF u, e
  <2> QED BY <1>2, LookedUp DEF u, e
<1> HIDE DEF u, e, t
<1>5. Tree(s) \in Trees /\ Tree(u) \in Trees /\ Counted(Tree(u))
  BY <1>4 DEF Fine, Sane, Counted
<1>6. CASE e = Nil
  <2>1. t = u
    BY <1>1, <1>6
  <2> QED BY <2>1, <1>4 DEF t
<1>7. CASE e # Nil
  <2>1. e = i /\ e \in Ino /\ e # Root /\ e # p /\ Held(Tree(u), e, <<p, n>>)
    BY <1>4, <1>7
  <2>2. Safe(Tree(s), Tree(u), X)
    BY <1>2, <1>4, SafeSub
  <2>3. /\ Held(Tree(u), q, y) /\ Tree(u)[q].kind = "dir"
        /\ Held(Tree(u), p, x) /\ Tree(u)[p].kind = "dir"
    BY <2>2 DEF Safe
  <2> DEFINE k == Tree(u)[q].ents[m]
  <2>4. /\ Fine(r.s) /\ Safe(Tree(u), Tree(r.s), Anchors \ {<<q, m>>})
        /\ r.s.fh = u.fh /\ r.s.dh = u.dh
        /\ Adds(Tree(u), Tree(r.s), {})
        /\ r.ok => Clear(Tree(r.s), <<q, m>>)
        /\ ~r.ok => Calm(Tree(u), Tree(r.s))
        /\ r.ok /\ EnoughBlocks =>
             /\ Vacated(Tree(u), q, m) \in Trees /\ Calm(Vacated(Tree(u), q, m), Tree(r.s))
             /\ k # Nil /\ Tree(u)[k].kind = "dir" => Count(Tree(u)[k].ents) = 2
    <3>1. Fine(u) /\ Held(Tree(u), q, y) /\ Tree(u)[q].kind = "dir"
      BY <2>3, <1>4
    <3> HIDE DEF r, k
    <3> QED BY <3>1, MakeRoomFine DEF r, k
  <2> DEFINE v == r.s
  <2> HIDE DEF r
  <2>5. CASE ~r.ok
    <3>1. t = r.s
      BY <2>5, <1>1, <1>7
    <3>2. Calm(Tree(s), Tree(t))
      BY <2>4, <2>5, <3>1, <1>4, <1>5, CalmTrans
    <3> QED BY <3>1, <3>2, <2>4, <1>4 DEF t
  <2>6. CASE r.ok
    <3>1. t = unlink(w, p, n)
      BY <2>6, <1>1, <1>7
    <3>2. Fine(v) /\ Safe(Tree(u), Tree(v), X) /\ v.fh = u.fh /\ v.dh = u.dh /\ Clear(Tree(v), <<q, m>>)
      BY <2>4, <2>6
    <3>3. w = Link(opendir(v, q), e, q, m)
      OBVIOUS
    <3> HIDE DEF v
    <3>4. /\ Held(Tree(v), q, y) /\ Tree(v)[q].kind = "dir"
          /\ Held(Tree(v), p, x) /\ Tree(v)[p].kind = "dir" /\ Held(Tree(v), e, <<p, n>>)
      BY <2>1, <2>3, <3>2, <1>3 DEF Safe
    <3>5. Pinned(v, q, {}) /\ Inode(v, q).kind = "dir"
      BY <3>2, <3>4, HeldPinned DEF Fine
    <3>6. Tree(v)[q].ents[m] = Nil /\ Tree(v)[q] # Nil /\ Tree(v)[e] # Nil
      BY <3>2, <3>4 DEF Clear, Held
    <3>7. e \notin {q, Root}
      BY <2>1
    <3>8. /\ Fine(w) /\ Safe(Tree(v), Tree(w), Positions) /\ Held(Tree(w), e, <<q, m>>)
          /\ w.fh = v.fh /\ w.dh = v.dh /\ w.files[e] # Nil
          /\ Adds(Tree(v), Tree(w), {<<q, m>>}) /\ WithName(Tree(v), q, m, e) \in Trees
          /\ EnoughBlocks => Calm(WithName(Tree(v), q, m, e), Tree(w))
      <4> DEFINE z == Link(opendir(v, q), e, q, m)
      <4>1. /\ Fine(z) /\ Safe(Tree(v), Tree(z), Positions) /\ Held(Tree(z), e, <<q, m>>)
            /\ z.fh = v.fh /\ z.dh = v.dh /\ z.files[e] # Nil
            /\ Adds(Tree(v), Tree(z), {<<q, m>>}) /\ WithName(Tree(v), q, m, e) \in Trees
            /\ EnoughBlocks => Calm(WithName(Tree(v), q, m, e), Tree(z))
        <5>1. Fine(v) /\ Held(Tree(v), e, <<p, n>>) /\ Tree(v)[q].ents[m] = Nil
          BY <3>2, <3>4, <3>6
        <5>2. e \in Ino /\ <<p, n>> \in Positions
          BY <2>1, <1>2
        <5> QED BY <5>1, <5>2, <3>5, <3>7, AttachOK
      <4>2. w = z
        BY <3>3
      <4> HIDE DEF z, w
      <4> QED BY <4>1, <4>2
    <3> HIDE DEF w
    <3>9. Held(Tree(w), p, x) /\ Tree(w)[p].kind = "dir" /\ Tree(w)[p] # Nil
      BY <3>4, <3>8, <1>2 DEF Safe, Held
    <3>10. Pinned(w, p, {}) /\ Inode(w, p).kind = "dir"
      BY <3>8, <3>9, HeldPinned DEF Fine
    <3>11. /\ Fine(t) /\ Safe(Tree(w), Tree(t), Positions \ {<<p, n>>})
           /\ t.fh = w.fh /\ t.dh = w.dh
           /\ Adds(Tree(w), Tree(t), {}) /\ Clear(Tree(t), <<p, n>>)
           /\ EnoughBlocks => Calm(Drop(Tree(w), p, n), Tree(t))
      <4> DEFINE z == unlink(w, p, n)
      <4>1. /\ Fine(z) /\ Safe(Tree(w), Tree(z), Positions \ {<<p, n>>})
            /\ z.fh = w.fh /\ z.dh = w.dh
            /\ Adds(Tree(w), Tree(z), {}) /\ Clear(Tree(z), <<p, n>>)
            /\ EnoughBlocks => Calm(Drop(Tree(w), p, n), Tree(z))
        <5>1. Fine(w) /\ n \in Name /\ <<p, n>> # RootLink
          BY <3>8, <1>2
        <5> QED BY <5>1, <3>10, UnlinkFine
      <4>2. t = z
        BY <3>1
      <4> HIDE DEF z
      <4> QED BY <4>1, <4>2
    <3>12. t.fh = s.fh /\ t.dh = s.dh
      BY <3>2, <3>8, <3>11, <1>4
    <3>13. ASSUME EnoughBlocks
           PROVE  /\ Vacated(Tree(s), q, m) \in Trees
                  /\ WithName(Vacated(Tree(s), q, m), q, m, i) \in Trees
                  /\ Moved(Tree(s), p, n, q, m, i) \in Trees
                  /\ Calm(Moved(Tree(s), p, n, q, m, i), Tree(t))
                  /\ j # Nil /\ Tree(s)[j].kind = "dir" => Count(Tree(s)[j].ents) = 2
      <4> DEFINE f == Vacated(Tree(s), q, m)
                 g == WithName(f, q, m, i)
      <4>1. k = j /\ (j # Nil => Tree(u)[j] = Tree(s)[j])
        <5>1. Tree(u)[q] # Nil /\ Tree(s)[q] # Nil
          BY <2>3 DEF Held
        <5>2. Tree(u)[q] = Tree(s)[q]
          BY <3>13, <5>1, <1>4 DEF Calm
        <5>3. j # Nil => j \in Ino /\ Tree(u)[j] # Nil
          BY <5>1, <5>2, <1>2, <1>4, <1>5, EntryHeld
        <5> QED BY <3>13, <5>2, <5>3, <1>4 DEF Calm
      <4>2. f \in Trees /\ Calm(f, Vacated(Tree(u), q, m))
        <5>1. Tree(u)[q] # Nil /\ Counted(Tree(s))
          BY <2>3 DEF Held, Fine, Sane
        <5>2. CASE j = Nil
          BY <5>2, <4>1, <1>4, <1>5 DEF Vacated
        <5>3. CASE j # Nil /\ Tree(s)[j].kind = "dir"
          <6>1. f = DropDir(Tree(s), j, q, m) /\ Vacated(Tree(u), q, m) = DropDir(Tree(u), j, q, m)
            BY <5>3, <4>1 DEF Vacated
          <6>2. j \in Ino /\ Tree(u)[j] # Nil
            BY <5>1, <5>3, <4>1, <1>2, <1>5, EntryHeld
          <6>3. /\ DropDir(Tree(s), j, q, m) \in Trees
                /\ Calm(DropDir(Tree(s), j, q, m), DropDir(Tree(u), j, q, m))
            BY <5>1, <6>2, <3>13, <1>2, <1>4, <1>5, CalmDropDir
          <6> QED BY <6>1, <6>3
        <5>4. CASE j # Nil /\ Tree(s)[j].kind # "dir"
          <6>1. f = Drop(Tree(s), q, m) /\ Vacated(Tree(u), q, m) = Drop(Tree(u), q, m)
            BY <5>4, <4>1 DEF Vacated
          <6>2. /\ Drop(Tree(s), q, m) \in Trees /\ Calm(Drop(Tree(s), q, m), Drop(Tree(u), q, m))
            BY <5>1, <3>13, <1>2, <1>4, <1>5, CalmDropTrees
          <6> QED BY <6>1, <6>2
        <5> QED BY <5>2, <5>3, <5>4
      <4>3. Calm(Vacated(Tree(u), q, m), Tree(v)) /\ (k # Nil /\ Tree(u)[k].kind = "dir" => Count(Tree(u)[k].ents) = 2)
        BY <2>4, <2>6, <3>13 DEF v
      <4> HIDE DEF f
      <4>4. Calm(f, Tree(v)) /\ Tree(v) \in Trees
        BY <4>2, <4>3, <3>2, CalmTrans, TreeType DEF Fine, Good
      <4>5. f[q] # Nil /\ f[i] # Nil /\ i \in Ino
        BY <2>1, <3>6, <4>4 DEF Calm
      <4>6. g \in Trees
        BY <4>2, <4>5, <1>2, WithNameAdds
      <4>7. Calm(g, WithName(Tree(v), q, m, e))
        BY <2>1, <3>6, <3>13, <4>2, <4>4, <1>2, CalmWithName
      <4> HIDE DEF g
      <4>8. Calm(g, Tree(w))
        BY <3>8, <3>13, <4>6, <4>7, CalmTrans
      <4>9. Counted(Tree(w))
        BY <3>8 DEF Fine, Sane
      <4>10. Drop(g, p, n) \in Trees /\ Calm(Drop(g, p, n), Drop(Tree(w), p, n))
        BY <3>9, <3>13, <4>6, <4>8, <4>9, <1>2, CalmDropTrees
      <4>11. Calm(Drop(g, p, n), Tree(t))
        BY <3>11, <3>13, <4>10, CalmTrans
      <4>12. j # Nil /\ Tree(s)[j].kind = "dir" => Count(Tree(s)[j].ents) = 2
        BY <4>1, <4>3
      <4> QED BY <4>2, <4>6, <4>10, <4>11, <4>12 DEF Moved, f, g
    <3> QED BY <3>11, <3>12, <3>13 DEF t
  <2> QED BY <2>5, <2>6
<1> QED BY <1>6, <1>7

-----------------------------------------------------------------------------
(* An inode in use may be opened.                                          *)
LEMMA UsedPinned ==
    ASSUME NEW s, Fine(s), NEW i \in Ino, InUse(s, i)
    PROVE  Pinned(s, i, {}) /\ Tree(s)[i] # Nil /\ Tree(s)[i] \in Nodes /\ Tree(s)[i].kind = Inode(s, i).kind
<1>1. Coherent(s, {}) /\ s \in State /\ Sound(s, i, {})
  BY DEF Fine, Good, Coherent
<1>2. i \notin s.ifree
  BY <1>1 DEF Sound, InUse, Inode, FreeSlot
<1>3. Inode(s, i).nlink \in Nat /\ s.fh[i] \in Nat /\ s.dh[i] \in Nat
  BY <1>1, StateFields
<1>4. Pinned(s, i, {})
  BY <1>2, <1>3 DEF Pinned, InUse
<1> QED BY <1>1, <1>2, <1>4, TreeFacts

(* A linked node is held by some entry.                                    *)
LEMMA LinkedHeld ==
    ASSUME NEW f, Counted(f), NEW i \in Ino, f[i] # Nil, f[i].nlink > 0
    PROVE  \E x \in Positions : Held(f, i, x)
<1>1. f[i].nlink \in Nat /\ Cardinality(Refs(f, i)) <= f[i].nlink
  BY DEF Counted, Covered, Trees, Nodes
<1>2. CASE Refs(f, i) = {}
  <2>1. <<Root, ".">> \in Positions
    BY InoAssumption DEF Positions, Name
  <2>2. Cardinality(Refs(f, i) \ {<<Root, ".">>}) = 0
    BY <1>2, FS_EmptySet
  <2> QED BY <1>1, <2>1, <2>2 DEF Held
<1>3. CASE Refs(f, i) # {}
  <2>1. PICK x : x \in Refs(f, i)
    BY <1>3
  <2>2. x \in Positions
    BY <2>1 DEF Refs
  <2>3. Cardinality(Refs(f, i)) \in Nat /\ Cardinality(Refs(f, i) \ {x}) = Cardinality(Refs(f, i)) - 1
    BY <2>1, RefsFinite
  <2>4. Held(f, i, x)
    BY <1>1, <2>3 DEF Held
  <2> QED BY <2>2, <2>4
<1> QED BY <1>2, <1>3

(* The entries of a directory in use are the tree's.                       *)
LEMMA EntryOfDir ==
    ASSUME Fine(dk), NEW p \in Used, IsDir(p), NEW n \in Name
    PROVE  At(p, n) = Tree(dk)[p].ents[n] /\ p \in Ino /\ Tree(dk)[p] # Nil
<1>1. p \in Ino /\ InUse(dk, p) /\ Inode(dk, p).kind = "dir"
  BY DEF Used, IsDir
<1>2. Tree(dk)[p] # Nil /\ Tree(dk)[p].kind = "dir"
  BY <1>1, UsedPinned
<1>3. Coherent(dk, {})
  BY DEF Fine, Good
<1> QED BY <1>1, <1>2, <1>3, TreeFacts DEF At

(* The directories the kernel may pass are held, by the root's link or by  *)
(* a name.                                                                 *)
LEMMA DirHeld ==
    ASSUME Fine(dk), NEW p \in Dirs
    PROVE  /\ p \in Ino /\ Pinned(dk, p, {}) /\ Inode(dk, p).kind = "dir"
           /\ Tree(dk)[p] # Nil /\ Tree(dk)[p].kind = "dir"
           /\ \A n \in Name : At(p, n) = Tree(dk)[p].ents[n]
           /\ \E x \in Anchors : /\ Held(Tree(dk), p, x)
                                 /\ \A q \in Ino, m \in Names : x = <<q, m>> => Tree(dk)[q].ents[m] = p
<1>1. p \in Ino /\ p \in Used /\ IsDir(p) /\ InUse(dk, p) /\ Inode(dk, p).kind = "dir"
  BY DEF Dirs, Used, IsDir
<1>2. Pinned(dk, p, {}) /\ Tree(dk)[p] # Nil /\ Tree(dk)[p].kind = "dir"
  BY <1>1, UsedPinned
<1>3. \A n \in Name : At(p, n) = Tree(dk)[p].ents[n]
  BY <1>1, EntryOfDir
<1>4. CASE p = Root
  <2>1. Held(Tree(dk), p, RootLink)
    BY <1>4 DEF Fine, Sane, Rooted
  <2>2. RootLink \in Anchors /\ \A q \in Ino, m \in Names : RootLink # <<q, m>>
    BY AnchorsOK
  <2> QED BY <1>1, <1>2, <1>3, <2>1, <2>2
<1>5. CASE p # Root
  <2>1. PICK q \in Used, m \in Names : IsDir(q) /\ At(q, m) = p
    BY <1>5 DEF Dirs
  <2>2. m \in Name /\ Counted(Tree(dk)) /\ p # Nil
    BY <1>1, NilAssumption DEF Name, Fine, Sane
  <2>3. q \in Ino /\ Tree(dk)[q] # Nil /\ Tree(dk)[q].ents[m] = p
    BY <2>1, <2>2, EntryOfDir
  <2>4. Held(Tree(dk), p, <<q, m>>)
    BY <2>2, <2>3, EntryHeld
  <2>5. <<q, m>> \in Anchors
    BY <2>3, AnchorsOK
  <2>6. \A d \in Ino, k \in Names : <<q, m>> = <<d, k>> => Tree(dk)[d].ents[k] = p
    BY <2>3
  <2> QED BY <1>1, <1>2, <1>3, <2>4, <2>5, <2>6
<1> QED BY <1>4, <1>5

(* Every inode is below itself.                                            *)
LEMMA BelowSelf ==
    ASSUME NEW i \in Ino
    PROVE  i \in Below(i)
BY DEF Below

-----------------------------------------------------------------------------
(* The handles are as before, and no handler panics.                       *)
Quiet == dk'.fh = dk.fh /\ dk'.dh = dk.dh /\ panicked' = panicked

(* FuseLookup.                                                             *)
LEMMA LookupStep ==
    ASSUME Fine(dk), NEW p \in Dirs, NEW n \in Names, FuseLookup(p, n)
    PROVE  Fine(dk') /\ Quiet /\ Calm(Tree(dk), Tree(dk'))
<1> DEFINE t == lookup(dk, p, n)
<1>1. p \in Ino /\ Pinned(dk, p, {}) /\ Inode(dk, p).kind = "dir" /\ n \in Name
  BY DirHeld DEF Name
<1>2. Fine(t) /\ Calm(Tree(dk), Tree(t)) /\ t.fh = dk.fh /\ t.dh = dk.dh
  BY <1>1, LookupOK
<1>3. dk' = t /\ panicked' = panicked
  BY DEF FuseLookup, Run
<1> HIDE DEF t
<1> QED BY <1>2, <1>3 DEF Quiet

(* FuseMknod: a new file, or no change of the tree when no inode is free.  *)
LEMMA MknodStep ==
    ASSUME Fine(dk), NEW p \in Dirs, NEW n \in Names, FuseMknod(p, n)
    PROVE  /\ Fine(dk') /\ Quiet /\ Tree(dk)[p].ents[n] = Nil
           /\ \/ Calm(Tree(dk), Tree(dk'))
              \/ \E i \in Ino :
                   /\ Vacant(dk, i)
                   /\ EnoughBlocks =>
                        /\ WithName(Grown(Tree(dk), i, "file"), p, n, i) \in Trees
                        /\ Calm(WithName(Grown(Tree(dk), i, "file"), p, n, i), Tree(dk'))
<1>1. p \in Ino /\ Pinned(dk, p, {}) /\ Inode(dk, p).kind = "dir" /\ n \in Name
  BY DirHeld DEF Name
<1>2. Tree(dk)[p].ents[n] = Nil
  BY <1>1, DirHeld DEF FuseMknod
<1>3. PICK i \in Allocatable(opendir(dk, p)) : Run(mknod(dk, p, n, i))
  BY DEF FuseMknod
<1> DEFINE t == mknod(dk, p, n, i)
           f == Grown(Tree(dk), i, "file")
<1>4. /\ Fine(t) /\ t.fh = dk.fh /\ t.dh = dk.dh
      /\ i = Nil => Calm(Tree(dk), Tree(t))
      /\ i # Nil =>
           /\ i \in Ino /\ Vacant(dk, i) /\ t.files[i] # Nil
           /\ Held(Tree(t), i, <<p, n>>) /\ Tree(t)[i].kind = "file"
           /\ EnoughBlocks => /\ WithName(f, p, n, i) \in Trees
                              /\ Calm(WithName(f, p, n, i), Tree(t))
  BY <1>1, <1>2, MknodFine
<1>5. dk' = t /\ panicked' = panicked
  BY <1>3 DEF Run
<1> HIDE DEF t
<1> QED BY <1>2, <1>4, <1>5 DEF Quiet

(* FuseSymlink: the same, of either size.                                  *)
LEMMA SymlinkStep ==
    ASSUME Fine(dk), NEW p \in Dirs, NEW n \in Names, FuseSymlink(p, n)
    PROVE  /\ Fine(dk') /\ Quiet /\ Tree(dk)[p].ents[n] = Nil
           /\ \/ Calm(Tree(dk), Tree(dk'))
              \/ \E i \in Ino :
                   /\ Vacant(dk, i)
                   /\ EnoughBlocks =>
                        LET f == WithName(Grown(Tree(dk), i, "file"), p, n, i)
                        IN  /\ f \in Trees /\ f[i] # Nil
                            /\ \E z \in 0 .. 1 : /\ SetSize(f, i, z) \in Trees
                                                 /\ Calm(SetSize(f, i, z), Tree(dk'))
<1>1. p \in Ino /\ Pinned(dk, p, {}) /\ Inode(dk, p).kind = "dir" /\ n \in Name
  BY DirHeld DEF Name
<1>2. Tree(dk)[p].ents[n] = Nil
  BY <1>1, DirHeld DEF FuseSymlink
<1>3. PICK i \in Allocatable(opendir(dk, p)) : Run(symlink(dk, p, n, i))
  BY DEF FuseSymlink
<1> DEFINE t == symlink(dk, p, n, i)
           f == WithName(Grown(Tree(dk), i, "file"), p, n, i)
<1>4. /\ Fine(t) /\ t.fh = dk.fh /\ t.dh = dk.dh
      /\ i = Nil => Calm(Tree(dk), Tree(t))
      /\ i # Nil =>
           /\ i \in Ino /\ Vacant(dk, i)
           /\ EnoughBlocks => /\ f \in Trees /\ f[i] # Nil
                              /\ \E z \in 0 .. 1 : /\ SetSize(f, i, z) \in Trees
                                                   /\ Calm(SetSize(f, i, z), Tree(t))
  BY <1>1, <1>2, SymlinkHandler
<1>5. dk' = t /\ panicked' = panicked
  BY <1>3 DEF Run
<1> HIDE DEF t
<1> QED BY <1>2, <1>4, <1>5 DEF Quiet

(* FuseMkdir: a new directory, or nothing when no inode is free.           *)
LEMMA MkdirStep ==
    ASSUME Fine(dk), NEW p \in Dirs, NEW n \in Names, FuseMkdir(p, n)
    PROVE  /\ Fine(dk') /\ Quiet /\ Tree(dk)[p].ents[n] = Nil
           /\ \/ dk' = dk
              \/ \E i \in Ino :
                   /\ Vacant(dk, i)
                   /\ EnoughBlocks =>
                        LET g == NewDir(Tree(dk), i, p)
                        IN  /\ g \in Trees /\ WithName(g, p, n, i) \in Trees
                            /\ Calm(WithName(g, p, n, i), Tree(dk'))
<1>1. p \in Ino /\ Tree(dk)[p].kind = "dir"
  BY DirHeld
<1>2. Tree(dk)[p].ents[n] = Nil
  BY <1>1, DirHeld DEF FuseMkdir, Name
<1>3. PICK x \in Positions : Held(Tree(dk), p, x)
  BY DirHeld, AnchorsOK
<1>4. PICK i \in Allocatable(dk) : Run(mkdir(dk, p, n, i))
  BY DEF FuseMkdir
<1> DEFINE t == mkdir(dk, p, n, i)
           g == NewDir(Tree(dk), i, p)
<1>5. /\ Fine(t) /\ t.fh = dk.fh /\ t.dh = dk.dh
      /\ i = Nil => t = dk
      /\ i # Nil =>
           /\ i \in Ino /\ Vacant(dk, i)
           /\ EnoughBlocks => /\ g \in Trees /\ WithName(g, p, n, i) \in Trees
                              /\ Calm(WithName(g, p, n, i), Tree(t))
  BY <1>1, <1>2, <1>3, MkdirHandler
<1>6. dk' = t /\ panicked' = panicked
  BY <1>4 DEF Run
<1> HIDE DEF t
<1> QED BY <1>2, <1>5, <1>6 DEF Quiet

(* FuseLink: a new name for a file.                                        *)
LEMMA LinkStep ==
    ASSUME Fine(dk), NEW p \in Dirs, NEW n \in Names, NEW i \in Files \cap Linked, FuseLink(i, p, n)
    PROVE  /\ Fine(dk') /\ Quiet /\ Tree(dk)[p].ents[n] = Nil
           /\ i \in Ino /\ Tree(dk)[i] # Nil /\ Tree(dk)[i].kind = "file"
           /\ WithName(Tree(dk), p, n, i) \in Trees
           /\ EnoughBlocks => Calm(WithName(Tree(dk), p, n, i), Tree(dk'))
<1>1. /\ p \in Ino /\ Pinned(dk, p, {}) /\ Inode(dk, p).kind = "dir" /\ n \in Name
      /\ Tree(dk)[p].kind = "dir"
  BY DirHeld DEF Name
<1>2. Tree(dk)[p].ents[n] = Nil
  BY <1>1, DirHeld DEF FuseLink
<1>3. i \in Ino /\ InUse(dk, i) /\ Inode(dk, i).kind # "dir" /\ Inode(dk, i).nlink > 0
  BY DEF Files, Linked, Used, IsDir
<1>4. /\ Tree(dk)[i] # Nil /\ Tree(dk)[i] \in Nodes /\ Tree(dk)[i].kind = Inode(dk, i).kind
      /\ Tree(dk)[i].nlink = Inode(dk, i).nlink
  BY <1>3, UsedPinned, TreeFacts DEF Fine, Good
<1>5. Tree(dk)[i].kind = "file"
  BY <1>3, <1>4 DEF Nodes
<1>6. PICK x \in Positions : Held(Tree(dk), i, x)
  BY <1>3, <1>4, LinkedHeld DEF Fine, Sane
<1>7. i \notin {p, Root}
  BY <1>1, <1>5 DEF Fine, Sane, Rooted
<1> DEFINE t == link(dk, i, p, n)
<1>8. /\ Fine(t) /\ t.fh = dk.fh /\ t.dh = dk.dh
      /\ WithName(Tree(dk), p, n, i) \in Trees
      /\ EnoughBlocks => Calm(WithName(Tree(dk), p, n, i), Tree(t))
  BY <1>1, <1>2, <1>3, <1>6, <1>7, LinkHandler
<1>9. dk' = t /\ panicked' = panicked
  BY DEF FuseLink, Run
<1> HIDE DEF t
<1> QED BY <1>2, <1>3, <1>4, <1>5, <1>8, <1>9 DEF Quiet

(* FuseUnlink: a name of a file goes.                                      *)
LEMMA UnlinkStep ==
    ASSUME Fine(dk), NEW p \in Dirs, NEW n \in Names, FuseUnlink(p, n)
    PROVE  /\ Fine(dk') /\ Quiet
           /\ LET i == Tree(dk)[p].ents[n]
              IN  i # Nil /\ i \in Ino /\ Tree(dk)[i] # Nil /\ Tree(dk)[i].kind = "file"
           /\ EnoughBlocks => Calm(Drop(Tree(dk), p, n), Tree(dk'))
<1>1. p \in Ino /\ Pinned(dk, p, {}) /\ Inode(dk, p).kind = "dir" /\ n \in Name /\ Tree(dk)[p] # Nil
  BY DirHeld DEF Name
<1> DEFINE i == Tree(dk)[p].ents[n]
           t == unlink(dk, p, n)
<1>2. i # Nil /\ ~IsDir(i)
  BY <1>1, DirHeld DEF FuseUnlink
<1>3. i \in Ino /\ Tree(dk)[i] # Nil
  BY <1>1, <1>2, EntryHeld DEF Fine, Sane
<1>4. Tree(dk)[i].kind = "file"
  <2>1. Tree(dk)[i] \in Nodes /\ Tree(dk)[i].kind = Inode(dk, i).kind
    BY <1>3, TreeFacts DEF Fine, Good
  <2> QED BY <2>1, <1>2 DEF IsDir, Nodes
<1>5. <<p, n>> # RootLink
  BY <1>1, AnchorsOK
<1>6. /\ Fine(t) /\ t.fh = dk.fh /\ t.dh = dk.dh
      /\ EnoughBlocks => Calm(Drop(Tree(dk), p, n), Tree(t))
  BY <1>1, <1>5, UnlinkFine
<1>7. dk' = t /\ panicked' = panicked
  BY DEF FuseUnlink, Run
<1> HIDE DEF t
<1> QED BY <1>2, <1>3, <1>4, <1>6, <1>7 DEF Quiet

(* FuseRmdir: an empty directory goes, or nothing.                         *)
LEMMA RmdirStep ==
    ASSUME Fine(dk), NEW p \in Dirs, NEW n \in Names, FuseRmdir(p, n)
    PROVE  /\ Fine(dk') /\ Quiet
           /\ LET j == Tree(dk)[p].ents[n]
              IN  /\ j # Nil /\ j \in Ino /\ Tree(dk)[j] # Nil /\ Tree(dk)[j].kind = "dir"
                  /\ \/ Calm(Tree(dk), Tree(dk'))
                     \/ EnoughBlocks => /\ Calm(DropDir(Tree(dk), j, p, n), Tree(dk'))
                                        /\ Count(Tree(dk)[j].ents) = 2
<1>1. p \in Ino /\ n \in Name /\ Tree(dk)[p] # Nil /\ Tree(dk)[p].kind = "dir" /\ Counted(Tree(dk))
  BY DirHeld DEF Name, Fine, Sane
<1> DEFINE j == Tree(dk)[p].ents[n]
           r == rmdir(dk, p, n)
<1>2. j # Nil /\ IsDir(j)
  BY <1>1, DirHeld DEF FuseRmdir
<1>3. j \in Ino /\ Tree(dk)[j] # Nil /\ j # p
  BY <1>1, <1>2, EntryHeld DEF Counted, Proper
<1>4. Tree(dk)[j].kind = "dir"
  BY <1>2, <1>3, TreeFacts DEF Fine, Good, IsDir
<1>5. PICK x \in Anchors : /\ Held(Tree(dk), p, x)
                           /\ \A q \in Ino, m \in Names : x = <<q, m>> => Tree(dk)[q].ents[m] = p
  BY DirHeld
<1>6. x \in Anchors \ {<<p, n>>}
  BY <1>1, <1>3, <1>5
<1>7. /\ Fine(r.s) /\ Safe(Tree(dk), Tree(r.s), Anchors \ {<<p, n>>})
      /\ r.s.fh = dk.fh /\ r.s.dh = dk.dh
      /\ Adds(Tree(dk), Tree(r.s), {})
      /\ r.ok => j # Nil /\ Clear(Tree(r.s), <<p, n>>)
      /\ ~r.ok => Calm(Tree(dk), Tree(r.s))
      /\ r.ok /\ EnoughBlocks => /\ Calm(DropDir(Tree(dk), j, p, n), Tree(r.s))
                                 /\ Count(Tree(dk)[j].ents) = 2
  BY <1>1, <1>4, <1>5, <1>6, RmdirFine
<1>8. dk' = r.s /\ panicked' = panicked
  BY DEF FuseRmdir, Run
<1> HIDE DEF r
<1> QED BY <1>2, <1>3, <1>4, <1>7, <1>8 DEF Quiet

(* FuseRename: the node moves, or nothing when a directory in its way is   *)
(* not empty.                                                              *)
LEMMA RenameStep ==
    ASSUME Fine(dk), NEW p \in Dirs, NEW n \in Names, NEW q \in Dirs, NEW m \in Names,
           FuseRename(p, n, q, m),
           NEW i, i = Tree(dk)[p].ents[n], NEW j, j = Tree(dk)[q].ents[m]
    PROVE  /\ Fine(dk') /\ Quiet
           /\ i # Nil /\ i \in Ino /\ Tree(dk)[i] # Nil /\ i # j /\ i # q
           /\ j # Nil => /\ j \in Ino /\ Tree(dk)[j] # Nil /\ p # j
                         /\ Tree(dk)[i].kind = "dir" <=> Tree(dk)[j].kind = "dir"
           /\ EnoughBlocks =>
                \/ Calm(Tree(dk), Tree(dk'))
                \/ /\ Vacated(Tree(dk), q, m) \in Trees
                   /\ WithName(Vacated(Tree(dk), q, m), q, m, i) \in Trees
                   /\ Moved(Tree(dk), p, n, q, m, i) \in Trees
                   /\ Calm(Moved(Tree(dk), p, n, q, m, i), Tree(dk'))
                   /\ j # Nil /\ Tree(dk)[j].kind = "dir" => Count(Tree(dk)[j].ents) = 2
<1>1. /\ p \in Ino /\ n \in Name /\ Tree(dk)[p] # Nil /\ Tree(dk)[p].kind = "dir"
      /\ q \in Ino /\ m \in Name /\ Tree(dk)[q] # Nil /\ Tree(dk)[q].kind = "dir"
      /\ Counted(Tree(dk))
  BY DirHeld DEF Name, Fine, Sane
<1>2. i = At(p, n) /\ j = At(q, m)
  BY <1>1, DirHeld
<1>3. /\ i # Nil /\ i # j
      /\ j # Nil => (IsDir(i) <=> IsDir(j)) /\ p \notin Below(j)
      /\ q \notin Below(i)
      /\ dk' = rename(dk, p, n, q, m) /\ panicked' = panicked
  BY <1>2 DEF FuseRename, Run
<1>4. i \in Ino /\ Tree(dk)[i] # Nil /\ i # q
  <2>1. i \in Ino /\ Tree(dk)[i] # Nil
    BY <1>1, <1>3, EntryHeld
  <2> QED BY <2>1, <1>3, BelowSelf
<1>5. j # Nil => j \in Ino /\ Tree(dk)[j] # Nil /\ j # p /\ j # q
  <2>1. j # Nil => j \in Ino /\ Tree(dk)[j] # Nil
    BY <1>1, EntryHeld
  <2>2. j # Nil => j # q
    BY <1>1 DEF Counted, Proper
  <2> QED BY <2>1, <2>2, <1>3, BelowSelf
<1>6. j # Nil => (Tree(dk)[i].kind = "dir" <=> Tree(dk)[j].kind = "dir")
  BY <1>3, <1>4, <1>5, TreeFacts DEF Fine, Good, IsDir
<1>7. PICK x \in Anchors : /\ Held(Tree(dk), p, x)
                           /\ \A d \in Ino, k \in Names : x = <<d, k>> => Tree(dk)[d].ents[k] = p
  BY DirHeld
<1>8. PICK y \in Anchors : /\ Held(Tree(dk), q, y)
                           /\ \A d \in Ino, k \in Names : y = <<d, k>> => Tree(dk)[d].ents[k] = q
  BY DirHeld
<1>9. p # Nil /\ q # Nil
  BY <1>1, NilAssumption
<1>10. x \in Anchors \ {<<q, m>>}
  BY <1>1, <1>5, <1>7, <1>9
<1>11. y \in Anchors \ {<<q, m>>}
  BY <1>1, <1>5, <1>8, <1>9
<1> DEFINE t == rename(dk, p, n, q, m)
<1>12. /\ Fine(t) /\ t.fh = dk.fh /\ t.dh = dk.dh
       /\ EnoughBlocks =>
            \/ Calm(Tree(dk), Tree(t))
            \/ /\ Vacated(Tree(dk), q, m) \in Trees
               /\ WithName(Vacated(Tree(dk), q, m), q, m, i) \in Trees
               /\ Moved(Tree(dk), p, n, q, m, i) \in Trees
               /\ Calm(Moved(Tree(dk), p, n, q, m, i), Tree(t))
               /\ j # Nil /\ Tree(dk)[j].kind = "dir" => Count(Tree(dk)[j].ents) = 2
  BY <1>1, <1>3, <1>4, <1>7, <1>8, <1>10, <1>11, RenameHandler
<1>13. dk' = t
  BY <1>3
<1> HIDE DEF t
<1>14. Fine(dk') /\ Quiet
  BY <1>3, <1>12, <1>13 DEF Quiet
<1> QED BY <1>3, <1>4, <1>5, <1>6, <1>12, <1>13, <1>14

-----------------------------------------------------------------------------
(* FuseChmod, by path and by file handle.                                  *)
LEMMA ChmodStep ==
    ASSUME Fine(dk), NEW i \in Used, NEW given \in BOOLEAN, NEW suid \in BOOLEAN, FuseChmod(i, given, suid)
    PROVE  /\ Fine(dk') /\ Quiet /\ i \in Ino /\ Tree(dk)[i] # Nil
           /\ EnoughBlocks => /\ SetSuid(Tree(dk), i, suid) \in Trees
                              /\ Calm(SetSuid(Tree(dk), i, suid), Tree(dk'))
<1>1. i \in Ino /\ Pinned(dk, i, {}) /\ Tree(dk)[i] # Nil
  BY UsedPinned DEF Used
<1> DEFINE t == setattr(dk, i, given, suid, Nil)
           f == WithAttrs(Tree(dk), i, suid, Nil)
<1>2. given => dk.fh[i] > 0
  BY DEF FuseChmod
<1>3. /\ Fine(t) /\ t.fh = dk.fh /\ t.dh = dk.dh
      /\ EnoughBlocks => f \in Trees /\ Calm(f, Tree(t))
  BY <1>1, <1>2, SetattrHandler
<1>4. f = SetSuid(Tree(dk), i, suid)
  BY DEF WithAttrs
<1>5. dk' = t /\ panicked' = panicked
  BY DEF FuseChmod, Run
<1> HIDE DEF t, f
<1> QED BY <1>1, <1>3, <1>4, <1>5 DEF Quiet

(* FuseTruncate, by path and by file handle.                               *)
LEMMA TruncateStep ==
    ASSUME Fine(dk), NEW i \in Files, NEW given \in BOOLEAN, FuseTruncate(i, given)
    PROVE  /\ Fine(dk') /\ Quiet
           /\ EnoughBlocks => /\ SetSize(Tree(dk), i, 0) \in Trees
                              /\ Calm(SetSize(Tree(dk), i, 0), Tree(dk'))
<1>1. i \in Ino /\ Pinned(dk, i, {}) /\ Inode(dk, i).kind = "file"
  <2>1. i \in Ino /\ InUse(dk, i) /\ Inode(dk, i).kind # "dir"
    BY DEF Files, Used, IsDir
  <2>2. Pinned(dk, i, {}) /\ Tree(dk)[i] \in Nodes /\ Tree(dk)[i].kind = Inode(dk, i).kind
    BY <2>1, UsedPinned
  <2> QED BY <2>1, <2>2 DEF Nodes
<1> DEFINE t == setattr(dk, i, given, Nil, 0)
           f == WithAttrs(Tree(dk), i, Nil, 0)
<1>2. given => dk.fh[i] > 0
  BY DEF FuseTruncate
<1>3. /\ Fine(t) /\ t.fh = dk.fh /\ t.dh = dk.dh
      /\ EnoughBlocks => f \in Trees /\ Calm(f, Tree(t))
  BY <1>1, <1>2, SetattrHandler
<1>4. f = SetSize(Tree(dk), i, 0)
  BY NilAssumption DEF WithAttrs
<1>5. dk' = t /\ panicked' = panicked
  BY DEF FuseTruncate, Run
<1> HIDE DEF t, f
<1> QED BY <1>3, <1>4, <1>5 DEF Quiet

(* A file in use is linked or open.                                        *)
LEMMA FileUsed ==
    ASSUME Fine(dk), NEW i \in Files
    PROVE  /\ i \in Ino /\ Pinned(dk, i, {}) /\ Inode(dk, i).kind = "file"
           /\ Tree(dk)[i] # Nil /\ Tree(dk)[i].kind = "file"
           /\ \E x \in Positions : Held(Tree(dk), i, x) \/ dk.fh[i] > 0
<1>1. i \in Ino /\ InUse(dk, i) /\ Inode(dk, i).kind # "dir"
  BY DEF Files, Used, IsDir
<1>2. /\ Pinned(dk, i, {}) /\ Tree(dk)[i] # Nil
      /\ Tree(dk)[i] \in Nodes /\ Tree(dk)[i].kind = Inode(dk, i).kind
  BY <1>1, UsedPinned
<1>3. Inode(dk, i).kind = "file"
  BY <1>1, <1>2 DEF Nodes
<1>4. dk.dh[i] > 0 => FALSE
  BY <1>1, Handled
<1>5. CASE Inode(dk, i).nlink > 0
  <2>1. Tree(dk)[i].nlink = Inode(dk, i).nlink
    BY <1>1, <1>2, TreeFacts DEF Fine, Good
  <2>2. \E x \in Positions : Held(Tree(dk), i, x)
    BY <1>1, <1>2, <1>5, <2>1, LinkedHeld DEF Fine, Sane
  <2> QED BY <1>1, <1>2, <1>3, <2>2
<1>6. CASE dk.fh[i] > 0
  <2>1. RootLink \in Positions
    BY AnchorsOK
  <2> QED BY <1>1, <1>2, <1>3, <1>6, <2>1
<1> QED BY <1>2, <1>4, <1>5, <1>6 DEF Pinned

(* FuseWrite.                                                              *)
LEMMA WriteStep ==
    ASSUME Fine(dk), NEW i \in Files, FuseWrite(i)
    PROVE  /\ Fine(dk') /\ Quiet
           /\ \E size \in 0 .. 1 : Tree(dk') = SetSize(Tree(dk), i, size)
<1>1. i \in Ino /\ Inode(dk, i).kind = "file" /\ dk.fh[i] > 0
  BY FileUsed DEF FuseWrite
<1> DEFINE t == write(dk, i)
<1>2. /\ Fine(t) /\ Safe(Tree(dk), Tree(t), Positions) /\ t.fh = dk.fh /\ t.dh = dk.dh
      /\ t.files[i] # Nil /\ Tree(t)[i] # Nil
      /\ \E size \in 0 .. 1 : Tree(t) = SetSize(Tree(dk), i, size)
  BY <1>1, WriteHandler
<1>3. dk' = t /\ panicked' = panicked
  BY DEF FuseWrite, Run
<1> HIDE DEF t
<1> QED BY <1>2, <1>3 DEF Quiet

(* FuseGetattr.                                                            *)
LEMMA GetattrStep ==
    ASSUME Fine(dk), NEW i \in Used, FuseGetattr(i)
    PROVE  Fine(dk') /\ Quiet /\ Calm(Tree(dk), Tree(dk'))
<1>1. i \in Ino /\ Pinned(dk, i, {})
  BY UsedPinned DEF Used
<1> DEFINE t == getattr(dk, i)
<1>2. Fine(t) /\ Calm(Tree(dk), Tree(t)) /\ t.fh = dk.fh /\ t.dh = dk.dh
  BY <1>1, GetattrOK
<1>3. dk' = t /\ panicked' = panicked
  BY DEF FuseGetattr, Run
<1> HIDE DEF t
<1> QED BY <1>2, <1>3 DEF Quiet

(* FuseReadlink.                                                           *)
LEMMA ReadlinkStep ==
    ASSUME Fine(dk), NEW i \in Files, FuseReadlink(i)
    PROVE  Fine(dk') /\ Quiet /\ Calm(Tree(dk), Tree(dk'))
<1>1. i \in Ino /\ Pinned(dk, i, {})
  BY FileUsed
<1>2. PICK x \in Positions : Held(Tree(dk), i, x) \/ dk.fh[i] > 0
  BY FileUsed
<1> DEFINE t == DropFileHandle(open(getattr(dk, i), i), i)
<1>3. Fine(t) /\ Calm(Tree(dk), Tree(t)) /\ t.fh = dk.fh /\ t.dh = dk.dh
  BY <1>1, <1>2, ReadlinkHandler
<1>4. dk' = t /\ panicked' = panicked
  BY DEF FuseReadlink, Run
<1> HIDE DEF t
<1> QED BY <1>3, <1>4 DEF Quiet

(* FuseOpen: one more handle; the set-id bits stay for root only.          *)
LEMMA OpenStep ==
    ASSUME Fine(dk), NEW i \in Files, NEW root \in BOOLEAN, FuseOpen(i, root)
    PROVE  /\ Fine(dk') /\ dk.fh[i] < MaxHandles
           /\ dk'.fh = [dk.fh EXCEPT ![i] = @ + 1] /\ dk'.dh = dk.dh /\ panicked' = panicked
           /\ \/ Calm(Tree(dk), Tree(dk'))
              \/ EnoughBlocks => /\ SetSuid(Tree(dk), i, FALSE) \in Trees
                                 /\ Calm(SetSuid(Tree(dk), i, FALSE), Tree(dk'))
<1>1. i \in Ino /\ Pinned(dk, i, {})
  BY FileUsed
<1> DEFINE t == open(dk, i)
           u == clear_set_bits(open(dk, i), i)
<1>2. /\ Fine(t) /\ Calm(Tree(dk), Tree(t)) /\ Safe(Tree(dk), Tree(t), Positions)
      /\ t.fh = [dk.fh EXCEPT ![i] = @ + 1] /\ t.dh = dk.dh
  BY <1>1, OpenHandler
<1>3. /\ Fine(u) /\ u.fh = [dk.fh EXCEPT ![i] = @ + 1] /\ u.dh = dk.dh
      /\ EnoughBlocks => /\ SetSuid(Tree(dk), i, FALSE) \in Trees
                         /\ Calm(SetSuid(Tree(dk), i, FALSE), Tree(u))
  BY <1>1, OpenClearing
<1>4. dk.fh[i] < MaxHandles /\ dk' = (IF root THEN t ELSE u) /\ panicked' = panicked
  BY DEF FuseOpen, Run
<1> HIDE DEF t, u
<1> QED BY <1>2, <1>3, <1>4

(* FuseRead.                                                               *)
LEMMA ReadStep ==
    ASSUME Fine(dk), NEW i \in Files, FuseRead(i)
    PROVE  Fine(dk') /\ Quiet /\ Tree(dk') = Tree(dk)
<1> DEFINE t == read(dk, i)
<1>1. i \in Ino /\ dk.fh[i] > 0 /\ dk' = t /\ panicked' = panicked
  BY FileUsed DEF FuseRead, Run
<1>2. Fine(t) /\ Tree(t) = Tree(dk) /\ t.fh = dk.fh /\ t.dh = dk.dh
  BY <1>1, ReadHandler
<1> HIDE DEF t
<1> QED BY <1>1, <1>2 DEF Quiet

(* FuseFlush.                                                              *)
LEMMA FlushStep ==
    ASSUME Fine(dk), NEW i \in Files, FuseFlush(i)
    PROVE  Fine(dk') /\ Quiet /\ Tree(dk') = Tree(dk)
<1> DEFINE t == flush(dk, i)
<1>1. i \in Ino /\ dk.fh[i] > 0 /\ dk' = t /\ panicked' = panicked
  BY FileUsed DEF FuseFlush, Run
<1>2. Fine(t) /\ Tree(t) = Tree(dk) /\ t.fh = dk.fh /\ t.dh = dk.dh
  BY <1>1, FlushHandler
<1> HIDE DEF t
<1> QED BY <1>1, <1>2 DEF Quiet

(* FuseRelease: one handle less, and what is unreachable is reclaimed.     *)
LEMMA ReleaseStep ==
    ASSUME Fine(dk), NEW i \in Files, FuseRelease(i)
    PROVE  /\ Fine(dk') /\ dk.fh[i] > 0
           /\ dk'.fh = [dk.fh EXCEPT ![i] = @ - 1] /\ dk'.dh = dk.dh /\ panicked' = panicked
           /\ Calm(Tree(dk), Tree(dk')) /\ Reclaimed(dk')
<1> DEFINE t == DropFileHandle(dk, i)
           u == apply_releases(t)
<1>1. i \in Ino /\ dk.fh[i] > 0 /\ dk' = u /\ panicked' = panicked
  BY FileUsed DEF FuseRelease, Run
<1>2. Fine(t) /\ Tree(t) = Tree(dk) /\ Still(dk, t) /\ t.fh = [dk.fh EXCEPT ![i] = @ - 1] /\ t.dh = dk.dh
  BY <1>1, FileHandles
<1> HIDE DEF t
<1>3. Fine(u) /\ Calm(Tree(t), Tree(u)) /\ u.fh = t.fh /\ u.dh = t.dh /\ Reclaimed(u)
  BY <1>2, ReleaseFine
<1> HIDE DEF u
<1> QED BY <1>1, <1>2, <1>3

(* FuseOpendir: one more handle.                                           *)
LEMMA OpendirStep ==
    ASSUME Fine(dk), NEW i \in Dirs, FuseOpendir(i)
    PROVE  /\ Fine(dk') /\ dk.dh[i] < MaxHandles
           /\ dk'.dh = [dk.dh EXCEPT ![i] = @ + 1] /\ dk'.fh = dk.fh /\ panicked' = panicked
           /\ Calm(Tree(dk), Tree(dk'))
<1> DEFINE t == opendir(dk, i)
<1>1. i \in Ino /\ Pinned(dk, i, {}) /\ Inode(dk, i).kind = "dir"
  BY DirHeld
<1>2. /\ Fine(t) /\ Calm(Tree(dk), Tree(t)) /\ Safe(Tree(dk), Tree(t), Positions)
      /\ t.fh = dk.fh /\ t.dh = [dk.dh EXCEPT ![i] = @ + 1] /\ t.dh[i] > 0
      /\ t.dirs[i] # Nil
  BY <1>1, OpendirOK
<1>3. dk.dh[i] < MaxHandles /\ dk' = t /\ panicked' = panicked
  BY DEF FuseOpendir, Run
<1> HIDE DEF t
<1> QED BY <1>2, <1>3

(* FuseReleasedir: one handle less, and what is unreachable is reclaimed.  *)
LEMMA ReleasedirStep ==
    ASSUME Fine(dk), NEW i \in Used, FuseReleasedir(i)
    PROVE  /\ Fine(dk') /\ dk.dh[i] > 0
           /\ dk'.dh = [dk.dh EXCEPT ![i] = @ - 1] /\ dk'.fh = dk.fh /\ panicked' = panicked
           /\ Calm(Tree(dk), Tree(dk')) /\ Reclaimed(dk')
<1> DEFINE t == DropDirHandle(dk, i)
           u == apply_releases(t)
<1>1. i \in Ino /\ dk.dh[i] > 0 /\ dk' = u /\ panicked' = panicked
  BY DEF Used, FuseReleasedir, Run
<1>2. Fine(t) /\ Tree(t) = Tree(dk) /\ Still(dk, t) /\ t.dh = [dk.dh EXCEPT ![i] = @ - 1] /\ t.fh = dk.fh
  BY <1>1, DirHandles
<1> HIDE DEF t
<1>3. Fine(u) /\ Calm(Tree(t), Tree(u)) /\ u.fh = t.fh /\ u.dh = t.dh /\ Reclaimed(u)
  BY <1>2, ReleaseFine
<1> HIDE DEF u
<1> QED BY <1>1, <1>2, <1>3

(* FuseFsyncdir: only this handler may panic.                              *)
LEMMA FsyncdirStep ==
    ASSUME Fine(dk), NEW i \in Used, NEW datasync \in BOOLEAN, FuseFsyncdir(i, datasync)
    PROVE  /\ Fine(dk') /\ dk'.fh = dk.fh /\ dk'.dh = dk.dh /\ panicked' \in BOOLEAN
           /\ Tree(dk') = Tree(dk)
<1> DEFINE t == fsyncdir(dk, i)
           u == FlushDir(dk, i)
<1>1. i \in Ino /\ dk.dh[i] > 0
  BY DEF Used, FuseFsyncdir
<1>2. Fine(t) /\ Tree(t) = Tree(dk) /\ t.fh = dk.fh /\ t.dh = dk.dh
  BY <1>1, FsyncdirHandler
<1>3. dk.dirs[i] # Nil
  BY <1>1, Handled
<1>4. Fine(u) /\ Tree(u) = Tree(dk) /\ u.fh = dk.fh /\ u.dh = dk.dh /\ u.dirs[i] # Nil
  BY <1>1, <1>3, FlushDirGood
<1>5. dk' = (IF datasync THEN t ELSE u) /\ panicked' = ~datasync
  BY DEF FuseFsyncdir
<1> HIDE DEF t, u
<1> QED BY <1>2, <1>4, <1>5

(* Remount.                                                                *)
LEMMA RemountStep ==
    ASSUME Fine(dk), Remount
    PROVE  Fine(dk') /\ Quiet /\ Calm(Tree(dk), Tree(dk'))
<1> DEFINE t == Unmount(dk)
<1>1. (\A i \in Ino : dk.fh[i] = 0 /\ dk.dh[i] = 0) /\ dk' = t /\ panicked' = panicked
  BY DEF Remount, Run
<1>2. Good(t, {}) /\ Calm(Tree(dk), Tree(t)) /\ t.fh = dk.fh /\ t.dh = dk.dh
  BY <1>1, UnmountOK DEF Fine
<1> HIDE DEF t
<1>3. Fine(t)
  BY <1>2, CalmFine
<1> QED BY <1>1, <1>2, <1>3 DEF Quiet

-----------------------------------------------------------------------------
(* What a step may do to the handles: one more, ...                        *)
Opens ==
    \E i \in Ino :
        \/ dk.fh[i] < MaxHandles /\ dk'.fh = [dk.fh EXCEPT ![i] = @ + 1] /\ dk'.dh = dk.dh
        \/ dk.dh[i] < MaxHandles /\ dk'.dh = [dk.dh EXCEPT ![i] = @ + 1] /\ dk'.fh = dk.fh

(* ... or one less, and nothing unreachable is kept, ...                   *)
Releases ==
    /\ \E i \in Ino :
         \/ dk.fh[i] > 0 /\ dk'.fh = [dk.fh EXCEPT ![i] = @ - 1] /\ dk'.dh = dk.dh
         \/ dk.dh[i] > 0 /\ dk'.dh = [dk.dh EXCEPT ![i] = @ - 1] /\ dk'.fh = dk.fh
    /\ Reclaimed(dk')

(* ... or nothing.                                                         *)
HandlesKept == dk'.fh = dk.fh /\ dk'.dh = dk.dh

(* The calls on names keep the invariant of states, and the handles.       *)
LEMMA NameStepFine ==
    ASSUME Fine(dk), NameStep
    PROVE  Fine(dk') /\ Quiet
<1>1. PICK p \in Dirs, n \in Names :
        \/ FuseLookup(p, n)
        \/ FuseMknod(p, n)
        \/ FuseMkdir(p, n)
        \/ FuseSymlink(p, n)
        \/ \E i \in Files \cap Linked : FuseLink(i, p, n)
        \/ FuseUnlink(p, n)
        \/ FuseRmdir(p, n)
        \/ \E q \in Dirs, m \in Names : FuseRename(p, n, q, m)
  BY DEF NameStep
<1>2. CASE FuseLookup(p, n)
  BY <1>2, LookupStep
<1>3. CASE FuseMknod(p, n)
  BY <1>3, MknodStep
<1>4. CASE FuseMkdir(p, n)
  BY <1>4, MkdirStep
<1>5. CASE FuseSymlink(p, n)
  BY <1>5, SymlinkStep
<1>6. ASSUME NEW i \in Files \cap Linked, FuseLink(i, p, n)
      PROVE  Fine(dk') /\ Quiet
  BY <1>6, LinkStep
<1>7. CASE FuseUnlink(p, n)
  BY <1>7, UnlinkStep
<1>8. CASE FuseRmdir(p, n)
  BY <1>8, RmdirStep
<1>9. ASSUME NEW q \in Dirs, NEW m \in Names, FuseRename(p, n, q, m)
      PROVE  Fine(dk') /\ Quiet
  BY <1>9, RenameStep
<1> QED BY <1>1, <1>2, <1>3, <1>4, <1>5, <1>6, <1>7, <1>8, <1>9

(* Every step keeps the invariant of states.                               *)
LEMMA StepFine ==
    ASSUME Fine(dk), panicked \in BOOLEAN, Next
    PROVE  Fine(dk') /\ panicked' \in BOOLEAN /\ (HandlesKept \/ Opens \/ Releases)
<1>1. ASSUME Fine(dk') /\ Quiet
      PROVE  Fine(dk') /\ panicked' \in BOOLEAN /\ (HandlesKept \/ Opens \/ Releases)
  BY <1>1 DEF Quiet, HandlesKept
<1>2. CASE NameStep
  BY <1>1, <1>2, NameStepFine
<1>3. CASE InodeStep
  <2>1. ASSUME NEW i \in Used, NEW given \in BOOLEAN, NEW suid \in BOOLEAN, FuseChmod(i, given, suid)
        PROVE  Fine(dk') /\ Quiet
    BY <2>1, ChmodStep
  <2>2. ASSUME NEW i \in Files, NEW given \in BOOLEAN, FuseTruncate(i, given)
        PROVE  Fine(dk') /\ Quiet
    BY <2>2, TruncateStep
  <2>3. ASSUME NEW i \in Files, FuseWrite(i)
        PROVE  Fine(dk') /\ Quiet
    BY <2>3, WriteStep
  <2>4. Files \subseteq Used /\ TRUE \in BOOLEAN /\ FALSE \in BOOLEAN
    BY DEF Files
  <2> QED BY <1>1, <1>3, <2>1, <2>2, <2>3, <2>4 DEF InodeStep
<1>4. CASE HandleStep
  <2>1. ASSUME NEW i \in Used, FuseGetattr(i)
        PROVE  Fine(dk') /\ Quiet
    BY <2>1, GetattrStep
  <2>2. ASSUME NEW i \in Files, FuseReadlink(i) \/ FuseRead(i) \/ FuseFlush(i)
        PROVE  Fine(dk') /\ Quiet
    BY <2>2, ReadlinkStep, ReadStep, FlushStep
  <2>3. ASSUME NEW i \in Files, NEW root \in BOOLEAN, FuseOpen(i, root)
        PROVE  Fine(dk') /\ panicked' = panicked /\ Opens
    <3>1. i \in Ino
      BY FileUsed
    <3>2. /\ Fine(dk') /\ dk.fh[i] < MaxHandles
          /\ dk'.fh = [dk.fh EXCEPT ![i] = @ + 1] /\ dk'.dh = dk.dh /\ panicked' = panicked
      BY <2>3, OpenStep
    <3> QED BY <3>1, <3>2 DEF Opens
  <2>4. ASSUME NEW i \in Files, FuseRelease(i)
        PROVE  Fine(dk') /\ panicked' = panicked /\ Releases
    <3>1. i \in Ino
      BY FileUsed
    <3>2. /\ Fine(dk') /\ dk.fh[i] > 0
          /\ dk'.fh = [dk.fh EXCEPT ![i] = @ - 1] /\ dk'.dh = dk.dh /\ panicked' = panicked
          /\ Reclaimed(dk')
      BY <2>4, ReleaseStep
    <3> QED BY <3>1, <3>2 DEF Releases
  <2>5. ASSUME NEW i \in Dirs, FuseOpendir(i)
        PROVE  Fine(dk') /\ panicked' = panicked /\ Opens
    <3>1. i \in Ino
      BY DirHeld
    <3>2. /\ Fine(dk') /\ dk.dh[i] < MaxHandles
          /\ dk'.dh = [dk.dh EXCEPT ![i] = @ + 1] /\ dk'.fh = dk.fh /\ panicked' = panicked
      BY <2>5, OpendirStep
    <3> QED BY <3>1, <3>2 DEF Opens
  <2>6. ASSUME NEW i \in Used, FuseReleasedir(i)
        PROVE  Fine(dk') /\ panicked' = panicked /\ Releases
    <3>1. i \in Ino
      BY DEF Used
    <3>2. /\ Fine(dk') /\ dk.dh[i] > 0
          /\ dk'.dh = [dk.dh EXCEPT ![i] = @ - 1] /\ dk'.fh = dk.fh /\ panicked' = panicked
          /\ Reclaimed(dk')
      BY <2>6, ReleasedirStep
    <3> QED BY <3>1, <3>2 DEF Releases
  <2>7. ASSUME NEW i \in Used, NEW datasync \in DataSyncs, FuseFsyncdir(i, datasync)
        PROVE  Fine(dk') /\ panicked' \in BOOLEAN /\ HandlesKept
    BY <2>7, FsyncdirStep, DataSyncsAssumption DEF HandlesKept
  <2>8. ASSUME Remount
        PROVE  Fine(dk') /\ Quiet
    BY <2>8, RemountStep
  <2> QED BY <1>1, <1>4, <2>1, <2>2, <2>3, <2>4, <2>5, <2>6, <2>7, <2>8 DEF HandleStep
<1> QED BY <1>2, <1>3, <1>4 DEF Next

-----------------------------------------------------------------------------
(* The bound on handles.                                                   *)
Bounded == \A i \in Ino : dk.fh[i] <= MaxHandles /\ dk.dh[i] <= MaxHandles

(* The inductive invariant.                                                *)
Inv == Fine(dk) /\ Bounded /\ panicked \in BOOLEAN

(* The type of the handles.                                                *)
LEMMA HandlesNat ==
    ASSUME Fine(dk)
    PROVE  dk.fh \in [Ino -> Nat] /\ dk.dh \in [Ino -> Nat]
BY DEF Fine, Good, Coherent, State

(* The invariant holds initially: after format.                            *)
LEMMA InitInv == Init => Inv
<1> SUFFICES ASSUME Init PROVE Inv
  OBVIOUS
<1>1. dk = Format /\ panicked = FALSE
  BY DEF Init
<1>2. Fine(dk) /\ dk.fh = [i \in Ino |-> 0] /\ dk.dh = [i \in Ino |-> 0]
  BY <1>1, FormatOK
<1>3. Bounded
  BY <1>2, MaxHandlesAssumption DEF Bounded
<1> QED BY <1>1, <1>2, <1>3 DEF Inv

(* Every step keeps the invariant.                                         *)
LEMMA NextInv == Inv /\ [Next]_vars => Inv'
<1> SUFFICES ASSUME Inv, [Next]_vars PROVE Inv'
  OBVIOUS
<1>1. CASE Next
  <2>1. Fine(dk') /\ panicked' \in BOOLEAN /\ (HandlesKept \/ Opens \/ Releases)
    BY <1>1, StepFine DEF Inv
  <2>2. dk.fh \in [Ino -> Nat] /\ dk.dh \in [Ino -> Nat] /\ Bounded
    BY HandlesNat DEF Inv
  <2>3. CASE HandlesKept
    BY <2>1, <2>2, <2>3 DEF HandlesKept, Inv, Bounded
  <2>4. CASE Opens
    <3>1. Bounded'
      BY <2>2, <2>4, MaxHandlesAssumption DEF Opens, Bounded
    <3> QED BY <2>1, <3>1 DEF Inv
  <2>5. CASE Releases
    <3>1. Bounded'
      BY <2>2, <2>5, MaxHandlesAssumption DEF Releases, Bounded
    <3> QED BY <2>1, <3>1 DEF Inv
  <2> QED BY <2>1, <2>3, <2>4, <2>5
<1>2. CASE UNCHANGED vars
  BY <1>2 DEF vars, Inv, Bounded
<1> QED BY <1>1, <1>2

(* The invariant always holds.                                             *)
THEOREM InvAlways == Spec => []Inv
BY InitInv, NextInv, PTL DEF Spec

(* The invariant implies the type invariant: the free blocks are not more  *)
(* than there are.                                                         *)
LEMMA InvTypeOK == Inv => TypeOK
<1> SUFFICES ASSUME Inv PROVE TypeOK
  OBVIOUS
<1>1. dk \in State /\ Accounted(dk) /\ Bounded /\ panicked \in BOOLEAN
  BY DEF Inv, Fine, Good, Coherent
<1>2. dk.bfree \in 0 .. Blocks
  <2>1. IsFiniteSet(Full(dk))
    BY InoAssumption, FS_Subset DEF Full
  <2>2. Cardinality(Full(dk)) \in Nat
    BY <2>1, FS_CardinalityType
  <2>3. dk.bfree \in Nat /\ dk.bfree + Cardinality(Full(dk)) = Blocks
    BY <1>1 DEF State, Accounted
  <2> QED BY <2>2, <2>3, BlocksAssumption
<1>3. \A i \in Ino :
        /\ dk.inode[i] \in DiskInode
        /\ dk.data[i] \in Entries
        /\ dk.files[i] = Nil \/ dk.files[i] \in DkFile
        /\ dk.dirs[i] = Nil \/ dk.dirs[i] \in DkDir
        /\ dk.fh[i] \in Nat /\ dk.dh[i] \in Nat
  BY <1>1, StateFields
<1>4. \A i \in Ino : dk.fh[i] \in 0 .. MaxHandles /\ dk.dh[i] \in 0 .. MaxHandles
  BY <1>1, <1>3, MaxHandlesAssumption DEF Bounded
<1>5. dk.ifree \subseteq Ino /\ dk.closeF \subseteq Ino /\ dk.closeD \in Seq(Ino)
  BY <1>1 DEF State
<1> QED BY <1>1, <1>2, <1>3, <1>4, <1>5 DEF TypeOK

(* It implies that nothing is stranded: this is Kept.                      *)
LEMMA InvStranded == Inv => NothingStranded
BY DEF Inv, Fine, Good, Kept, NothingStranded

(* It implies that no inode leaks: what is not cached has a link.          *)
LEMMA InvNoLeak == Inv => NoLeak
<1> SUFFICES ASSUME Inv, NEW i \in Ino, i \notin dk.ifree, ~InUse(dk, i), dk.files[i] = Nil
             PROVE  FALSE
  BY DEF NoLeak, Allocated, Used
<1>1. dk \in State /\ Sound(dk, i, {})
  BY DEF Inv, Fine, Good, Coherent
<1>2. dk.inode[i].kind # "free" /\ dk.inode[i].nlink > 0
  BY <1>1 DEF Sound
<1>3. dk.inode[i].nlink \in Nat /\ dk.fh[i] \in Nat /\ dk.dh[i] \in Nat
  BY <1>1, StateFields
<1> QED BY <1>2, <1>3 DEF InUse, Inode

(* It implies that blocks are accounted for.                               *)
LEMMA InvAccounted == Inv => BlocksAccounted
<1> SUFFICES ASSUME Inv PROVE BlocksAccounted
  OBVIOUS
<1>1. (\A i \in Ino : Sound(dk, i, {})) /\ Accounted(dk)
  BY DEF Inv, Fine, Good, Coherent
<1>2. ASSUME NEW i \in Ino, i \in dk.ifree
      PROVE  Inode(dk, i).size # 1
  BY <1>1, <1>2 DEF Sound, Inode, FreeSlot
<1>3. {i \in Allocated : Inode(dk, i).size = 1} = Full(dk)
  BY <1>2 DEF Allocated, Full
<1> QED BY <1>1, <1>3 DEF BlocksAccounted, Accounted

(* No link count wraps below zero, no block is freed twice and no slot on  *)
(* the free list is opened as an inode (TypeOK), in every behaviour of a   *)
(* mount of any size.                                                      *)
THEOREM TypeCorrect == Spec => []TypeOK
BY InvAlways, InvTypeOK, PTL

(* Whatever is cached has a handle or is on its close list, which is what  *)
(* Drop for the handles in file.rs is for: no dirty inode or directory is  *)
(* left unwritten.                                                         *)
THEOREM NothingStrandedAlways == Spec => []NothingStranded
BY InvAlways, InvStranded, PTL

(* An inode that nobody can reach is still cached, so that closing it will *)
(* free its inode and its block (close_file in lib.rs).                    *)
THEOREM NoLeakAlways == Spec => []NoLeak
BY InvAlways, InvNoLeak, PTL

(* Every block is free or holds the content of an allocated inode, also    *)
(* when writes fail for lack of a block: none is lost and none is used     *)
(* twice.                                                                  *)
THEOREM BlocksAccountedAlways == Spec => []BlocksAccounted
BY InvAlways, InvAccounted, PTL

(* Only release and releasedir leave fewer handles, and they reclaim.      *)
LEMMA StepReclaims ==
    ASSUME Inv, [Next]_vars, NEW i \in Ino, dk'.fh[i] < dk.fh[i] \/ dk'.dh[i] < dk.dh[i]
    PROVE  Reclaimed(dk')
<1>1. dk.fh \in [Ino -> Nat] /\ dk.dh \in [Ino -> Nat]
  BY HandlesNat DEF Inv
<1>2. CASE Next
  <2>1. HandlesKept \/ Opens \/ Releases
    BY <1>2, StepFine DEF Inv
  <2>2. ~HandlesKept
    BY <1>1 DEF HandlesKept
  <2>3. ASSUME Opens PROVE FALSE
    <3>1. PICK k \in Ino :
            \/ dk'.fh = [dk.fh EXCEPT ![k] = @ + 1] /\ dk'.dh = dk.dh
            \/ dk'.dh = [dk.dh EXCEPT ![k] = @ + 1] /\ dk'.fh = dk.fh
      BY <2>3 DEF Opens
    <3>2. dk.fh[i] \in Nat /\ dk.dh[i] \in Nat /\ dk.fh[k] \in Nat /\ dk.dh[k] \in Nat
      BY <1>1
    <3>3. dk'.fh[i] \in {dk.fh[i], dk.fh[i] + 1} /\ dk'.dh[i] \in {dk.dh[i], dk.dh[i] + 1}
      BY <1>1, <3>1
    <3> QED BY <3>2, <3>3
  <2> QED BY <2>1, <2>2, <2>3 DEF Releases
<1>3. CASE UNCHANGED vars
  BY <1>1, <1>3 DEF vars
<1> QED BY <1>2, <1>3

(* After release and releasedir, every inode is free or reachable:         *)
(* unlinked files and directories are given back when their last handle    *)
(* goes.                                                                   *)
THEOREM ReleaseReclaimsAlways == Spec => ReleaseReclaims
<1>1. Inv /\ [Next]_vars =>
        [(\E i \in Ino : dk'.fh[i] < dk.fh[i] \/ dk'.dh[i] < dk.dh[i]) =>
           \A j \in Ino : j \in dk'.ifree \/ InUse(dk', j)]_vars
  BY StepReclaims DEF Reclaimed
<1> QED BY <1>1, InvAlways, PTL DEF Spec, ReleaseReclaims
=============================================================================
