-------------------------- MODULE FileSystemProofs ---------------------------
(***************************************************************************)
(* Exact link counts, and the proof that the mounted file system of module *)
(* DonkeyFuse implements module FileSystem, for any number of inodes,      *)
(* names and handles, if the disk has a block for every inode              *)
(* (EnoughBlocks): without one, a directory whose content cannot be        *)
(* written loses its entries, and the links they stood for stay counted.   *)
(*                                                                         *)
(* The invariant of DonkeyFuseProofs bounds the entries by the link        *)
(* counts. Here both are equal (Exact), which needs the shape of the tree  *)
(* as well: what rmdir removes is what made the counts (Shaped). The       *)
(* refinement mapping shows the tree without the nodes that have neither   *)
(* link nor handle; each call does to what is shown what FileSystem says,  *)
(* and working off a close list shows nothing.                             *)
(***************************************************************************)
EXTENDS DonkeyFuseProofs

(* The link count of every node is the number of entries that lead to it.  *)
Exact(f) == \A i \in Ino : Cardinality(Refs(f, i)) = IF f[i] = Nil THEN 0 ELSE f[i].nlink

(* Exactness depends on entries, link counts and allocation only.          *)
LEMMA SameRefsExact ==
    ASSUME NEW f, NEW g, Exact(f), \A k \in Ino : Refs(g, k) = Refs(f, k),
           \A k \in Ino : /\ g[k] = Nil <=> f[k] = Nil
                          /\ g[k] # Nil => g[k].nlink = f[k].nlink
    PROVE  Exact(g)
BY DEF Exact

(* A name that did not exist, and one link more.                           *)
LEMMA WithNameExact ==
    ASSUME NEW f, Counted(f), Exact(f), NEW p \in Ino, f[p] # Nil, NEW n \in Name, f[p].ents[n] = Nil,
           NEW i \in Ino, f[i] # Nil,
           NEW g, g = WithName(f, p, n, i)
    PROVE  Exact(g)
<1>1. f \in Trees
  BY DEF Counted
<1>2. \A d \in Ino : f[d] # Nil => f[d] \in Nodes /\ f[d].nlink \in Nat
  BY <1>1 DEF Trees, Nodes
<1>3. f[i].nlink + 1 \in Nat /\ g = AddLinks(SetName(f, p, n, i), i, 1)
  BY <1>2 DEF WithName
<1>4. \A d \in Ino :
        /\ g[d] = Nil <=> f[d] = Nil
        /\ g[d] # Nil =>
             /\ g[d].nlink = f[d].nlink + (IF d = i THEN 1 ELSE 0)
             /\ \A m \in Name : g[d].ents[m] = IF d = p /\ m = n THEN i ELSE f[d].ents[m]
  BY <1>1, <1>3, NameEdit
<1> DEFINE x == <<p, n>>
<1>5. x \in Positions /\ \A y \in Positions : y[1] \in Ino /\ y[2] \in Name /\ (y = x <=> y[1] = p /\ y[2] = n)
  BY DEF Positions
<1>6. \A k \in Ino : x \notin Refs(f, k)
  BY <1>5, NilAssumption DEF Refs
<1>7. \A k \in Ino : Refs(g, k) = IF k = i THEN Refs(f, k) \union {x} ELSE Refs(f, k)
  <2> SUFFICES ASSUME NEW k \in Ino, NEW y \in Positions
               PROVE  (g[y[1]] # Nil /\ g[y[1]].ents[y[2]] = k) <=>
                      (f[y[1]] # Nil /\ f[y[1]].ents[y[2]] = k) \/ (k = i /\ y = x)
    BY <1>5 DEF Refs
  <2> HIDE DEF x
  <2>1. CASE y = x
    BY <2>1, <1>4, <1>5, NilAssumption
  <2>2. CASE y # x
    BY <2>2, <1>4, <1>5
  <2> QED BY <2>1, <2>2
<1> HIDE DEF x
<1>8. \A k \in Ino : /\ Cardinality(Refs(f, k)) \in Nat
                     /\ Cardinality(Refs(g, k)) = Cardinality(Refs(f, k)) + (IF k = i THEN 1 ELSE 0)
  BY <1>6, <1>7, RefsFinite, FS_AddElement
<1> SUFFICES ASSUME NEW k \in Ino
             PROVE  Cardinality(Refs(g, k)) = IF g[k] = Nil THEN 0 ELSE g[k].nlink
  BY DEF Exact
<1>9. Cardinality(Refs(f, k)) = IF f[k] = Nil THEN 0 ELSE f[k].nlink
  BY DEF Exact
<1> QED BY <1>9, <1>2, <1>4, <1>8

(* An entry and its link go together, also where there is no entry.        *)
LEMMA DropExact ==
    ASSUME NEW f, Counted(f), Exact(f), NEW p \in Ino, f[p] # Nil, NEW n \in Name,
           NEW g, g = Drop(f, p, n)
    PROVE  Exact(g)
<1> DEFINE x == <<p, n>>
           i == f[p].ents[n]
<1>1. CASE i = Nil
  BY <1>1 DEF Drop
<1>2. CASE i # Nil
  <2>1. f \in Trees
    BY DEF Counted
  <2>2. \A d \in Ino : f[d] # Nil => f[d] \in Nodes /\ f[d].nlink \in Nat
    BY <2>1 DEF Trees, Nodes
  <2>3. i \in Ino /\ f[i] # Nil /\ f[i].nlink > 0 /\ g = WithoutName(f, p, n)
    BY <1>2, EntryHeld DEF Drop
  <2> HIDE DEF i
  <2>4. f[i].nlink + (-1) \in Nat /\ -1 \in Int /\ g = AddLinks(SetName(f, p, n, Nil), i, -1)
    BY <2>2, <2>3 DEF WithoutName, i
  <2>5. \A d \in Ino :
          /\ g[d] = Nil <=> f[d] = Nil
          /\ g[d] # Nil =>
               /\ g[d].nlink = f[d].nlink + (IF d = i THEN -1 ELSE 0)
               /\ \A m \in Name : g[d].ents[m] = IF d = p /\ m = n THEN Nil ELSE f[d].ents[m]
    BY <2>1, <2>3, <2>4, NameEdit
  <2>6. x \in Positions /\ \A y \in Positions : y[1] \in Ino /\ y[2] \in Name /\ (y = x <=> y[1] = p /\ y[2] = n)
    BY DEF Positions
  <2>7. x \in Refs(f, i)
    BY <2>6 DEF Refs, i
  <2>8. \A k \in Ino : Refs(g, k) = IF k = i THEN Refs(f, k) \ {x} ELSE Refs(f, k)
    <3> SUFFICES ASSUME NEW k \in Ino, NEW y \in Positions
                 PROVE  (g[y[1]] # Nil /\ g[y[1]].ents[y[2]] = k) <=>
                        f[y[1]] # Nil /\ f[y[1]].ents[y[2]] = k /\ ~(k = i /\ y = x)
      BY <2>6 DEF Refs
    <3> HIDE DEF x
    <3>1. CASE y = x
      BY <3>1, <2>5, <2>6, NilAssumption DEF i
    <3>2. CASE y # x
      BY <3>2, <2>5, <2>6
    <3> QED BY <3>1, <3>2
  <2> HIDE DEF x
  <2>9. \A k \in Ino : /\ Cardinality(Refs(f, k)) \in Nat /\ Cardinality(Refs(g, k)) \in Nat
                       /\ Cardinality(Refs(g, k)) = Cardinality(Refs(f, k)) + (IF k = i THEN -1 ELSE 0)
    BY <2>7, <2>8, RefsFinite
  <2> SUFFICES ASSUME NEW k \in Ino
               PROVE  Cardinality(Refs(g, k)) = IF g[k] = Nil THEN 0 ELSE g[k].nlink
    BY DEF Exact
  <2>10. Cardinality(Refs(f, k)) = IF f[k] = Nil THEN 0 ELSE f[k].nlink
    BY DEF Exact
  <2> QED BY <2>10, <2>2, <2>3, <2>5, <2>9
<1> QED BY <1>1, <1>2

(* Attributes do not matter.                                               *)
LEMMA AlikeExact ==
    ASSUME NEW f, NEW g, Exact(f), Alike(f, g)
    PROVE  Exact(g)
<1>1. \A k \in Ino : Refs(g, k) = Refs(f, k)
  <2> SUFFICES ASSUME NEW k \in Ino, NEW y \in Positions
               PROVE  (g[y[1]] # Nil /\ g[y[1]].ents[y[2]] = k) <=>
                      (f[y[1]] # Nil /\ f[y[1]].ents[y[2]] = k)
    BY DEF Refs
  <2>1. y[1] \in Ino
    BY DEF Positions
  <2> QED BY <2>1 DEF Alike
<1> QED BY <1>1, SameRefsExact DEF Alike

-----------------------------------------------------------------------------
(* Where the name k of node d leads; nowhere in a node that does not       *)
(* exist.                                                                  *)
Leads(f, d, k) == IF f[d] = Nil THEN Nil ELSE f[d].ents[k]
(* A directory entry other than "." and ".." leads to d.                   *)
Named(f, d) == \E q \in Ino, m \in Names : Leads(f, q, m) = d

(* Files have no entries.                                                  *)
Plain(f, d)  == f[d].kind = "file" => \A k \in Name : Leads(f, d, k) = Nil
(* A directory that can be reached has "." and "..".                       *)
Dotted(f, d) ==
    f[d].kind = "dir" /\ (d = Root \/ Named(f, d)) => Leads(f, d, ".") # Nil /\ Leads(f, d, "..") # Nil
(* A node without a name has lost all its entries: Donkey::rmdir removes   *)
(* "." and "..".                                                           *)
Gone(f, d)   == d # Root /\ ~Named(f, d) => \A k \in Name : Leads(f, d, k) = Nil
(* A directory has at most one name.                                       *)
Single(f, d) ==
    f[d].kind = "dir" =>
        \A q1, q2 \in Ino, m1, m2 \in Names :
            Leads(f, q1, m1) = d /\ Leads(f, q2, m2) = d => q1 = q2 /\ m1 = m2
(* What exact link counts rest on besides themselves: rmdir removes three  *)
(* entries if Count says two are left.                                     *)
Shaped(f) == \A d \in Ino : f[d] # Nil => Plain(f, d) /\ Dotted(f, d) /\ Gone(f, d) /\ Single(f, d)

(* The strengthening of NlinkCountsEntries that every call keeps.          *)
Precise(f) == Exact(f) /\ Shaped(f)

(* The same nodes, of the same kinds.                                      *)
Kin(f, g) == \A d \in Ino : /\ g[d] = Nil <=> f[d] = Nil
                            /\ g[d] # Nil => g[d].kind = f[d].kind

(* What NamesAssumption says about names.                                  *)
LEMMA NamesOK == Names \subseteq Name /\ "." \in Name /\ ".." \in Name /\ "." \notin Names /\ ".." \notin Names
BY NamesAssumption DEF Name

(* The entries that lead to i, in terms of Leads.                          *)
LEMMA LeadsRefs ==
    ASSUME NEW f, NEW i \in Ino
    PROVE  Refs(f, i) = {x \in Positions : Leads(f, x[1], x[2]) = i}
BY NilAssumption DEF Refs, Leads

(* Trees with the same entries have the same shape, also if g has fewer    *)
(* nodes.                                                                  *)
LEMMA ShapeSame ==
    ASSUME NEW f, NEW g, Shaped(f),
           \A d \in Ino, k \in Name : Leads(g, d, k) = Leads(f, d, k),
           \A d \in Ino : g[d] # Nil => f[d] # Nil /\ g[d].kind = f[d].kind
    PROVE  Shaped(g)
<1>1. \A d \in Ino, k \in Names : Leads(g, d, k) = Leads(f, d, k)
  BY NamesOK
<1>2. \A d : Named(g, d) <=> Named(f, d)
  BY <1>1 DEF Named
<1> SUFFICES ASSUME NEW d \in Ino, g[d] # Nil
             PROVE  Plain(g, d) /\ Dotted(g, d) /\ Gone(g, d) /\ Single(g, d)
  BY DEF Shaped
<1>3. f[d] # Nil /\ g[d].kind = f[d].kind
  OBVIOUS
<1>4. Plain(f, d) /\ Dotted(f, d) /\ Gone(f, d) /\ Single(f, d)
  BY <1>3 DEF Shaped
<1>5. Plain(g, d)
  BY <1>3, <1>4 DEF Plain
<1>6. Dotted(g, d)
  BY <1>2, <1>3, <1>4, NamesOK DEF Dotted
<1>7. Gone(g, d)
  BY <1>2, <1>4 DEF Gone
<1>8. Single(g, d)
  BY <1>1, <1>3, <1>4 DEF Single
<1> QED BY <1>5, <1>6, <1>7, <1>8

(* Working off a close list keeps a tree precise: with a block for every   *)
(* directory, only nodes without links change, and no entry leads to       *)
(* those.                                                                  *)
LEMMA CalmPrecise ==
    ASSUME EnoughBlocks, NEW f, NEW g, Precise(f), Calm(f, g), g[Root] # Nil
    PROVE  /\ Precise(g)
           /\ \A d \in Ino, k \in Name : Leads(g, d, k) = Leads(f, d, k)
           /\ \A d \in Ino : Named(g, d) <=> Named(f, d)
<1>1. \A i \in Ino : g[i] = f[i] \/ (f[i] # Nil /\ f[i].nlink = 0 /\ g[i] = Nil)
  BY DEF Calm
<1>2. ASSUME NEW d \in Ino, f[d] # Nil, g[d] = Nil
      PROVE  (\A k \in Name : Leads(f, d, k) = Nil) /\ Refs(f, d) = {}
  <2>1. f[d].nlink = 0 /\ d # Root
    BY <1>1, <1>2
  <2>2. Cardinality(Refs(f, d)) = 0 /\ IsFiniteSet(Refs(f, d))
    BY <1>2, <2>1, RefsFinite DEF Precise, Exact
  <2>3. Refs(f, d) = {}
    BY <2>2, FS_EmptySet
  <2>4. ~Named(f, d)
    <3> SUFFICES ASSUME NEW q \in Ino, NEW m \in Names, Leads(f, q, m) = d
                 PROVE  FALSE
      BY DEF Named
    <3>1. <<q, m>> \in Positions
      BY NamesOK DEF Positions
    <3> QED BY <2>3, <3>1, LeadsRefs
  <2> QED BY <1>2, <2>1, <2>3, <2>4 DEF Precise, Shaped, Gone
<1>3. ASSUME NEW d \in Ino, NEW k \in Name
      PROVE  Leads(g, d, k) = Leads(f, d, k)
  <2>1. CASE g[d] = f[d]
    BY <2>1 DEF Leads
  <2>2. CASE f[d] # Nil /\ g[d] = Nil
    BY <2>2, <1>2 DEF Leads
  <2> QED BY <2>1, <2>2, <1>1
<1>4. Shaped(g)
  <2>1. \A d \in Ino : g[d] # Nil => f[d] # Nil /\ g[d].kind = f[d].kind
    BY <1>1
  <2> QED BY <2>1, <1>3, ShapeSame DEF Precise
<1>5. ASSUME NEW i \in Ino
      PROVE  Cardinality(Refs(g, i)) = IF g[i] = Nil THEN 0 ELSE g[i].nlink
  <2>1. Refs(g, i) = Refs(f, i)
    <3>1. \A x \in Positions : Leads(g, x[1], x[2]) = Leads(f, x[1], x[2])
      BY <1>3 DEF Positions
    <3> QED BY <3>1, LeadsRefs
  <2>2. Cardinality(Refs(f, i)) = IF f[i] = Nil THEN 0 ELSE f[i].nlink
    BY DEF Precise, Exact
  <2> QED BY <2>1, <2>2, <1>1
<1>6. \A d \in Ino : Named(g, d) <=> Named(f, d)
  <2>1. \A q \in Ino, m \in Names : Leads(g, q, m) = Leads(f, q, m)
    BY <1>3, NamesOK
  <2> QED BY <2>1 DEF Named
<1>7. Precise(g)
  BY <1>4, <1>5 DEF Precise, Exact
<1> QED BY <1>3, <1>6, <1>7

(* Attributes do not matter.                                               *)
LEMMA AlikePrecise ==
    ASSUME NEW f, NEW g, Precise(f), Alike(f, g)
    PROVE  Precise(g)
<1>1. \A d \in Ino, k \in Name : Leads(g, d, k) = Leads(f, d, k)
  BY DEF Leads, Alike
<1>2. \A d \in Ino : g[d] # Nil => f[d] # Nil /\ g[d].kind = f[d].kind
  BY DEF Alike
<1> QED BY <1>1, <1>2, AlikeExact, ShapeSame DEF Precise

-----------------------------------------------------------------------------
(* The shape after the name of a file goes.                                *)
LEMMA ShapeDropFile ==
    ASSUME NEW f, NEW g, Shaped(f), Kin(f, g), NEW p \in Ino, NEW n \in Names,
           NEW i \in Ino, Leads(f, p, n) = i, f[i] # Nil, f[i].kind = "file",
           \A d \in Ino, k \in Name : Leads(g, d, k) = IF d = p /\ k = n THEN Nil ELSE Leads(f, d, k)
    PROVE  Shaped(g)
<1> SUFFICES ASSUME NEW d \in Ino, g[d] # Nil
             PROVE  Plain(g, d) /\ Dotted(g, d) /\ Gone(g, d) /\ Single(g, d)
  BY DEF Shaped
<1>1. f[d] # Nil /\ g[d].kind = f[d].kind /\ Nil \notin Ino
  BY NilAssumption DEF Kin
<1>2. Plain(f, d) /\ Dotted(f, d) /\ Gone(f, d) /\ Single(f, d)
  BY <1>1 DEF Shaped
<1>3. \A q \in Ino, m \in Names : Leads(g, q, m) = IF q = p /\ m = n THEN Nil ELSE Leads(f, q, m)
  BY NamesOK
<1>4. Named(g, d) => Named(f, d)
  BY <1>1, <1>3 DEF Named
<1>5. Named(f, d) /\ d # i => Named(g, d)
  BY <1>3 DEF Named
<1>6. Plain(g, d)
  BY <1>1, <1>2 DEF Plain
<1>7. Dotted(g, d)
  BY <1>1, <1>2, <1>4, NamesOK DEF Dotted
<1>8. Gone(g, d)
  <2>1. CASE d = i
    BY <2>1, <1>6, <1>1 DEF Plain, Gone
  <2>2. CASE d # i
    BY <2>2, <1>2, <1>5 DEF Gone
  <2> QED BY <2>1, <2>2
<1>9. Single(g, d)
  BY <1>1, <1>2, <1>3 DEF Single
<1> QED BY <1>6, <1>7, <1>8, <1>9

(* The shape after an empty directory goes, with its own entries.          *)
LEMMA ShapeDropDir ==
    ASSUME NEW f, NEW g, Shaped(f), Kin(f, g), NEW p \in Ino, NEW n \in Names,
           NEW j \in Ino, j # Root, Leads(f, p, n) = j, f[j] # Nil, f[j].kind = "dir",
           \A m \in Names : Leads(f, j, m) = Nil,
           \A d \in Ino, k \in Name :
               Leads(g, d, k) = IF d = j \/ (d = p /\ k = n) THEN Nil ELSE Leads(f, d, k)
    PROVE  Shaped(g)
<1> SUFFICES ASSUME NEW d \in Ino, g[d] # Nil
             PROVE  Plain(g, d) /\ Dotted(g, d) /\ Gone(g, d) /\ Single(g, d)
  BY DEF Shaped
<1>1. f[d] # Nil /\ g[d].kind = f[d].kind /\ Nil \notin Ino
  BY NilAssumption DEF Kin
<1>2. Plain(f, d) /\ Dotted(f, d) /\ Gone(f, d) /\ Single(f, d) /\ Single(f, j)
  BY <1>1 DEF Shaped
<1>3. \A q \in Ino, m \in Names :
        Leads(g, q, m) = IF q = p /\ m = n THEN Nil ELSE Leads(f, q, m)
  BY NamesOK
<1>4. Named(g, d) => Named(f, d) /\ d # j
  <2> SUFFICES ASSUME NEW q \in Ino, NEW m \in Names, Leads(g, q, m) = d
               PROVE  Named(f, d) /\ d # j
    BY DEF Named
  <2>1. ~(q = p /\ m = n) /\ Leads(f, q, m) = d
    BY <1>1, <1>3
  <2>2. Named(f, d)
    BY <2>1 DEF Named
  <2> QED BY <2>1, <2>2, <1>2 DEF Single
<1>5. Named(f, d) /\ d # j => Named(g, d)
  BY <1>3 DEF Named
<1>6. Plain(g, d)
  BY <1>1, <1>2 DEF Plain
<1>7. Dotted(g, d)
  BY <1>1, <1>2, <1>4, NamesOK DEF Dotted
<1>8. Gone(g, d)
  BY <1>2, <1>5 DEF Gone
<1>9. Single(g, d)
  BY <1>1, <1>2, <1>3 DEF Single
<1> QED BY <1>6, <1>7, <1>8, <1>9

(* The shape after a file gets a name, old or new.                         *)
LEMMA ShapeAddFile ==
    ASSUME NEW f, NEW g, Shaped(f), NEW p \in Ino, NEW n \in Names, NEW i \in Ino, i # p,
           p = Root \/ Named(f, p), Leads(f, p, n) = Nil,
           \A d \in Ino \ {i} : /\ g[d] = Nil <=> f[d] = Nil
                                /\ g[d] # Nil => g[d].kind = f[d].kind,
           g[i].kind = "file", \A k \in Name : Leads(f, i, k) = Nil,
           g[p].kind = "dir",
           \A d \in Ino, k \in Name : Leads(g, d, k) = IF d = p /\ k = n THEN i ELSE Leads(f, d, k)
    PROVE  Shaped(g)
<1> SUFFICES ASSUME NEW d \in Ino, g[d] # Nil
             PROVE  Plain(g, d) /\ Dotted(g, d) /\ Gone(g, d) /\ Single(g, d)
  BY DEF Shaped
<1>1. \A q \in Ino, m \in Names : Leads(g, q, m) = IF q = p /\ m = n THEN i ELSE Leads(f, q, m)
  BY NamesOK
<1>2. Named(f, d) => Named(g, d)
  BY <1>1, NilAssumption DEF Named
<1>3. Named(g, d) /\ d # i => Named(f, d)
  BY <1>1 DEF Named
<1>4. CASE d = i
  <2>1. Plain(g, d)
    BY <1>4 DEF Plain
  <2>2. Named(g, d)
    BY <1>1, <1>4 DEF Named
  <2>3. g[d].kind # "dir"
    BY <1>4
  <2> QED BY <2>1, <2>2, <2>3 DEF Dotted, Gone, Single
<1>5. CASE d # i
  <2>1. f[d] # Nil /\ g[d].kind = f[d].kind
    BY <1>5
  <2>2. Plain(f, d) /\ Dotted(f, d) /\ Gone(f, d) /\ Single(f, d)
    BY <2>1 DEF Shaped
  <2>3. Plain(g, d)
    BY <2>1, <2>2 DEF Plain
  <2>4. Dotted(g, d)
    BY <1>3, <1>5, <2>1, <2>2, NamesOK DEF Dotted
  <2>5. Gone(g, d)
    <3>1. CASE d = p
      BY <3>1, <1>2 DEF Gone
    <3>2. CASE d # p
      BY <3>2, <1>2, <2>2 DEF Gone
    <3> QED BY <3>1, <3>2
  <2>6. Single(g, d)
    BY <1>1, <1>5, <2>1, <2>2 DEF Single
  <2> QED BY <2>3, <2>4, <2>5, <2>6
<1> QED BY <1>4, <1>5

(* The shape after a new directory gets its name and its own entries.      *)
LEMMA ShapeAddDir ==
    ASSUME NEW f, NEW g, Shaped(f), NEW p \in Ino, NEW n \in Names, NEW i \in Ino, i # p,
           p = Root \/ Named(f, p), Leads(f, p, n) = Nil,
           ~Named(f, i), f[i] = Nil, g[i].kind = "dir",
           \A d \in Ino \ {i} : /\ g[d] = Nil <=> f[d] = Nil
                                /\ g[d] # Nil => g[d].kind = f[d].kind,
           g[p].kind = "dir",
           \A k \in Name : Leads(g, i, k) = IF k = "." THEN i ELSE IF k = ".." THEN p ELSE Nil,
           \A d \in Ino \ {i}, k \in Name : Leads(g, d, k) = IF d = p /\ k = n THEN i ELSE Leads(f, d, k)
    PROVE  Shaped(g)
<1> SUFFICES ASSUME NEW d \in Ino, g[d] # Nil
             PROVE  Plain(g, d) /\ Dotted(g, d) /\ Gone(g, d) /\ Single(g, d)
  BY DEF Shaped
<1>1. \A q \in Ino, m \in Names : Leads(g, q, m) = IF q = p /\ m = n THEN i ELSE Leads(f, q, m)
  <2> SUFFICES ASSUME NEW q \in Ino, NEW m \in Names
               PROVE  Leads(g, q, m) = IF q = p /\ m = n THEN i ELSE Leads(f, q, m)
    OBVIOUS
  <2>1. m \in Name /\ m # "." /\ m # ".."
    BY NamesOK
  <2>2. CASE q = i
    BY <2>1, <2>2 DEF Leads
  <2>3. CASE q # i
    BY <2>1, <2>3
  <2> QED BY <2>2, <2>3
<1>2. Named(f, d) => Named(g, d)
  BY <1>1, NilAssumption DEF Named
<1>3. Named(g, d) /\ d # i => Named(f, d)
  BY <1>1 DEF Named
<1>4. CASE d = i
  <2>1. Leads(g, d, ".") # Nil /\ Leads(g, d, "..") # Nil
    BY <1>4, NamesOK, NilAssumption
  <2>2. Named(g, d)
    BY <1>1, <1>4 DEF Named
  <2>3. Single(g, d)
    BY <1>1, <1>4 DEF Single, Named
  <2>4. g[d].kind # "file"
    BY <1>4
  <2> QED BY <2>1, <2>2, <2>3, <2>4 DEF Dotted, Gone, Plain
<1>5. CASE d # i
  <2>1. f[d] # Nil /\ g[d].kind = f[d].kind
    BY <1>5
  <2>2. Plain(f, d) /\ Dotted(f, d) /\ Gone(f, d) /\ Single(f, d)
    BY <2>1 DEF Shaped
  <2>3. Plain(g, d)
    BY <1>5, <2>1, <2>2 DEF Plain
  <2>4. Dotted(g, d)
    BY <1>3, <1>5, <2>1, <2>2, NamesOK DEF Dotted
  <2>5. Gone(g, d)
    <3>1. CASE d = p
      BY <3>1, <1>2 DEF Gone
    <3>2. CASE d # p
      BY <3>2, <1>2, <1>5, <2>2 DEF Gone
    <3> QED BY <3>1, <3>2
  <2>6. Single(g, d)
    BY <1>1, <1>5, <2>1, <2>2 DEF Single
  <2> QED BY <2>3, <2>4, <2>5, <2>6
<1> QED BY <1>4, <1>5

(* The shape after a node moves to a free name.                            *)
LEMMA ShapeMove ==
    ASSUME NEW f, NEW g, Shaped(f), Kin(f, g),
           NEW p \in Ino, NEW n \in Names, NEW q \in Ino, NEW m \in Names, NEW i \in Ino,
           Leads(f, p, n) = i, Leads(f, q, m) = Nil, f[q] # Nil, f[q].kind = "dir",
           q = Root \/ Named(f, q), i # q,
           \A d \in Ino, k \in Name :
               Leads(g, d, k) = IF d = p /\ k = n THEN Nil
                                ELSE IF d = q /\ k = m THEN i ELSE Leads(f, d, k)
    PROVE  Shaped(g)
<1> SUFFICES ASSUME NEW d \in Ino, g[d] # Nil
             PROVE  Plain(g, d) /\ Dotted(g, d) /\ Gone(g, d) /\ Single(g, d)
  BY DEF Shaped
<1>1. f[d] # Nil /\ g[d].kind = f[d].kind /\ Nil \notin Ino
  BY NilAssumption DEF Kin
<1>2. Plain(f, d) /\ Dotted(f, d) /\ Gone(f, d) /\ Single(f, d)
  BY <1>1 DEF Shaped
<1>3. \A a \in Ino, b \in Names :
        Leads(g, a, b) = IF a = p /\ b = n THEN Nil
                         ELSE IF a = q /\ b = m THEN i ELSE Leads(f, a, b)
  BY NamesOK
<1>4. ~(p = q /\ n = m)
  BY <1>1
<1>5. Named(f, i) /\ Named(g, i)
  BY <1>3, <1>4 DEF Named
<1>6. Named(g, d) <=> Named(f, d)
  <2>1. CASE d = i
    BY <2>1, <1>5
  <2>2. CASE d # i
    <3>1. Named(g, d) => Named(f, d)
      BY <2>2, <1>1, <1>3 DEF Named
    <3>2. Named(f, d) => Named(g, d)
      BY <2>2, <1>1, <1>3 DEF Named
    <3> QED BY <3>1, <3>2
  <2> QED BY <2>1, <2>2
<1>7. Plain(g, d)
  BY <1>1, <1>2 DEF Plain
<1>8. Dotted(g, d)
  BY <1>1, <1>2, <1>6, NamesOK DEF Dotted
<1>9. Gone(g, d)
  BY <1>2, <1>6 DEF Gone
<1>10. Single(g, d)
  <2>1. CASE d = i
    BY <2>1, <1>1, <1>2, <1>3 DEF Single
  <2>2. CASE d # i
    BY <2>2, <1>1, <1>2, <1>3 DEF Single
  <2> QED BY <2>1, <2>2
<1> QED BY <1>7, <1>8, <1>9, <1>10

-----------------------------------------------------------------------------
(* A new name changes where that name leads and nothing else.              *)
LEMMA LeadsWithName ==
    ASSUME NEW f \in Trees, NEW p \in Ino, f[p] # Nil, NEW n \in Name, NEW i \in Ino, f[i] # Nil,
           NEW g, g = WithName(f, p, n, i)
    PROVE  /\ g \in Trees /\ Kin(f, g)
           /\ \A d \in Ino, k \in Name : Leads(g, d, k) = IF d = p /\ k = n THEN i ELSE Leads(f, d, k)
<1>1. f[i].nlink + 1 \in Nat /\ 1 \in Int /\ g = AddLinks(SetName(f, p, n, i), i, 1)
  BY DEF WithName, Trees, Nodes
<1>2. /\ g \in Trees
      /\ \A d \in Ino :
           /\ g[d] = Nil <=> f[d] = Nil
           /\ g[d] # Nil =>
                /\ g[d].kind = f[d].kind
                /\ \A m \in Name : g[d].ents[m] = IF d = p /\ m = n THEN i ELSE f[d].ents[m]
  BY <1>1, NameEdit
<1> QED BY <1>2 DEF Kin, Leads

(* A dropped name leads nowhere; nothing else changes.                     *)
LEMMA LeadsDrop ==
    ASSUME NEW f, Counted(f), NEW p \in Ino, f[p] # Nil, NEW n \in Name,
           NEW g, g = Drop(f, p, n)
    PROVE  /\ Counted(g) /\ g \in Trees /\ Kin(f, g)
           /\ \A d \in Ino, k \in Name : Leads(g, d, k) = IF d = p /\ k = n THEN Nil ELSE Leads(f, d, k)
<1> DEFINE i == f[p].ents[n]
<1>0. Counted(g) /\ g \in Trees
  BY DropCounted
<1>1. CASE i = Nil
  <2>1. g = f
    BY <1>1 DEF Drop
  <2>2. Leads(f, p, n) = Nil
    BY <1>1 DEF Leads
  <2>3. Kin(f, g)
    BY <2>1 DEF Kin
  <2> QED BY <1>0, <2>1, <2>2, <2>3
<1>2. CASE i # Nil
  <2>1. f \in Trees
    BY DEF Counted
  <2>3. i \in Ino /\ f[i] # Nil /\ f[i].nlink \in Nat /\ f[i].nlink > 0 /\ g = WithoutName(f, p, n)
    BY <1>2, EntryHeld DEF Drop
  <2> HIDE DEF i
  <2>4. f[i].nlink + (-1) \in Nat /\ -1 \in Int /\ g = AddLinks(SetName(f, p, n, Nil), i, -1)
    BY <2>3 DEF WithoutName, i
  <2>5. \A d \in Ino :
          /\ g[d] = Nil <=> f[d] = Nil
          /\ g[d] # Nil =>
               /\ g[d].kind = f[d].kind
               /\ \A m \in Name : g[d].ents[m] = IF d = p /\ m = n THEN Nil ELSE f[d].ents[m]
    BY <2>1, <2>3, <2>4, NameEdit
  <2> QED BY <1>0, <2>5 DEF Kin, Leads
<1> QED BY <1>1, <1>2

(* link of a file.                                                         *)
LEMMA AddFilePrecise ==
    ASSUME NEW f, Counted(f), Precise(f), NEW p \in Ino, f[p] # Nil, f[p].kind = "dir",
           p = Root \/ Named(f, p), NEW n \in Names, f[p].ents[n] = Nil,
           NEW i \in Ino, f[i] # Nil, f[i].kind = "file",
           NEW g, g = WithName(f, p, n, i)
    PROVE  Precise(g)
<1>1. n \in Name /\ f \in Trees /\ i # p
  BY NamesOK DEF Counted
<1>2. /\ Kin(f, g)
      /\ \A d \in Ino, k \in Name : Leads(g, d, k) = IF d = p /\ k = n THEN i ELSE Leads(f, d, k)
  BY <1>1, LeadsWithName
<1>3. \A d \in Ino : /\ g[d] = Nil <=> f[d] = Nil
                     /\ g[d] # Nil => g[d].kind = f[d].kind
  BY <1>2 DEF Kin
<1>4. Exact(g)
  BY <1>1, WithNameExact DEF Precise
<1>5. \A k \in Name : Leads(f, i, k) = Nil
  BY DEF Precise, Shaped, Plain
<1>6. Leads(f, p, n) = Nil
  BY DEF Leads
<1>7. g[i].kind = "file" /\ g[p].kind = "dir" /\ Shaped(f)
  BY <1>3 DEF Precise
<1>8. Shaped(g)
  BY <1>1, <1>2, <1>3, <1>5, <1>6, <1>7, ShapeAddFile
<1> QED BY <1>4, <1>8 DEF Precise

(* A new node, still without a name.                                       *)
LEMMA GrownPrecise ==
    ASSUME NEW f, Counted(f), Precise(f), NEW i \in Ino, i # Root, f[i] = Nil,
           NEW kind \in {"file", "dir"}, NEW g, g = Grown(f, i, kind)
    PROVE  /\ Counted(g) /\ Precise(g) /\ g \in Trees /\ g[i] = NewNode(kind) /\ g[i] # Nil
           /\ \A d \in Ino \ {i} : g[d] = f[d]
           /\ \A d \in Ino, k \in Name : Leads(g, d, k) = Leads(f, d, k)
           /\ \A d \in Ino : Named(g, d) <=> Named(f, d)
           /\ ~Named(f, i)
<1>1. f \in Trees /\ NewNode(kind) \in Nodes /\ NewNode(kind).ents = NoEntries
      /\ NewNode(kind).nlink = 0 /\ NewNode(kind).kind = kind /\ NewNode(kind) # Nil
  BY NewNodeType, NodeAssumption DEF Counted
<1>2. g[i] = NewNode(kind) /\ \A d \in Ino \ {i} : g[d] = f[d]
  BY <1>1 DEF Grown, Trees
<1>3. Counted(g)
  BY <1>1, NewNodeCounted DEF Grown
<1>4. \A d \in Ino, k \in Name : Leads(g, d, k) = Leads(f, d, k)
  <2> SUFFICES ASSUME NEW d \in Ino, NEW k \in Name PROVE Leads(g, d, k) = Leads(f, d, k)
    OBVIOUS
  <2>1. CASE d = i
    BY <2>1, <1>1, <1>2 DEF Leads, NoEntries
  <2>2. CASE d # i
    BY <2>2, <1>2 DEF Leads
  <2> QED BY <2>1, <2>2
<1>5. Cardinality(Refs(f, i)) = 0 /\ IsFiniteSet(Refs(f, i)) /\ Nil \notin Ino
  BY RefsFinite, NilAssumption DEF Precise, Exact
<1>6. Refs(f, i) = {}
  BY <1>5, FS_EmptySet
<1>7. ~Named(f, i)
  <2> SUFFICES ASSUME NEW q \in Ino, NEW m \in Names, Leads(f, q, m) = i
               PROVE  FALSE
    BY DEF Named
  <2>1. <<q, m>> \in Positions
    BY NamesOK DEF Positions
  <2> QED BY <1>6, <2>1, LeadsRefs
<1>8. \A d \in Ino : Named(g, d) <=> Named(f, d)
  <2>1. \A q \in Ino, m \in Names : Leads(g, q, m) = Leads(f, q, m)
    BY <1>4, NamesOK
  <2> QED BY <2>1 DEF Named
<1>9. Exact(g)
  <2> SUFFICES ASSUME NEW k \in Ino
               PROVE  Cardinality(Refs(g, k)) = IF g[k] = Nil THEN 0 ELSE g[k].nlink
    BY DEF Exact
  <2>1. Refs(g, k) = Refs(f, k)
    <3>1. \A x \in Positions : Leads(g, x[1], x[2]) = Leads(f, x[1], x[2])
      BY <1>4 DEF Positions
    <3> QED BY <3>1, LeadsRefs
  <2>2. Cardinality(Refs(f, k)) = IF f[k] = Nil THEN 0 ELSE f[k].nlink
    BY DEF Precise, Exact
  <2>3. CASE k = i
    BY <2>1, <2>2, <2>3, <1>1, <1>2
  <2>4. CASE k # i
    BY <2>1, <2>2, <2>4, <1>2
  <2> QED BY <2>3, <2>4
<1>10. Shaped(g)
  <2> SUFFICES ASSUME NEW d \in Ino, g[d] # Nil
               PROVE  Plain(g, d) /\ Dotted(g, d) /\ Gone(g, d) /\ Single(g, d)
    BY DEF Shaped
  <2>1. CASE d = i
    <3>1. \A k \in Name : Leads(g, d, k) = Nil
      BY <2>1, <1>4 DEF Leads
    <3>2. ~Named(g, d) /\ d # Root
      BY <2>1, <1>7, <1>8
    <3>3. Single(g, d)
      BY <3>2 DEF Single, Named
    <3> QED BY <3>1, <3>2, <3>3 DEF Plain, Dotted, Gone
  <2>2. CASE d # i
    <3>1. g[d] = f[d] /\ Plain(f, d) /\ Dotted(f, d) /\ Gone(f, d) /\ Single(f, d)
      BY <2>2, <1>2 DEF Precise, Shaped
    <3>2. Plain(g, d)
      BY <3>1, <1>4 DEF Plain
    <3>3. Dotted(g, d)
      BY <3>1, <1>4, <1>8, NamesOK DEF Dotted
    <3>4. Gone(g, d)
      BY <3>1, <1>4, <1>8 DEF Gone
    <3>5. \A q \in Ino, m \in Names : Leads(g, q, m) = Leads(f, q, m)
      BY <1>4, NamesOK
    <3>6. Single(g, d)
      BY <3>1, <3>5 DEF Single
    <3> QED BY <3>2, <3>3, <3>4, <3>6
  <2> QED BY <2>1, <2>2
<1> QED BY <1>2, <1>1, <1>3, <1>4, <1>7, <1>8, <1>9, <1>10 DEF Precise, Counted

(* The inode that an allocation returns may still be cached, unlinked, and *)
(* is freed on the way: for what follows, it was free from the start.      *)
LEMMA Vacate ==
    ASSUME EnoughBlocks, NEW f, Sane(f), Precise(f), NEW i \in Ino, f[i] = Nil \/ f[i].nlink = 0,
           NEW g, g = [f EXCEPT ![i] = Nil]
    PROVE  /\ i # Root /\ g \in Trees /\ Counted(g) /\ Precise(g) /\ g[i] = Nil /\ Calm(f, g)
           /\ \A d \in Ino \ {i} : g[d] = f[d]
           /\ \A d \in Ino : Named(g, d) => d # i
           /\ \A d \in Ino : Named(g, d) <=> Named(f, d)
           /\ \A kind : Grown(f, i, kind) = Grown(g, i, kind)
<1>1. Counted(f) /\ Rooted(f) /\ f \in Trees
  BY DEF Sane, Counted
<1>2. f[Root] # Nil /\ Root \in Ino /\ i # Root
  <2>1. Root \in Ino /\ <<Root, ".">> = RootLink /\ Cardinality(Refs(f, Root) \ {RootLink}) \in Nat
    BY RefsFinite, InoAssumption DEF RootLink
  <2>2. f[Root] # Nil /\ Cardinality(Refs(f, Root) \ {RootLink}) < f[Root].nlink
    BY <1>1 DEF Rooted, Held
  <2> QED BY <2>1, <2>2
<1>3. g[i] = Nil /\ (\A d \in Ino \ {i} : g[d] = f[d]) /\ g \in Trees
  BY <1>1 DEF Trees
<1>4. Calm(f, g)
  BY <1>3 DEF Calm
<1>5. g[Root] # Nil
  BY <1>2, <1>3
<1>6. Precise(g) /\ \A d \in Ino : Named(g, d) <=> Named(f, d)
  BY <1>4, <1>5, CalmPrecise
<1>7. Counted(g)
  BY <1>1, <1>3, <1>4, CalmCounted
<1>8. \A d \in Ino : Named(g, d) => d # i
  <2> SUFFICES ASSUME NEW q \in Ino, NEW m \in Names, Leads(g, q, m) = i
               PROVE  FALSE
    BY DEF Named
  <2>1. g[q] # Nil /\ g[q].ents[m] = i /\ m \in Name /\ i # Nil
    BY NamesOK, NilAssumption DEF Leads
  <2>2. g[g[q].ents[m]] # Nil
    BY <2>1, <1>7, EntryHeld
  <2> QED BY <2>1, <2>2, <1>3
<1>9. \A kind : Grown(f, i, kind) = Grown(g, i, kind)
  BY <1>1 DEF Grown, Trees
<1> QED BY <1>2, <1>3, <1>4, <1>6, <1>7, <1>8, <1>9

-----------------------------------------------------------------------------
(* mknod and the first half of symlink.                                    *)
LEMMA NewFilePrecise ==
    ASSUME EnoughBlocks, NEW f, Sane(f), Precise(f), NEW p \in Ino, f[p] # Nil, f[p].kind = "dir",
           p = Root \/ Named(f, p), NEW n \in Names, f[p].ents[n] = Nil,
           NEW i \in Ino, f[i] = Nil \/ f[i].nlink = 0,
           NEW g, g = WithName(Grown(f, i, "file"), p, n, i)
    PROVE  Precise(g)
<1> DEFINE e == [f EXCEPT ![i] = Nil]
           h == Grown(e, i, "file")
<1>1. /\ i # Root /\ e \in Trees /\ Counted(e) /\ Precise(e) /\ e[i] = Nil /\ Calm(f, e)
      /\ \A d \in Ino \ {i} : e[d] = f[d]
      /\ \A d \in Ino : Named(e, d) => d # i
      /\ \A d \in Ino : Named(e, d) <=> Named(f, d)
      /\ \A kind : Grown(f, i, kind) = Grown(e, i, kind)
  BY Vacate
<1> HIDE DEF e
<1>2. /\ Counted(h) /\ Precise(h) /\ h \in Trees /\ h[i] = NewNode("file") /\ h[i] # Nil
      /\ \A d \in Ino \ {i} : h[d] = e[d]
      /\ \A d \in Ino, k \in Name : Leads(h, d, k) = Leads(e, d, k)
      /\ \A d \in Ino : Named(h, d) <=> Named(e, d)
      /\ ~Named(e, i)
  BY <1>1, GrownPrecise
<1>3. p # i /\ g = WithName(h, p, n, i)
  BY <1>1
<1> HIDE DEF h
<1>4. h[p] = f[p] /\ (p = Root \/ Named(h, p)) /\ h[i].kind = "file"
  BY <1>1, <1>2, <1>3 DEF NewNode
<1> QED BY <1>2, <1>3, <1>4, AddFilePrecise

(* mkdir.                                                                  *)
LEMMA NewDirPrecise ==
    ASSUME EnoughBlocks, NEW f, Sane(f), Precise(f), NEW p \in Ino, f[p] # Nil, f[p].kind = "dir",
           p = Root \/ Named(f, p), NEW n \in Names, f[p].ents[n] = Nil,
           NEW i \in Ino, f[i] = Nil \/ f[i].nlink = 0,
           NEW g, g = WithName(NewDir(f, i, p), p, n, i)
    PROVE  Precise(g)
<1> DEFINE e == [f EXCEPT ![i] = Nil]
           h == Grown(e, i, "dir")
           h1 == WithName(h, i, ".", i)
           h2 == WithName(h1, i, "..", p)
<1>1. /\ i # Root /\ e \in Trees /\ Counted(e) /\ Precise(e) /\ e[i] = Nil /\ Calm(f, e)
      /\ \A d \in Ino \ {i} : e[d] = f[d]
      /\ \A d \in Ino : Named(e, d) => d # i
      /\ \A d \in Ino : Named(e, d) <=> Named(f, d)
      /\ \A kind : Grown(f, i, kind) = Grown(e, i, kind)
  BY Vacate
<1> HIDE DEF e
<1>2. /\ Counted(h) /\ Precise(h) /\ h \in Trees /\ h[i] = NewNode("dir") /\ h[i] # Nil
      /\ \A d \in Ino \ {i} : h[d] = e[d]
      /\ \A d \in Ino, k \in Name : Leads(h, d, k) = Leads(e, d, k)
      /\ \A d \in Ino : Named(h, d) <=> Named(e, d)
      /\ ~Named(e, i)
  BY <1>1, GrownPrecise
<1>3. p # i /\ g = WithName(h2, p, n, i)
  BY <1>1 DEF NewDir
<1> HIDE DEF h
<1>4. h[p] = f[p] /\ e[p] = f[p] /\ (p = Root \/ Named(e, p)) /\ h[i].kind = "dir" /\ h[p] # Nil
  BY <1>1, <1>2, <1>3 DEF NewNode
<1>5. "." \in Name /\ ".." \in Name /\ n \in Name /\ "." \notin Names /\ ".." \notin Names /\ "." # ".."
      /\ n # "." /\ n # ".."
  BY NamesOK
<1>6. \A k \in Name : h[i].ents[k] = Nil
  BY <1>2 DEF NewNode, NoEntries
<1>7. Counted(h1) /\ Exact(h1) /\ h1 \in Trees /\ Kin(h, h1)
      /\ \A d \in Ino, k \in Name : Leads(h1, d, k) = IF d = i /\ k = "." THEN i ELSE Leads(h, d, k)
  <2>1. Counted(h1)
    BY <1>2, <1>5, <1>6, WithNameCounted
  <2>2. Exact(h1)
    BY <1>2, <1>5, <1>6, WithNameExact DEF Precise
  <2>3. /\ h1 \in Trees /\ Kin(h, h1)
        /\ \A d \in Ino, k \in Name : Leads(h1, d, k) = IF d = i /\ k = "." THEN i ELSE Leads(h, d, k)
    BY <1>2, <1>5, LeadsWithName
  <2> QED BY <2>1, <2>2, <2>3
<1> HIDE DEF h1
<1>8. h1[i] # Nil /\ h1[p] # Nil /\ h1[i].ents[".."] = Nil
  <2>1. h1[i] # Nil /\ h1[p] # Nil
    BY <1>2, <1>4, <1>7 DEF Kin
  <2>2. Leads(h1, i, "..") = Leads(h, i, "..") /\ Leads(h, i, "..") = Nil
    BY <1>2, <1>5, <1>6, <1>7 DEF Leads
  <2> QED BY <2>1, <2>2 DEF Leads
<1>9. Counted(h2) /\ Exact(h2) /\ h2 \in Trees /\ Kin(h1, h2)
      /\ \A d \in Ino, k \in Name : Leads(h2, d, k) = IF d = i /\ k = ".." THEN p ELSE Leads(h1, d, k)
  <2>1. Counted(h2)
    BY <1>5, <1>7, <1>8, WithNameCounted
  <2>2. Exact(h2)
    BY <1>5, <1>7, <1>8, WithNameExact
  <2>3. /\ h2 \in Trees /\ Kin(h1, h2)
        /\ \A d \in Ino, k \in Name : Leads(h2, d, k) = IF d = i /\ k = ".." THEN p ELSE Leads(h1, d, k)
    BY <1>5, <1>7, <1>8, LeadsWithName
  <2> QED BY <2>1, <2>2, <2>3
<1> HIDE DEF h2
<1>10. h2[i] # Nil /\ h2[p] # Nil /\ h2[p].ents[n] = Nil
  <2>1. h2[i] # Nil /\ h2[p] # Nil
    BY <1>8, <1>9 DEF Kin
  <2>2. Leads(h2, p, n) = Leads(h, p, n) /\ Leads(h, p, n) = Nil
    BY <1>3, <1>4, <1>5, <1>7, <1>9 DEF Leads
  <2> QED BY <2>1, <2>2 DEF Leads
<1>11. Exact(g) /\ Kin(h2, g)
       /\ \A d \in Ino, k \in Name : Leads(g, d, k) = IF d = p /\ k = n THEN i ELSE Leads(h2, d, k)
  <2>2. Exact(g)
    BY <1>3, <1>5, <1>9, <1>10, WithNameExact
  <2>3. /\ Kin(h2, g)
        /\ \A d \in Ino, k \in Name : Leads(g, d, k) = IF d = p /\ k = n THEN i ELSE Leads(h2, d, k)
    BY <1>3, <1>5, <1>9, <1>10, LeadsWithName
  <2> QED BY <2>2, <2>3
<1>12. \A d \in Ino : /\ g[d] = Nil <=> h[d] = Nil
                      /\ g[d] # Nil => g[d].kind = h[d].kind
  BY <1>7, <1>9, <1>11 DEF Kin
<1>13. Shaped(g)
  <2>1. Leads(e, p, n) = Nil
    BY <1>4 DEF Leads
  <2>2. \A d \in Ino \ {i} : /\ g[d] = Nil <=> e[d] = Nil
                             /\ g[d] # Nil => g[d].kind = e[d].kind
    BY <1>2, <1>12
  <2>3. g[i].kind = "dir" /\ g[p].kind = "dir"
    BY <1>2, <1>4, <1>12
  <2>4. \A k \in Name : Leads(g, i, k) = IF k = "." THEN i ELSE IF k = ".." THEN p ELSE Nil
    <3> SUFFICES ASSUME NEW k \in Name
                 PROVE  Leads(g, i, k) = IF k = "." THEN i ELSE IF k = ".." THEN p ELSE Nil
      OBVIOUS
    <3>1. Leads(h, i, k) = Nil
      BY <1>6 DEF Leads
    <3> QED BY <3>1, <1>3, <1>5, <1>7, <1>9, <1>11
  <2>5. \A d \in Ino \ {i}, k \in Name : Leads(g, d, k) = IF d = p /\ k = n THEN i ELSE Leads(e, d, k)
    BY <1>2, <1>3, <1>7, <1>9, <1>11
  <2>6. Shaped(e) /\ ~Named(e, i) /\ i # p /\ e[i] = Nil /\ (p = Root \/ Named(e, p))
    BY <1>1, <1>2, <1>3, <1>4 DEF Precise
  <2> QED BY <2>1, <2>2, <2>3, <2>4, <2>5, <2>6, ShapeAddDir
<1> QED BY <1>11, <1>13 DEF Precise

(* The root directory that format makes.                                   *)
LEMMA FirstPrecise ==
    ASSUME EnoughBlocks
    PROVE  Precise(NewDir(NoTree, Root, Root))
<1> DEFINE h == Grown(NoTree, Root, "dir")
           h1 == WithName(h, Root, ".", Root)
           g == WithName(h1, Root, "..", Root)
<1>1. g = NewDir(NoTree, Root, Root) /\ Root \in Ino /\ Counted(NoTree) /\ NoTree \in Trees
  BY BlankOK, InoAssumption DEF NewDir, Counted
<1>2. "." \in Name /\ ".." \in Name /\ "." \notin Names /\ ".." \notin Names /\ "." # ".."
  BY NamesOK
<1>3. NewNode("dir") \in Nodes /\ NewNode("dir").ents = NoEntries /\ NewNode("dir").nlink = 0
      /\ NewNode("dir").kind = "dir" /\ NewNode("dir") # Nil
  BY NewNodeType, NodeAssumption
<1>4. Counted(h) /\ h \in Trees /\ h[Root] = NewNode("dir") /\ \A d \in Ino \ {Root} : h[d] = Nil
  <2>1. NoTree[Root] = Nil
    BY <1>1 DEF NoTree
  <2>2. Counted(h)
    BY <1>1, <1>3, <2>1, NewNodeCounted DEF Grown
  <2> QED BY <1>1, <2>2 DEF Grown, NoTree, Counted
<1> HIDE DEF h
<1>5. \A d \in Ino, k \in Name : Leads(h, d, k) = Nil
  <2> SUFFICES ASSUME NEW d \in Ino, NEW k \in Name PROVE Leads(h, d, k) = Nil
    OBVIOUS
  <2>1. CASE d = Root
    BY <2>1, <1>3, <1>4 DEF Leads, NoEntries
  <2>2. CASE d # Root
    BY <2>2, <1>4 DEF Leads
  <2> QED BY <2>1, <2>2
<1>6. Exact(h)
  <2> SUFFICES ASSUME NEW k \in Ino
               PROVE  Cardinality(Refs(h, k)) = IF h[k] = Nil THEN 0 ELSE h[k].nlink
    BY DEF Exact
  <2>1. k # Nil /\ \A x \in Positions : Leads(h, x[1], x[2]) = Nil
    BY <1>5, NilAssumption DEF Positions
  <2>2. Refs(h, k) = {}
    BY <2>1, LeadsRefs
  <2>3. Cardinality(Refs(h, k)) = 0
    BY <2>2, FS_EmptySet
  <2> QED BY <2>3, <1>3, <1>4
<1>7. h[Root] # Nil /\ h[Root].ents["."] = Nil /\ h[Root].kind = "dir"
  BY <1>2, <1>3, <1>4 DEF NoEntries
<1>8. Counted(h1) /\ Exact(h1) /\ h1 \in Trees /\ Kin(h, h1)
      /\ \A d \in Ino, k \in Name : Leads(h1, d, k) = IF d = Root /\ k = "." THEN Root ELSE Leads(h, d, k)
  <2>1. Counted(h1)
    BY <1>1, <1>2, <1>4, <1>7, WithNameCounted
  <2>2. Exact(h1)
    BY <1>1, <1>2, <1>4, <1>6, <1>7, WithNameExact
  <2>3. /\ h1 \in Trees /\ Kin(h, h1)
        /\ \A d \in Ino, k \in Name : Leads(h1, d, k) = IF d = Root /\ k = "." THEN Root ELSE Leads(h, d, k)
    BY <1>1, <1>2, <1>4, <1>7, LeadsWithName
  <2> QED BY <2>1, <2>2, <2>3
<1> HIDE DEF h1
<1>9. h1[Root] # Nil /\ h1[Root].ents[".."] = Nil
  <2>1. h1[Root] # Nil
    BY <1>1, <1>7, <1>8 DEF Kin
  <2>2. Leads(h1, Root, "..") = Nil
    BY <1>1, <1>2, <1>5, <1>8
  <2> QED BY <2>1, <2>2 DEF Leads
<1>10. Exact(g) /\ Kin(h1, g)
       /\ \A d \in Ino, k \in Name : Leads(g, d, k) = IF d = Root /\ k = ".." THEN Root ELSE Leads(h1, d, k)
  <2>2. Exact(g)
    BY <1>1, <1>2, <1>8, <1>9, WithNameExact
  <2>3. /\ Kin(h1, g)
        /\ \A d \in Ino, k \in Name : Leads(g, d, k) = IF d = Root /\ k = ".." THEN Root ELSE Leads(h1, d, k)
    BY <1>1, <1>2, <1>8, <1>9, LeadsWithName
  <2> QED BY <2>2, <2>3
<1> HIDE DEF g
<1>11. Shaped(g)
  <2> SUFFICES ASSUME NEW d \in Ino, g[d] # Nil
               PROVE  Plain(g, d) /\ Dotted(g, d) /\ Gone(g, d) /\ Single(g, d)
    BY DEF Shaped
  <2>1. d = Root /\ g[d].kind = "dir" /\ g[d].kind # "file"
    BY <1>4, <1>7, <1>8, <1>10 DEF Kin
  <2>2. \A q \in Ino, m \in Names : Leads(g, q, m) = Nil
    BY <1>2, <1>5, <1>8, <1>10, NamesOK
  <2>3. Leads(g, Root, ".") = Root /\ Leads(g, Root, "..") = Root /\ Root # Nil /\ Nil \notin Ino
    BY <1>1, <1>2, <1>8, <1>10, NilAssumption
  <2>4. Single(g, d)
    BY <2>2, <2>3 DEF Single
  <2> QED BY <2>1, <2>3, <2>4 DEF Plain, Dotted, Gone
<1> QED BY <1>1, <1>10, <1>11 DEF Precise

-----------------------------------------------------------------------------
(* unlink of a file.                                                       *)
LEMMA DropFilePrecise ==
    ASSUME NEW f, Counted(f), Precise(f), NEW p \in Ino, f[p] # Nil, NEW n \in Names,
           NEW i, i = f[p].ents[n], i # Nil, f[i].kind = "file",
           NEW g, g = Drop(f, p, n)
    PROVE  /\ Counted(g) /\ g \in Trees /\ Precise(g) /\ Kin(f, g)
           /\ \A d \in Ino, k \in Name : Leads(g, d, k) = IF d = p /\ k = n THEN Nil ELSE Leads(f, d, k)
<1>1. n \in Name /\ Leads(f, p, n) = i
  BY NamesOK DEF Leads
<1>2. i \in Ino /\ f[i] # Nil
  BY <1>1, EntryHeld
<1>3. /\ Counted(g) /\ g \in Trees /\ Kin(f, g)
      /\ \A d \in Ino, k \in Name : Leads(g, d, k) = IF d = p /\ k = n THEN Nil ELSE Leads(f, d, k)
  BY <1>1, LeadsDrop
<1>4. Exact(g)
  BY <1>1, DropExact DEF Precise
<1>5. Shaped(f)
  BY DEF Precise
<1>6. Shaped(g)
  BY <1>1, <1>2, <1>3, <1>5, ShapeDropFile
<1> QED BY <1>3, <1>4, <1>6 DEF Precise

(* With two entries, a directory has none but its own: this is what rmdir  *)
(* and rename check.                                                       *)
LEMMA OnlyDots ==
    ASSUME NEW e \in Entries, e["."] # Nil, e[".."] # Nil, Count(e) = 2
    PROVE  \A m \in Names : e[m] = Nil
<1> DEFINE D == {".", ".."}
           S == {k \in Name : e[k] # Nil}
<1>1. "." \in Name /\ ".." \in Name /\ "." # ".." /\ Names \subseteq Name /\ D \cap Names = {}
  BY NamesOK
<1>2. IsFiniteSet({"."}) /\ Cardinality({"."}) = 1
  BY FS_Singleton
<1>3. D = {"."} \union {".."} /\ ".." \notin {"."}
  BY <1>1
<1>4. Cardinality(D) = 2
  BY <1>2, <1>3, FS_AddElement
<1>5. D \in SUBSET S
  BY <1>1
<1>6. IsFiniteSet(Name)
  <2>1. Name = (Names \union {"."}) \union {".."}
    BY DEF Name
  <2> QED BY <2>1, NamesAssumption, FS_AddElement
<1>7. IsFiniteSet(S)
  BY <1>6, FS_Subset
<1>8. Cardinality(S) = 2
  BY DEF Count
<1>9. S = D
  BY <1>4, <1>5, <1>7, <1>8, FS_Subset
<1> QED BY <1>1, <1>9

(* rmdir of an empty directory.                                            *)
LEMMA DropDirPrecise ==
    ASSUME NEW f, Counted(f), Precise(f), NEW p \in Ino, f[p] # Nil, NEW n \in Names,
           NEW j, j = f[p].ents[n], j # Nil, f[j].kind = "dir", Count(f[j].ents) = 2,
           NEW g, g = DropDir(f, j, p, n)
    PROVE  /\ j \in Ino /\ j # Root /\ Counted(g) /\ g \in Trees /\ Precise(g) /\ Kin(f, g)
           /\ f[j].ents["."] # Nil /\ f[j].ents[".."] # Nil
           /\ \A m \in Names : f[j].ents[m] = Nil
           /\ \A d \in Ino, k \in Name :
                 Leads(g, d, k) = IF d = j \/ (d = p /\ k = n) THEN Nil ELSE Leads(f, d, k)
<1> DEFINE g1 == Drop(f, j, ".")
           g2 == Drop(g1, j, "..")
<1>1. n \in Name /\ Leads(f, p, n) = j /\ "." \in Name /\ ".." \in Name
  BY NamesOK DEF Leads
<1>2. j \in Ino /\ f[j] # Nil
  BY <1>1, EntryHeld
<1>3. j # Root /\ Shaped(f) /\ Exact(f) /\ f[j].ents \in Entries
  BY <1>2 DEF Counted, Proper, Precise, Trees, Nodes
<1>4. f[j].ents["."] # Nil /\ f[j].ents[".."] # Nil
  <2>1. Named(f, j)
    BY <1>1 DEF Named
  <2> QED BY <2>1, <1>2, <1>3 DEF Shaped, Dotted, Leads
<1>5. \A m \in Names : f[j].ents[m] = Nil
  BY <1>3, <1>4, OnlyDots
<1>6. /\ Counted(g1) /\ g1 \in Trees /\ Kin(f, g1) /\ Exact(g1)
      /\ \A d \in Ino, k \in Name : Leads(g1, d, k) = IF d = j /\ k = "." THEN Nil ELSE Leads(f, d, k)
  <2>1. Exact(g1)
    BY <1>1, <1>2, <1>3, DropExact
  <2>2. /\ Counted(g1) /\ g1 \in Trees /\ Kin(f, g1)
        /\ \A d \in Ino, k \in Name : Leads(g1, d, k) = IF d = j /\ k = "." THEN Nil ELSE Leads(f, d, k)
    BY <1>1, <1>2, LeadsDrop
  <2> QED BY <2>1, <2>2
<1> HIDE DEF g1
<1>7. g1[j] # Nil /\ g1[p] # Nil
  BY <1>2, <1>6 DEF Kin
<1>8. /\ Counted(g2) /\ g2 \in Trees /\ Kin(g1, g2) /\ Exact(g2)
      /\ \A d \in Ino, k \in Name : Leads(g2, d, k) = IF d = j /\ k = ".." THEN Nil ELSE Leads(g1, d, k)
  <2>1. Exact(g2)
    BY <1>1, <1>2, <1>6, <1>7, DropExact
  <2>2. /\ Counted(g2) /\ g2 \in Trees /\ Kin(g1, g2)
        /\ \A d \in Ino, k \in Name : Leads(g2, d, k) = IF d = j /\ k = ".." THEN Nil ELSE Leads(g1, d, k)
    BY <1>1, <1>2, <1>6, <1>7, LeadsDrop
  <2> QED BY <2>1, <2>2
<1>9. g = Drop(g2, p, n)
  BY DEF DropDir, g1
<1> HIDE DEF g2
<1>10. g2[p] # Nil
  BY <1>7, <1>8 DEF Kin
<1>11. /\ Counted(g) /\ g \in Trees /\ Kin(g2, g) /\ Exact(g)
       /\ \A d \in Ino, k \in Name : Leads(g, d, k) = IF d = p /\ k = n THEN Nil ELSE Leads(g2, d, k)
  <2>1. Exact(g)
    BY <1>1, <1>8, <1>9, <1>10, DropExact
  <2>2. /\ Counted(g) /\ g \in Trees /\ Kin(g2, g)
        /\ \A d \in Ino, k \in Name : Leads(g, d, k) = IF d = p /\ k = n THEN Nil ELSE Leads(g2, d, k)
    BY <1>1, <1>8, <1>9, <1>10, LeadsDrop
  <2> QED BY <2>1, <2>2
<1>12. Kin(f, g)
  BY <1>6, <1>8, <1>11 DEF Kin
<1>13. \A d \in Ino, k \in Name :
         Leads(g, d, k) = IF d = j \/ (d = p /\ k = n) THEN Nil ELSE Leads(f, d, k)
  <2> SUFFICES ASSUME NEW d \in Ino, NEW k \in Name
               PROVE  Leads(g, d, k) = IF d = j \/ (d = p /\ k = n) THEN Nil ELSE Leads(f, d, k)
    OBVIOUS
  <2>1. CASE d = j
    <3>1. CASE k \in Names
      <4>1. Leads(f, d, k) = Nil
        BY <2>1, <3>1, <1>5 DEF Leads
      <4> QED BY <4>1, <2>1, <1>6, <1>8, <1>11
    <3>2. CASE k \in {".", ".."}
      BY <2>1, <3>2, <1>6, <1>8, <1>11
    <3> QED BY <3>1, <3>2 DEF Name
  <2>2. CASE d # j
    BY <2>2, <1>6, <1>8, <1>11
  <2> QED BY <2>1, <2>2
<1>14. Shaped(g)
  <2>1. \A m \in Names : Leads(f, j, m) = Nil
    BY <1>5 DEF Leads
  <2> QED BY <2>1, <1>1, <1>2, <1>3, <1>12, <1>13, ShapeDropDir
<1> QED BY <1>2, <1>3, <1>4, <1>5, <1>11, <1>12, <1>13, <1>14 DEF Precise

(* What rename does at the new name: nothing, unlink or rmdir.             *)
LEMMA VacatedPrecise ==
    ASSUME NEW f, Counted(f), Precise(f), NEW q \in Ino, f[q] # Nil, NEW m \in Names,
           NEW j, j = f[q].ents[m], j # Nil /\ f[j].kind = "dir" => Count(f[j].ents) = 2,
           NEW g, g = Vacated(f, q, m)
    PROVE  /\ Counted(g) /\ g \in Trees /\ Precise(g) /\ Kin(f, g)
           /\ Leads(g, q, m) = Nil
           /\ \A d \in Ino, k \in Names :
                 Leads(g, d, k) = IF d = q /\ k = m THEN Nil ELSE Leads(f, d, k)
<1>0. m \in Name /\ Leads(f, q, m) = j /\ Names \subseteq Name
  BY NamesOK DEF Leads
<1>1. CASE j = Nil
  <2>1. g = f
    BY <1>1 DEF Vacated
  <2>2. f \in Trees /\ Kin(f, f)
    BY DEF Counted, Kin
  <2> QED BY <1>0, <1>1, <2>1, <2>2
<1>2. CASE j # Nil /\ f[j].kind = "dir"
  <2>1. g = DropDir(f, j, q, m)
    BY <1>2 DEF Vacated
  <2>2. /\ j \in Ino /\ j # Root /\ Counted(g) /\ g \in Trees /\ Precise(g) /\ Kin(f, g)
        /\ f[j].ents["."] # Nil /\ f[j].ents[".."] # Nil
        /\ \A k \in Names : f[j].ents[k] = Nil
        /\ \A d \in Ino, k \in Name :
              Leads(g, d, k) = IF d = j \/ (d = q /\ k = m) THEN Nil ELSE Leads(f, d, k)
    BY <1>2, <2>1, DropDirPrecise
  <2>3. \A k \in Names : Leads(f, j, k) = Nil
    BY <2>2 DEF Leads
  <2> QED BY <1>0, <2>2, <2>3
<1>3. CASE j # Nil /\ f[j].kind # "dir"
  <2>1. g = Drop(f, q, m)
    BY <1>3 DEF Vacated
  <2>2. f[j].kind = "file"
    <3>1. j \in Ino /\ f[j] # Nil /\ f \in Trees
      BY <1>0, <1>3, EntryHeld DEF Counted
    <3> QED BY <1>3, <3>1 DEF Trees, Nodes
  <2>3. /\ Counted(g) /\ g \in Trees /\ Precise(g) /\ Kin(f, g)
        /\ \A d \in Ino, k \in Name : Leads(g, d, k) = IF d = q /\ k = m THEN Nil ELSE Leads(f, d, k)
    BY <1>3, <2>1, <2>2, DropFilePrecise
  <2> QED BY <1>0, <2>3
<1> QED BY <1>1, <1>2, <1>3

(* rename. The moved node never overwrites itself (i # j) and never goes   *)
(* into itself (i # q), which the kernel has checked.                      *)
LEMMA MovedPrecise ==
    ASSUME NEW f, Counted(f), Precise(f), NEW p \in Ino, f[p] # Nil, NEW n \in Names,
           NEW q \in Ino, f[q] # Nil, f[q].kind = "dir", q = Root \/ Named(f, q), NEW m \in Names,
           NEW i, i = f[p].ents[n], i # Nil, NEW j, j = f[q].ents[m], i # j, i # q,
           j # Nil /\ f[j].kind = "dir" => Count(f[j].ents) = 2,
           NEW g, g = Moved(f, p, n, q, m, i)
    PROVE  Precise(g)
<1> DEFINE g0 == Vacated(f, q, m)
           g1 == WithName(g0, q, m, i)
<1>0. m \in Name /\ n \in Name /\ Names \subseteq Name /\ Leads(f, p, n) = i /\ Leads(f, q, m) = j
  BY NamesOK DEF Leads
<1>1. i \in Ino /\ f[i] # Nil /\ i # Root /\ ~(p = q /\ n = m)
  <2>1. i \in Ino /\ f[i] # Nil
    BY <1>0, EntryHeld
  <2> QED BY <2>1 DEF Counted, Proper
<1>2. /\ Counted(g0) /\ g0 \in Trees /\ Precise(g0) /\ Kin(f, g0)
      /\ Leads(g0, q, m) = Nil
      /\ \A d \in Ino, k \in Names :
            Leads(g0, d, k) = IF d = q /\ k = m THEN Nil ELSE Leads(f, d, k)
  BY VacatedPrecise
<1>3. g = Drop(g1, p, n)
  BY DEF Moved
<1> HIDE DEF g0
<1>4. g0[q] # Nil /\ g0[q].kind = "dir" /\ g0[i] # Nil /\ g0[q].ents[m] = Nil /\ g0[p] # Nil
      /\ Leads(g0, p, n) = i
  <2>1. g0[q] # Nil /\ g0[q].kind = "dir" /\ g0[i] # Nil /\ g0[p] # Nil
    BY <1>1, <1>2 DEF Kin
  <2>2. g0[q].ents[m] = Nil
    BY <2>1, <1>2 DEF Leads
  <2>3. Leads(g0, p, n) = i
    BY <1>0, <1>1, <1>2
  <2> QED BY <2>1, <2>2, <2>3
<1>5. q = Root \/ Named(g0, q)
  <2> SUFFICES ASSUME NEW a \in Ino, NEW b \in Names, Leads(f, a, b) = q
               PROVE  Named(g0, q)
    BY DEF Named
  <2>1. ~(a = q /\ b = m)
    BY NilAssumption DEF Leads, Counted, Proper
  <2>2. Leads(g0, a, b) = q
    BY <2>1, <1>2
  <2> QED BY <2>2 DEF Named
<1>6. /\ Counted(g1) /\ Exact(g1) /\ g1 \in Trees /\ Kin(g0, g1)
      /\ \A d \in Ino, k \in Name : Leads(g1, d, k) = IF d = q /\ k = m THEN i ELSE Leads(g0, d, k)
  <2>1. Counted(g1)
    BY <1>0, <1>1, <1>2, <1>4, WithNameCounted
  <2>2. Exact(g1)
    BY <1>0, <1>1, <1>2, <1>4, WithNameExact DEF Precise
  <2>3. /\ g1 \in Trees /\ Kin(g0, g1)
        /\ \A d \in Ino, k \in Name : Leads(g1, d, k) = IF d = q /\ k = m THEN i ELSE Leads(g0, d, k)
    BY <1>0, <1>1, <1>2, <1>4, LeadsWithName
  <2> QED BY <2>1, <2>2, <2>3
<1> HIDE DEF g1
<1>7. g1[p] # Nil
  BY <1>4, <1>6 DEF Kin
<1>8. /\ Exact(g) /\ Kin(g1, g)
      /\ \A d \in Ino, k \in Name : Leads(g, d, k) = IF d = p /\ k = n THEN Nil ELSE Leads(g1, d, k)
  <2>1. Exact(g)
    BY <1>0, <1>3, <1>6, <1>7, DropExact
  <2>2. /\ Kin(g1, g)
        /\ \A d \in Ino, k \in Name : Leads(g, d, k) = IF d = p /\ k = n THEN Nil ELSE Leads(g1, d, k)
    BY <1>0, <1>3, <1>6, <1>7, LeadsDrop
  <2> QED BY <2>1, <2>2
<1>9. Shaped(g)
  <2>1. Kin(g0, g)
    BY <1>6, <1>8 DEF Kin
  <2>2. \A d \in Ino, k \in Name :
          Leads(g, d, k) = IF d = p /\ k = n THEN Nil
                           ELSE IF d = q /\ k = m THEN i ELSE Leads(g0, d, k)
    BY <1>6, <1>8
  <2>3. Shaped(g0)
    BY <1>2 DEF Precise
  <2> QED BY <2>1, <2>2, <2>3, <1>1, <1>2, <1>4, <1>5, ShapeMove
<1> QED BY <1>8, <1>9 DEF Precise

(* chmod, truncate and write.                                              *)
LEMMA AttrPrecise ==
    ASSUME NEW f \in Trees, Precise(f), NEW i \in Ino, f[i] # Nil
    PROVE  /\ \A b \in BOOLEAN : Precise(SetSuid(f, i, b))
           /\ \A z \in 0 .. 1 : Precise(SetSize(f, i, z))
<1>1. ASSUME NEW b \in BOOLEAN PROVE Precise(SetSuid(f, i, b))
  <2> DEFINE g == SetSuid(f, i, b)
  <2>1. /\ g \in Trees /\ g[i] = [f[i] EXCEPT !.suid = b] /\ \A j \in Ino \ {i} : g[j] = f[j]
    BY SetSuidTree
  <2> HIDE DEF g
  <2>2. f[i] \in Nodes
    BY DEF Trees
  <2>3. g[i] # Nil
    BY <2>1, <2>2, NodeAssumption DEF Nodes
  <2>4. Alike(f, g)
    BY <2>1, <2>2, <2>3 DEF Alike, Nodes
  <2>5. Precise(g)
    BY <2>4, AlikePrecise
  <2> QED BY <2>5 DEF g
<1>2. ASSUME NEW z \in 0 .. 1 PROVE Precise(SetSize(f, i, z))
  <2> DEFINE g == SetSize(f, i, z)
  <2>1. /\ g \in Trees /\ g[i] = [f[i] EXCEPT !.size = z] /\ \A j \in Ino \ {i} : g[j] = f[j]
    BY SetSizeTree, ZenonT(60)
  <2> HIDE DEF g
  <2>2. f[i] \in Nodes
    BY DEF Trees
  <2>3. g[i] # Nil
    BY <2>1, <2>2, NodeAssumption DEF Nodes
  <2>4. Alike(f, g)
    BY <2>1, <2>2, <2>3 DEF Alike, Nodes
  <2>5. Precise(g)
    BY <2>4, AlikePrecise
  <2> QED BY <2>5 DEF g
<1> QED BY <1>1, <1>2

-----------------------------------------------------------------------------
(* The directories in which the kernel makes calls have a name, or are the *)
(* root.                                                                   *)
LEMMA PlaceNamed ==
    ASSUME Fine(dk), NEW p \in Dirs
    PROVE  /\ p \in Ino /\ Tree(dk)[p] # Nil /\ Tree(dk)[p].kind = "dir"
           /\ p = Root \/ Named(Tree(dk), p)
<1>1. p \in Ino /\ Tree(dk)[p] # Nil /\ Tree(dk)[p].kind = "dir"
  BY DirHeld
<1>2. ASSUME NEW q \in Used, NEW n \in Names, IsDir(q), At(q, n) = p
      PROVE  Named(Tree(dk), p)
  <2>1. n \in Name
    BY NamesOK
  <2>2. At(q, n) = Tree(dk)[q].ents[n] /\ q \in Ino /\ Tree(dk)[q] # Nil
    BY <1>2, <2>1, EntryOfDir
  <2> QED BY <1>2, <2>2 DEF Named, Leads
<1>3. p = Root \/ \E q \in Used, n \in Names : IsDir(q) /\ At(q, n) = p
  BY DEF Dirs
<1> QED BY <1>1, <1>2, <1>3

(* What holds before each step.                                            *)
Now == EnoughBlocks /\ Fine(dk) /\ Precise(Tree(dk))

(* What Fine says about the tree.                                          *)
LEMMA SaneRoot ==
    ASSUME NEW s, Fine(s)
    PROVE  Tree(s)[Root] # Nil /\ Tree(s) \in Trees /\ Counted(Tree(s)) /\ Sane(Tree(s))
BY DEF Fine, Sane, Rooted, Held, Counted

(* CalmPrecise after a step.                                               *)
LEMMA CalmNow ==
    ASSUME EnoughBlocks, Fine(dk'), NEW f, Precise(f), Calm(f, Tree(dk'))
    PROVE  Precise(Tree(dk'))
<1>1. Tree(dk')[Root] # Nil
  BY DEF Fine, Sane, Rooted, Held
<1> QED BY <1>1, CalmPrecise

(* Calls that change the tree.                                             *)
LEMMA NamePrecise ==
    ASSUME Now, NameStep
    PROVE  Precise(Tree(dk'))
<1>0. EnoughBlocks /\ Fine(dk) /\ Precise(Tree(dk)) /\ Tree(dk)[Root] # Nil
      /\ Tree(dk) \in Trees /\ Counted(Tree(dk)) /\ Sane(Tree(dk))
  BY SaneRoot DEF Now
<1>1. PICK p \in Dirs, n \in Names :
        \/ FuseLookup(p, n)
        \/ FuseMknod(p, n)
        \/ FuseMkdir(p, n)
        \/ FuseSymlink(p, n)
        \/ \E i \in Files \cap Linked : FuseLink(i, p, n)
        \/ FuseUnlink(p, n)
        \/ FuseRmdir(p, n)
        \/ \E q \in Dirs, m \in Names : FuseRename(p, n, q, m)
  BY DEF NameStep
<1>2. p \in Ino /\ Tree(dk)[p] # Nil /\ Tree(dk)[p].kind = "dir" /\ (p = Root \/ Named(Tree(dk), p))
  BY <1>0, PlaceNamed
<1>3. CASE FuseLookup(p, n)
  <2>1. Fine(dk') /\ Quiet /\ Calm(Tree(dk), Tree(dk'))
    BY <1>0, <1>3, LookupStep
  <2> QED BY <1>0, <2>1, CalmNow
<1>4. CASE FuseMknod(p, n)
  <2>1. /\ Fine(dk') /\ Quiet /\ Tree(dk)[p].ents[n] = Nil
        /\ \/ Calm(Tree(dk), Tree(dk'))
           \/ \E i \in Ino :
                /\ Vacant(dk, i)
                /\ EnoughBlocks =>
                     /\ WithName(Grown(Tree(dk), i, "file"), p, n, i) \in Trees
                     /\ Calm(WithName(Grown(Tree(dk), i, "file"), p, n, i), Tree(dk'))
    BY <1>0, <1>4, MknodStep
  <2>2. CASE Calm(Tree(dk), Tree(dk'))
    BY <1>0, <2>1, <2>2, CalmNow
  <2>3. ASSUME NEW i \in Ino, Vacant(dk, i),
               Calm(WithName(Grown(Tree(dk), i, "file"), p, n, i), Tree(dk'))
        PROVE  Precise(Tree(dk'))
    <3>1. Tree(dk)[i] = Nil \/ Tree(dk)[i].nlink = 0
      BY <2>3 DEF Vacant
    <3>2. Precise(WithName(Grown(Tree(dk), i, "file"), p, n, i))
      BY <1>0, <1>2, <2>1, <3>1, NewFilePrecise
    <3> QED BY <1>0, <2>1, <2>3, <3>2, CalmNow
  <2> QED BY <1>0, <2>1, <2>2, <2>3
<1>5. CASE FuseMkdir(p, n)
  <2>1. /\ Fine(dk') /\ Quiet /\ Tree(dk)[p].ents[n] = Nil
        /\ \/ dk' = dk
           \/ \E i \in Ino :
                /\ Vacant(dk, i)
                /\ EnoughBlocks =>
                     LET g == NewDir(Tree(dk), i, p)
                     IN  /\ g \in Trees /\ WithName(g, p, n, i) \in Trees
                         /\ Calm(WithName(g, p, n, i), Tree(dk'))
    BY <1>0, <1>5, MkdirStep
  <2>2. CASE dk' = dk
    BY <1>0, <2>2
  <2>3. ASSUME NEW i \in Ino, Vacant(dk, i),
               Calm(WithName(NewDir(Tree(dk), i, p), p, n, i), Tree(dk'))
        PROVE  Precise(Tree(dk'))
    <3>1. Tree(dk)[i] = Nil \/ Tree(dk)[i].nlink = 0
      BY <2>3 DEF Vacant
    <3>2. Precise(WithName(NewDir(Tree(dk), i, p), p, n, i))
      BY <1>0, <1>2, <2>1, <3>1, NewDirPrecise
    <3> QED BY <1>0, <2>1, <2>3, <3>2, CalmNow
  <2> QED BY <1>0, <2>1, <2>2, <2>3
<1>6. CASE FuseSymlink(p, n)
  <2>1. /\ Fine(dk') /\ Quiet /\ Tree(dk)[p].ents[n] = Nil
        /\ \/ Calm(Tree(dk), Tree(dk'))
           \/ \E i \in Ino :
                /\ Vacant(dk, i)
                /\ EnoughBlocks =>
                     LET f == WithName(Grown(Tree(dk), i, "file"), p, n, i)
                     IN  /\ f \in Trees /\ f[i] # Nil
                         /\ \E z \in 0 .. 1 : /\ SetSize(f, i, z) \in Trees
                                              /\ Calm(SetSize(f, i, z), Tree(dk'))
    BY <1>0, <1>6, SymlinkStep
  <2>2. CASE Calm(Tree(dk), Tree(dk'))
    BY <1>0, <2>1, <2>2, CalmNow
  <2>3. ASSUME NEW i \in Ino, Vacant(dk, i),
               NEW f, f = WithName(Grown(Tree(dk), i, "file"), p, n, i), f \in Trees, f[i] # Nil,
               NEW z \in 0 .. 1, Calm(SetSize(f, i, z), Tree(dk'))
        PROVE  Precise(Tree(dk'))
    <3>1. Tree(dk)[i] = Nil \/ Tree(dk)[i].nlink = 0
      BY <2>3 DEF Vacant
    <3>2. Precise(f)
      BY <1>0, <1>2, <2>1, <2>3, <3>1, NewFilePrecise
    <3>3. Precise(SetSize(f, i, z))
      BY <2>3, <3>2, AttrPrecise
    <3> QED BY <1>0, <2>1, <2>3, <3>3, CalmNow
  <2> QED BY <1>0, <2>1, <2>2, <2>3
<1>7. ASSUME NEW i \in Files \cap Linked, FuseLink(i, p, n)
      PROVE  Precise(Tree(dk'))
  <2>1. /\ Fine(dk') /\ Quiet /\ Tree(dk)[p].ents[n] = Nil
        /\ i \in Ino /\ Tree(dk)[i] # Nil /\ Tree(dk)[i].kind = "file"
        /\ WithName(Tree(dk), p, n, i) \in Trees
        /\ EnoughBlocks => Calm(WithName(Tree(dk), p, n, i), Tree(dk'))
    BY <1>0, <1>7, LinkStep
  <2>2. Precise(WithName(Tree(dk), p, n, i))
    BY <1>0, <1>2, <2>1, AddFilePrecise
  <2> QED BY <1>0, <2>1, <2>2, CalmNow
<1>8. CASE FuseUnlink(p, n)
  <2> DEFINE i == Tree(dk)[p].ents[n]
  <2>1. /\ Fine(dk') /\ Quiet
        /\ i # Nil /\ i \in Ino /\ Tree(dk)[i] # Nil /\ Tree(dk)[i].kind = "file"
        /\ EnoughBlocks => Calm(Drop(Tree(dk), p, n), Tree(dk'))
    BY <1>0, <1>8, UnlinkStep
  <2>2. Precise(Drop(Tree(dk), p, n))
    BY <1>0, <1>2, <2>1, DropFilePrecise
  <2> QED BY <1>0, <2>1, <2>2, CalmNow
<1>9. CASE FuseRmdir(p, n)
  <2> DEFINE j == Tree(dk)[p].ents[n]
  <2>1. /\ Fine(dk') /\ Quiet
        /\ j # Nil /\ j \in Ino /\ Tree(dk)[j] # Nil /\ Tree(dk)[j].kind = "dir"
        /\ \/ Calm(Tree(dk), Tree(dk'))
           \/ EnoughBlocks => /\ Calm(DropDir(Tree(dk), j, p, n), Tree(dk'))
                              /\ Count(Tree(dk)[j].ents) = 2
    BY <1>0, <1>9, RmdirStep
  <2>2. CASE Calm(Tree(dk), Tree(dk'))
    BY <1>0, <2>1, <2>2, CalmNow
  <2>3. CASE Calm(DropDir(Tree(dk), j, p, n), Tree(dk')) /\ Count(Tree(dk)[j].ents) = 2
    <3>1. Precise(DropDir(Tree(dk), j, p, n))
      BY <1>0, <1>2, <2>1, <2>3, DropDirPrecise
    <3> QED BY <1>0, <2>1, <2>3, <3>1, CalmNow
  <2> QED BY <1>0, <2>1, <2>2, <2>3
<1>10. ASSUME NEW q \in Dirs, NEW m \in Names, FuseRename(p, n, q, m)
       PROVE  Precise(Tree(dk'))
  <2> DEFINE i == Tree(dk)[p].ents[n]
             j == Tree(dk)[q].ents[m]
  <2>1. /\ Fine(dk') /\ Quiet
        /\ i # Nil /\ i \in Ino /\ Tree(dk)[i] # Nil /\ i # j /\ i # q
        /\ j # Nil => /\ j \in Ino /\ Tree(dk)[j] # Nil /\ p # j
                      /\ Tree(dk)[i].kind = "dir" <=> Tree(dk)[j].kind = "dir"
        /\ EnoughBlocks =>
             \/ Calm(Tree(dk), Tree(dk'))
             \/ /\ Vacated(Tree(dk), q, m) \in Trees
                /\ WithName(Vacated(Tree(dk), q, m), q, m, i) \in Trees
                /\ Moved(Tree(dk), p, n, q, m, i) \in Trees
                /\ Calm(Moved(Tree(dk), p, n, q, m, i), Tree(dk'))
                /\ j # Nil /\ Tree(dk)[j].kind = "dir" => Count(Tree(dk)[j].ents) = 2
    BY <1>0, <1>10, RenameStep
  <2>2. CASE Calm(Tree(dk), Tree(dk'))
    BY <1>0, <2>1, <2>2, CalmNow
  <2>3. CASE /\ Calm(Moved(Tree(dk), p, n, q, m, i), Tree(dk'))
             /\ j # Nil /\ Tree(dk)[j].kind = "dir" => Count(Tree(dk)[j].ents) = 2
    <3>1. q \in Ino /\ Tree(dk)[q] # Nil /\ Tree(dk)[q].kind = "dir" /\ (q = Root \/ Named(Tree(dk), q))
      BY <1>0, PlaceNamed
    <3>2. Precise(Moved(Tree(dk), p, n, q, m, i))
      BY <1>0, <1>2, <2>1, <2>3, <3>1, MovedPrecise
    <3> QED BY <1>0, <2>1, <2>3, <3>2, CalmNow
  <2> QED BY <1>0, <2>1, <2>2, <2>3
<1> QED BY <1>1, <1>3, <1>4, <1>5, <1>6, <1>7, <1>8, <1>9, <1>10

(* Calls that change an inode or its content.                              *)
LEMMA InodePrecise ==
    ASSUME Now, InodeStep
    PROVE  Precise(Tree(dk'))
<1>0. EnoughBlocks /\ Fine(dk) /\ Precise(Tree(dk)) /\ Tree(dk) \in Trees
  BY SaneRoot DEF Now
<1>1. ASSUME NEW i \in Used, NEW given \in BOOLEAN, NEW suid \in BOOLEAN, FuseChmod(i, given, suid)
      PROVE  Precise(Tree(dk'))
  <2>1. /\ Fine(dk') /\ Quiet /\ i \in Ino /\ Tree(dk)[i] # Nil
        /\ EnoughBlocks => /\ SetSuid(Tree(dk), i, suid) \in Trees
                           /\ Calm(SetSuid(Tree(dk), i, suid), Tree(dk'))
    BY <1>0, <1>1, ChmodStep
  <2>2. Precise(SetSuid(Tree(dk), i, suid))
    BY <1>0, <2>1, AttrPrecise
  <2> QED BY <1>0, <2>1, <2>2, CalmNow
<1>2. ASSUME NEW i \in Files, NEW given \in BOOLEAN, FuseTruncate(i, given)
      PROVE  Precise(Tree(dk'))
  <2>1. /\ Fine(dk') /\ Quiet
        /\ EnoughBlocks => /\ SetSize(Tree(dk), i, 0) \in Trees
                           /\ Calm(SetSize(Tree(dk), i, 0), Tree(dk'))
    BY <1>0, <1>2, TruncateStep
  <2>2. i \in Ino /\ Tree(dk)[i] # Nil
    BY <1>0, FileUsed
  <2>3. Precise(SetSize(Tree(dk), i, 0))
    BY <1>0, <2>2, AttrPrecise
  <2> QED BY <1>0, <2>1, <2>3, CalmNow
<1>3. ASSUME NEW i \in Files, FuseWrite(i)
      PROVE  Precise(Tree(dk'))
  <2>1. /\ Fine(dk') /\ Quiet
        /\ \E size \in 0 .. 1 : Tree(dk') = SetSize(Tree(dk), i, size)
    BY <1>0, <1>3, WriteStep
  <2>2. i \in Ino /\ Tree(dk)[i] # Nil
    BY <1>0, FileUsed
  <2> QED BY <1>0, <2>1, <2>2, AttrPrecise
<1>4. Files \subseteq Used
  BY DEF Files
<1> QED BY <1>1, <1>2, <1>3, <1>4 DEF InodeStep

(* Calls that open, close, synchronise or read.                            *)
LEMMA HandlePrecise ==
    ASSUME Now, HandleStep
    PROVE  Precise(Tree(dk'))
<1>0. EnoughBlocks /\ Fine(dk) /\ Precise(Tree(dk)) /\ Tree(dk) \in Trees
  BY SaneRoot DEF Now
<1>1. ASSUME Fine(dk'), Calm(Tree(dk), Tree(dk'))
      PROVE  Precise(Tree(dk'))
  BY <1>0, <1>1, CalmNow
<1>2. ASSUME NEW i \in Used, FuseGetattr(i)
      PROVE  Precise(Tree(dk'))
  BY <1>0, <1>1, <1>2, GetattrStep
<1>3. ASSUME NEW i \in Files, FuseReadlink(i)
      PROVE  Precise(Tree(dk'))
  BY <1>0, <1>1, <1>3, ReadlinkStep
<1>4. ASSUME NEW i \in Files, NEW root \in BOOLEAN, FuseOpen(i, root)
      PROVE  Precise(Tree(dk'))
  <2>1. /\ Fine(dk') /\ dk.fh[i] < MaxHandles
        /\ dk'.fh = [dk.fh EXCEPT ![i] = @ + 1] /\ dk'.dh = dk.dh /\ panicked' = panicked
        /\ \/ Calm(Tree(dk), Tree(dk'))
           \/ EnoughBlocks => /\ SetSuid(Tree(dk), i, FALSE) \in Trees
                              /\ Calm(SetSuid(Tree(dk), i, FALSE), Tree(dk'))
    BY <1>0, <1>4, OpenStep
  <2>2. i \in Ino /\ Tree(dk)[i] # Nil
    BY <1>0, FileUsed
  <2>3. Precise(SetSuid(Tree(dk), i, FALSE))
    BY <1>0, <2>2, AttrPrecise
  <2> QED BY <1>0, <1>1, <2>1, <2>3, CalmNow
<1>5. ASSUME NEW i \in Files, FuseRead(i)
      PROVE  Precise(Tree(dk'))
  BY <1>0, <1>5, ReadStep
<1>6. ASSUME NEW i \in Files, FuseFlush(i)
      PROVE  Precise(Tree(dk'))
  BY <1>0, <1>6, FlushStep
<1>7. ASSUME NEW i \in Files, FuseRelease(i)
      PROVE  Precise(Tree(dk'))
  BY <1>0, <1>1, <1>7, ReleaseStep
<1>8. ASSUME NEW i \in Dirs, FuseOpendir(i)
      PROVE  Precise(Tree(dk'))
  BY <1>0, <1>1, <1>8, OpendirStep
<1>9. ASSUME NEW i \in Used, FuseReleasedir(i)
      PROVE  Precise(Tree(dk'))
  BY <1>0, <1>1, <1>9, ReleasedirStep
<1>10. ASSUME NEW i \in Used, NEW datasync \in DataSyncs, FuseFsyncdir(i, datasync)
       PROVE  Precise(Tree(dk'))
  <2>1. datasync \in BOOLEAN
    BY DataSyncsAssumption
  <2> QED BY <1>0, <1>10, <2>1, FsyncdirStep
<1>11. CASE Remount
  BY <1>0, <1>1, <1>11, RemountStep
<1> QED BY <1>2, <1>3, <1>4, <1>5, <1>6, <1>7, <1>8, <1>9, <1>10, <1>11 DEF HandleStep

-----------------------------------------------------------------------------
(* A formatted file system is precise.                                     *)
LEMMA PreciseInit ==
    ASSUME EnoughBlocks, Init
    PROVE  Precise(Tree(dk))
<1>1. /\ Fine(dk) /\ NewDir(NoTree, Root, Root) \in Trees
      /\ Calm(NewDir(NoTree, Root, Root), Tree(dk))
  BY FormatOK DEF Init
<1>2. Tree(dk)[Root] # Nil
  BY <1>1, SaneRoot
<1> QED BY <1>1, <1>2, FirstPrecise, CalmPrecise

(* Every step keeps the tree precise.                                      *)
LEMMA PreciseNext ==
    ASSUME EnoughBlocks, Inv, Precise(Tree(dk)), [Next]_vars
    PROVE  Precise(Tree(dk'))
<1>1. CASE Next
  <2>1. Now
    BY DEF Now, Inv
  <2> QED BY <1>1, <2>1, NamePrecise, InodePrecise, HandlePrecise DEF Next
<1>2. CASE UNCHANGED vars
  BY <1>2 DEF vars
<1> QED BY <1>1, <1>2

(* In a precise tree, the link counts are right across caches and device.  *)
LEMMA PreciseLinks ==
    ASSUME Inv, Precise(Tree(dk))
    PROVE  NlinkCountsEntries
<1>1. Coherent(dk, {}) /\ Nil \notin Ino
  BY NilAssumption DEF Inv, Fine, Good
<1> SUFFICES ASSUME NEW i \in Ino
             PROVE  Cardinality({x \in Allocated \X Name :
                                   /\ Inode(dk, x[1]).kind = "dir"
                                   /\ Ents(dk, x[1])[x[2]] = i})
                      = IF i \in Allocated THEN Inode(dk, i).nlink ELSE 0
  BY DEF NlinkCountsEntries
<1>2. \A d \in Ino :
        /\ Tree(dk)[d] # Nil <=> d \in Allocated
        /\ Tree(dk)[d] # Nil =>
             /\ Tree(dk)[d].nlink = Inode(dk, d).nlink
             /\ \A k \in Name :
                  Tree(dk)[d].ents[k] = i <=> Inode(dk, d).kind = "dir" /\ Ents(dk, d)[k] = i
  <2> SUFFICES ASSUME NEW d \in Ino
               PROVE  /\ Tree(dk)[d] # Nil <=> d \in Allocated
                      /\ Tree(dk)[d] # Nil =>
                           /\ Tree(dk)[d].nlink = Inode(dk, d).nlink
                           /\ \A k \in Name :
                                Tree(dk)[d].ents[k] = i <=>
                                  Inode(dk, d).kind = "dir" /\ Ents(dk, d)[k] = i
    OBVIOUS
  <2>1. /\ Tree(dk)[d] = Nil <=> d \in dk.ifree
        /\ Tree(dk)[d] # Nil =>
             /\ Tree(dk)[d] \in Nodes
             /\ Tree(dk)[d].kind = Inode(dk, d).kind
             /\ Tree(dk)[d].nlink = Inode(dk, d).nlink
             /\ Tree(dk)[d].kind = "dir" => Tree(dk)[d].ents = Ents(dk, d)
    BY <1>1, TreeFacts
  <2>2. Tree(dk)[d] # Nil /\ Inode(dk, d).kind # "dir" => Tree(dk)[d].ents = NoEntries
    BY <2>1 DEF Tree, NodeOf
  <2>3. \A k \in Name : NoEntries[k] # i
    BY <1>1 DEF NoEntries
  <2> QED BY <2>1, <2>2, <2>3 DEF Allocated
<1>3. {x \in Allocated \X Name :
         /\ Inode(dk, x[1]).kind = "dir"
         /\ Ents(dk, x[1])[x[2]] = i} = Refs(Tree(dk), i)
  BY <1>2 DEF Refs, Positions, Allocated
<1>4. Cardinality(Refs(Tree(dk), i)) = IF Tree(dk)[i] = Nil THEN 0 ELSE Tree(dk)[i].nlink
  BY DEF Precise, Exact
<1> QED BY <1>2, <1>3, <1>4

(* The link count of every inode is the number of entries that lead to it, *)
(* across inode cache, directory cache and device, after every call of     *)
(* every mount that has a block for each inode (link, unlink, rmdir and    *)
(* rename of ops.rs and lib.rs).                                           *)
THEOREM NlinkCountsEntriesAlways ==
    EnoughBlocks => (Spec => []NlinkCountsEntries)
<1> SUFFICES ASSUME EnoughBlocks
             PROVE  Spec => []NlinkCountsEntries
  OBVIOUS
<1>1. Init => Precise(Tree(dk))
  BY PreciseInit
<1>2. Inv /\ Precise(Tree(dk)) /\ [Next]_vars => Precise(Tree(dk))'
  <2> SUFFICES ASSUME Inv, Precise(Tree(dk)), [Next]_vars
               PROVE  Precise(Tree(dk))'
    OBVIOUS
  <2> QED BY PreciseNext
<1>3. Inv /\ Precise(Tree(dk)) => NlinkCountsEntries
  BY PreciseLinks
<1>4. Spec => []Inv
  BY InvAlways
<1> QED BY <1>1, <1>2, <1>3, <1>4, PTL DEF Spec

-----------------------------------------------------------------------------
(* What users see of a tree, with h and d the open handles.                *)
Shown(f, h, d) ==
    [i \in Ino |-> IF f[i] # Nil /\ f[i].nlink + h[i] + d[i] = 0 THEN Nil ELSE f[i]]

(* Shown is what FileSystem calls Live.                                    *)
LEMMA AbsLive ==
    ASSUME NEW f, NEW h, NEW d
    PROVE  Abs!Live(f, h, d) = Shown(f, h, d)
BY DEF Abs!Live, Shown

(* What disappears had neither a link nor a handle.                        *)
LEMMA ShownFacts ==
    ASSUME NEW f \in Trees, NEW h \in [Ino -> Nat], NEW d \in [Ino -> Nat],
           NEW g, g = Shown(f, h, d)
    PROVE  /\ g \in Trees /\ Calm(f, g)
           /\ \A i \in Ino :
                /\ g[i] # Nil => g[i] = f[i]
                /\ g[i] = Nil /\ f[i] # Nil => f[i].nlink = 0 /\ h[i] = 0 /\ d[i] = 0
                /\ f[i] # Nil /\ (f[i].nlink > 0 \/ h[i] > 0 \/ d[i] > 0) => g[i] = f[i]
<1>1. \A i \in Ino : f[i] # Nil => f[i] \in Nodes /\ f[i].nlink \in Nat
  BY DEF Trees, Nodes
<1>2. \A i \in Ino : h[i] \in Nat /\ d[i] \in Nat
  OBVIOUS
<1>3. \A i \in Ino : g[i] = IF f[i] # Nil /\ f[i].nlink + h[i] + d[i] = 0 THEN Nil ELSE f[i]
  BY DEF Shown
<1>4. ASSUME NEW i \in Ino, g[i] = Nil, f[i] # Nil
      PROVE  f[i].nlink = 0 /\ h[i] = 0 /\ d[i] = 0
  <2>1. f[i].nlink \in Nat /\ h[i] \in Nat /\ d[i] \in Nat
    BY <1>1, <1>2, <1>4
  <2>2. g[i] = IF f[i] # Nil /\ f[i].nlink + h[i] + d[i] = 0 THEN Nil ELSE f[i]
    BY <1>3
  <2> QED BY <2>1, <2>2, <1>4
<1>5. ASSUME NEW i \in Ino, f[i] # Nil, f[i].nlink > 0 \/ h[i] > 0 \/ d[i] > 0
      PROVE  g[i] = f[i]
  <2>1. f[i].nlink \in Nat /\ h[i] \in Nat /\ d[i] \in Nat
    BY <1>1, <1>2, <1>5
  <2>2. g[i] = IF f[i] # Nil /\ f[i].nlink + h[i] + d[i] = 0 THEN Nil ELSE f[i]
    BY <1>3
  <2> QED BY <2>1, <2>2, <1>5
<1>6. g \in Trees
  BY DEF Shown, Trees
<1>7. \A i \in Ino : g[i] = f[i] \/ (f[i] # Nil /\ g[i] = Nil)
  BY <1>3
<1>8. Calm(f, g)
  BY <1>4, <1>7 DEF Calm
<1> QED BY <1>4, <1>5, <1>6, <1>7, <1>8

(* Users cannot see whether a node without links and handles has been      *)
(* freed yet.                                                              *)
LEMMA ShownCalm ==
    ASSUME EnoughBlocks, NEW f \in Trees, NEW g \in Trees, Calm(f, g),
           NEW h \in [Ino -> Nat], NEW d \in [Ino -> Nat],
           \A i \in Ino : g[i] = Nil => h[i] = 0 /\ d[i] = 0
    PROVE  Shown(g, h, d) = Shown(f, h, d)
<1> SUFFICES ASSUME NEW i \in Ino
             PROVE  (IF g[i] # Nil /\ g[i].nlink + h[i] + d[i] = 0 THEN Nil ELSE g[i])
                    = (IF f[i] # Nil /\ f[i].nlink + h[i] + d[i] = 0 THEN Nil ELSE f[i])
  BY DEF Shown
<1>1. g[i] = f[i] \/ (f[i] # Nil /\ f[i].nlink = 0 /\ g[i] = Nil)
  BY DEF Calm
<1>2. CASE g[i] = f[i]
  BY <1>2
<1>3. CASE f[i] # Nil /\ f[i].nlink = 0 /\ g[i] = Nil
  BY <1>3
<1> QED BY <1>1, <1>2, <1>3

(* The view of DonkeyFuse, of any state.                                   *)
Seen(s) ==
    [i \in Ino |->
       IF InUse(s, i)
       THEN [kind |-> Inode(s, i).kind, nlink |-> Inode(s, i).nlink,
             suid |-> Inode(s, i).suid,
             size |-> IF Inode(s, i).kind = "dir" THEN 0 ELSE Inode(s, i).size,
             ents |-> IF Inode(s, i).kind = "dir" THEN Ents(s, i) ELSE NoEntries]
       ELSE Nil]

(* View is Seen, now and after a step.                                     *)
LEMMA ViewSeen == View = Seen(dk) /\ View' = Seen(dk')
BY DEF View, Seen

(* Handles are for allocated inodes.                                       *)
LEMMA HandlesOK ==
    ASSUME NEW s, Fine(s)
    PROVE  /\ s.fh \in [Ino -> Nat] /\ s.dh \in [Ino -> Nat]
           /\ \A i \in Ino : Tree(s)[i] = Nil => s.fh[i] = 0 /\ s.dh[i] = 0
<1>1. Coherent(s, {})
  BY DEF Fine, Good
<1>2. s.fh \in [Ino -> Nat] /\ s.dh \in [Ino -> Nat]
  BY <1>1 DEF Coherent, State
<1>3. ASSUME NEW i \in Ino, Tree(s)[i] = Nil
      PROVE  s.fh[i] = 0 /\ s.dh[i] = 0
  <2>1. ~(s.fh[i] > 0 \/ s.dh[i] > 0)
    BY <1>3, Handled
  <2>2. s.fh[i] \in Nat /\ s.dh[i] \in Nat
    BY <1>2
  <2> QED BY <2>1, <2>2
<1> QED BY <1>2, <1>3

(* What users see is what the tree shows.                                  *)
LEMMA SeenShown ==
    ASSUME NEW s, Fine(s)
    PROVE  Seen(s) = Shown(Tree(s), s.fh, s.dh)
<1>1. Coherent(s, {}) /\ s.fh \in [Ino -> Nat] /\ s.dh \in [Ino -> Nat]
  BY HandlesOK DEF Fine, Good
<1> SUFFICES ASSUME NEW i \in Ino
             PROVE  Seen(s)[i] = Shown(Tree(s), s.fh, s.dh)[i]
  BY DEF Seen, Shown
<1>2. Seen(s)[i] = IF InUse(s, i) THEN NodeOf(s, i) ELSE Nil
  BY DEF Seen, NodeOf
<1>3. Shown(Tree(s), s.fh, s.dh)[i] =
        IF Tree(s)[i] # Nil /\ Tree(s)[i].nlink + s.fh[i] + s.dh[i] = 0 THEN Nil ELSE Tree(s)[i]
  BY DEF Shown
<1>4. /\ Tree(s)[i] = Nil <=> i \in s.ifree
      /\ Tree(s)[i] # Nil => Tree(s)[i].nlink = Inode(s, i).nlink /\ Tree(s)[i].nlink \in Nat
  BY <1>1, TreeFacts DEF Nodes
<1>5. Tree(s)[i] # Nil => Tree(s)[i] = NodeOf(s, i)
  BY DEF Tree
<1>6. Inode(s, i).kind = "free" <=> i \in s.ifree
  <2>1. Sound(s, i, {})
    BY <1>1 DEF Coherent
  <2> QED BY <2>1 DEF Sound, Inode, FreeSlot
<1>7. s.fh[i] \in Nat /\ s.dh[i] \in Nat
  BY <1>1
<1> QED BY <1>2, <1>3, <1>4, <1>5, <1>6, <1>7 DEF InUse

(* The facts about the view that the steps need.                           *)
LEMMA ViewFacts ==
    ASSUME Now
    PROVE  /\ View \in Trees /\ Calm(Tree(dk), View) /\ Counted(View) /\ Precise(View) /\ Sane(View)
           /\ View = Shown(Tree(dk), dk.fh, dk.dh)
           /\ dk.fh \in [Ino -> Nat] /\ dk.dh \in [Ino -> Nat]
           /\ \A i \in Ino :
                /\ View[i] # Nil => View[i] = Tree(dk)[i]
                /\ View[i] = Nil => dk.fh[i] = 0 /\ dk.dh[i] = 0
                /\ Vacant(dk, i) => View[i] = Nil
                /\ Tree(dk)[i] # Nil /\ (Tree(dk)[i].nlink > 0 \/ dk.fh[i] > 0 \/ dk.dh[i] > 0) =>
                     View[i] = Tree(dk)[i]
<1>0. EnoughBlocks /\ Fine(dk) /\ Precise(Tree(dk)) /\ Tree(dk)[Root] # Nil
      /\ Tree(dk) \in Trees /\ Counted(Tree(dk)) /\ Sane(Tree(dk))
  BY SaneRoot DEF Now
<1>1. View = Shown(Tree(dk), dk.fh, dk.dh)
  BY <1>0, ViewSeen, SeenShown
<1>2. dk.fh \in [Ino -> Nat] /\ dk.dh \in [Ino -> Nat]
      /\ \A i \in Ino : Tree(dk)[i] = Nil => dk.fh[i] = 0 /\ dk.dh[i] = 0
  BY <1>0, HandlesOK
<1>3. /\ View \in Trees /\ Calm(Tree(dk), View)
      /\ \A i \in Ino :
           /\ View[i] # Nil => View[i] = Tree(dk)[i]
           /\ View[i] = Nil /\ Tree(dk)[i] # Nil =>
                Tree(dk)[i].nlink = 0 /\ dk.fh[i] = 0 /\ dk.dh[i] = 0
           /\ Tree(dk)[i] # Nil /\ (Tree(dk)[i].nlink > 0 \/ dk.fh[i] > 0 \/ dk.dh[i] > 0) =>
                View[i] = Tree(dk)[i]
  BY <1>0, <1>1, <1>2, ShownFacts
<1>4. Counted(View) /\ Safe(Tree(dk), View, Positions)
  BY <1>0, <1>3, CalmCounted
<1>5. Sane(View)
  <2>1. RootLink \in Positions
    BY AnchorsOK
  <2> QED BY <2>1, <1>0, <1>4, SafeSane
<1>6. View[Root] # Nil
  BY <1>5 DEF Sane, Rooted, Held
<1>7. Precise(View)
  BY <1>0, <1>3, <1>6, CalmPrecise
<1>8. ASSUME NEW i \in Ino, Vacant(dk, i)
      PROVE  View[i] = Nil
  <2>1. View[i] = IF Tree(dk)[i] # Nil /\ Tree(dk)[i].nlink + dk.fh[i] + dk.dh[i] = 0 THEN Nil
                  ELSE Tree(dk)[i]
    BY <1>1 DEF Shown
  <2> QED BY <1>8, <2>1 DEF Vacant
<1> QED BY <1>1, <1>2, <1>3, <1>4, <1>5, <1>7, <1>8

(* After a step that makes f of the tree, and would make g of what users   *)
(* see of it, users see g without what the new handles do not hold.        *)
LEMMA HandlesBecoming ==
    ASSUME Now, Fine(dk'), NEW f \in Trees, Calm(f, Tree(dk')), NEW g \in Trees, Calm(f, g),
           \A i \in Ino : g[i] = Nil => dk'.fh[i] = 0 /\ dk'.dh[i] = 0
    PROVE  View' = Shown(g, dk'.fh, dk'.dh)
<1>0. EnoughBlocks /\ Tree(dk') \in Trees
  BY SaneRoot DEF Now
<1>1. View' = Shown(Tree(dk'), dk'.fh, dk'.dh)
  BY ViewSeen, SeenShown
<1>2. dk'.fh \in [Ino -> Nat] /\ dk'.dh \in [Ino -> Nat]
      /\ \A i \in Ino : Tree(dk')[i] = Nil => dk'.fh[i] = 0 /\ dk'.dh[i] = 0
  BY HandlesOK
<1>3. Shown(Tree(dk'), dk'.fh, dk'.dh) = Shown(f, dk'.fh, dk'.dh)
  BY <1>0, <1>2, ShownCalm
<1>5. Shown(g, dk'.fh, dk'.dh) = Shown(f, dk'.fh, dk'.dh)
  BY <1>0, <1>2, ShownCalm
<1> QED BY <1>1, <1>3, <1>5

(* The same for a step that opens and releases no handle.                  *)
LEMMA Becoming ==
    ASSUME Now, Fine(dk'), Quiet, NEW f \in Trees, Calm(f, Tree(dk')),
           NEW g \in Trees, Calm(f, g), \A i \in Ino : g[i] = Nil => View[i] = Nil
    PROVE  View' = Shown(g, dk.fh, dk.dh)
<1>1. dk'.fh = dk.fh /\ dk'.dh = dk.dh
  BY DEF Quiet
<1>2. \A i \in Ino : g[i] = Nil => dk'.fh[i] = 0 /\ dk'.dh[i] = 0
  BY <1>1, ViewFacts
<1>3. View' = Shown(g, dk'.fh, dk'.dh)
  BY <1>2, HandlesBecoming
<1> QED BY <1>1, <1>3

(* A step that only works off close lists shows nothing.                   *)
LEMMA Hidden ==
    ASSUME Now, Fine(dk'), dk'.fh = dk.fh, dk'.dh = dk.dh, Calm(Tree(dk), Tree(dk'))
    PROVE  UNCHANGED Abs!vars
<1>1. /\ View = Shown(Tree(dk), dk.fh, dk.dh) /\ View \in Trees /\ Calm(Tree(dk), View)
      /\ dk.fh \in [Ino -> Nat] /\ dk.dh \in [Ino -> Nat]
      /\ \A i \in Ino : View[i] = Nil => dk.fh[i] = 0 /\ dk.dh[i] = 0
  BY ViewFacts
<1>2. Tree(dk) \in Trees /\ EnoughBlocks
  BY SaneRoot DEF Now
<1>3. View' = Shown(View, dk.fh, dk.dh)
  BY <1>1, <1>2, HandlesBecoming
<1>4. Shown(View, dk.fh, dk.dh) = Shown(Tree(dk), dk.fh, dk.dh)
  BY <1>1, <1>2, ShownCalm
<1> QED BY <1>1, <1>3, <1>4 DEF Abs!vars

(* The same for handlers that return.                                      *)
LEMMA Unseen ==
    ASSUME Now, Fine(dk'), Quiet, Calm(Tree(dk), Tree(dk'))
    PROVE  UNCHANGED Abs!vars
BY Hidden DEF Quiet

-----------------------------------------------------------------------------
(* The new nodes of FileSystem are those of the library.                   *)
LEMMA AbsNew ==
    ASSUME NEW f, NEW i, NEW kind
    PROVE  /\ Abs!Node(kind, 0) = NewNode(kind)
           /\ [f EXCEPT ![i] = Abs!Node(kind, 0)] = Grown(f, i, kind)
BY DEF Abs!Node, Abs!Name, Name, NewNode, NoEntries, Grown

(* So is the end of a name,                                                *)
LEMMA AbsDrop ==
    ASSUME NEW f, Counted(f), NEW p \in Ino, f[p] # Nil, NEW n \in Name, f[p].ents[n] # Nil
    PROVE  Abs!WithoutName(f, p, n) = Drop(f, p, n)
<1> DEFINE i == f[p].ents[n]
           e == SetName(f, p, n, Nil)
<1>1. i \in Ino /\ f[i] # Nil /\ f[i].nlink \in Nat /\ f \in Trees
  BY EntryHeld DEF Counted
<1>2. /\ e \in Trees /\ e[p] # Nil /\ \A d \in Ino \ {p} : e[d] = f[d]
      /\ e[p].nlink = f[p].nlink
  BY <1>1, SetNameFields
<1>3. e[i] \in Nodes /\ e[i].nlink \in Nat
  BY <1>1, <1>2 DEF Trees, Nodes
<1>4. e[i].nlink - 1 = e[i].nlink + (-1)
  BY <1>3
<1>5. Abs!WithoutName(f, p, n) = [e EXCEPT ![i].nlink = @ - 1]
  BY DEF Abs!WithoutName, SetName
<1>6. Drop(f, p, n) = [e EXCEPT ![i].nlink = @ + (-1)]
  BY DEF Drop, WithoutName, AddLinks
<1> HIDE DEF e, i
<1>7. [e EXCEPT ![i].nlink = @ - 1] = [e EXCEPT ![i].nlink = @ + (-1)]
  BY <1>4
<1> QED BY <1>5, <1>6, <1>7

(* the end of an empty directory,                                          *)
LEMMA AbsDropDir ==
    ASSUME NEW f, Counted(f), Precise(f), NEW p \in Ino, f[p] # Nil, NEW n \in Names,
           NEW j, j = f[p].ents[n], j # Nil, f[j].kind = "dir", Count(f[j].ents) = 2
    PROVE  Abs!WithoutDir(f, p, n) = DropDir(f, j, p, n) /\ Abs!Empty(f, j)
<1> DEFINE g1 == Drop(f, j, ".")
           g2 == Drop(g1, j, "..")
<1>1. n \in Name /\ "." \in Name /\ ".." \in Name /\ "." \notin Names /\ ".." \notin Names /\ "." # ".."
      /\ Names \subseteq Name
  BY NamesOK
<1>2. /\ j \in Ino /\ j # Root
      /\ f[j].ents["."] # Nil /\ f[j].ents[".."] # Nil
      /\ \A m \in Names : f[j].ents[m] = Nil
  BY DropDirPrecise
<1>3. f[j] # Nil /\ f[p].ents[n] # Nil
  BY <1>1, EntryHeld
<1>4. g1 = Abs!WithoutName(f, j, ".")
  BY <1>1, <1>2, <1>3, AbsDrop
<1>5. /\ Counted(g1) /\ Kin(f, g1)
      /\ \A d \in Ino, k \in Name : Leads(g1, d, k) = IF d = j /\ k = "." THEN Nil ELSE Leads(f, d, k)
  BY <1>1, <1>2, <1>3, LeadsDrop
<1> HIDE DEF g1
<1>6. g1[j] # Nil /\ g1[j].ents[".."] # Nil
  <2>1. g1[j] # Nil
    BY <1>2, <1>3, <1>5 DEF Kin
  <2>2. Leads(g1, j, "..") = Leads(f, j, "..")
    BY <1>1, <1>2, <1>5
  <2> QED BY <2>1, <2>2, <1>2, <1>3 DEF Leads
<1>7. g2 = Abs!WithoutName(g1, j, "..")
  BY <1>1, <1>2, <1>5, <1>6, AbsDrop
<1>8. /\ Counted(g2) /\ Kin(g1, g2)
      /\ \A d \in Ino, k \in Name : Leads(g2, d, k) = IF d = j /\ k = ".." THEN Nil ELSE Leads(g1, d, k)
  BY <1>1, <1>2, <1>5, <1>6, LeadsDrop
<1> HIDE DEF g2
<1>9. g2[p] # Nil /\ g2[p].ents[n] # Nil
  <2>1. g2[p] # Nil
    BY <1>5, <1>8 DEF Kin
  <2>2. Leads(g2, p, n) = Leads(f, p, n)
    BY <1>1, <1>5, <1>8
  <2> QED BY <2>1, <2>2, <1>3 DEF Leads
<1>10. Drop(g2, p, n) = Abs!WithoutName(g2, p, n)
  BY <1>1, <1>8, <1>9, AbsDrop
<1>11. Abs!WithoutDir(f, p, n) = DropDir(f, j, p, n)
  BY <1>4, <1>7, <1>10 DEF Abs!WithoutDir, DropDir, g1, g2
<1>12. Abs!Empty(f, j)
  BY <1>1, <1>2 DEF Abs!Empty, Abs!Name
<1> QED BY <1>11, <1>12

(* and what rename does at the new name.                                   *)
LEMMA AbsVacated ==
    ASSUME NEW f, Counted(f), Precise(f), NEW q \in Ino, f[q] # Nil, NEW m \in Names,
           NEW j, j = f[q].ents[m], j # Nil /\ f[j].kind = "dir" => Count(f[j].ents) = 2
    PROVE  /\ Vacated(f, q, m) = IF j = Nil THEN f
                                 ELSE IF f[j].kind = "dir" THEN Abs!WithoutDir(f, q, m)
                                 ELSE Abs!WithoutName(f, q, m)
           /\ j # Nil /\ f[j].kind = "dir" => Abs!Empty(f, j)
<1>0. m \in Name
  BY NamesOK
<1>1. CASE j = Nil
  BY <1>1 DEF Vacated
<1>2. CASE j # Nil /\ f[j].kind = "dir"
  <2>1. Abs!WithoutDir(f, q, m) = DropDir(f, j, q, m) /\ Abs!Empty(f, j)
    BY <1>2, AbsDropDir
  <2> QED BY <1>2, <2>1 DEF Vacated
<1>3. CASE j # Nil /\ f[j].kind # "dir"
  <2>1. Abs!WithoutName(f, q, m) = Drop(f, q, m)
    BY <1>0, <1>3, AbsDrop
  <2> QED BY <1>3, <2>1 DEF Vacated
<1> QED BY <1>1, <1>2, <1>3

(* A tree with a new node.                                                 *)
LEMMA GrownFields ==
    ASSUME NEW f \in Trees, NEW i \in Ino, NEW kind \in {"file", "dir"},
           NEW g, g = Grown(f, i, kind)
    PROVE  g \in Trees /\ g[i] = NewNode(kind) /\ g[i] # Nil /\ \A d \in Ino \ {i} : g[d] = f[d]
<1>1. NewNode(kind) \in Nodes /\ NewNode(kind) # Nil
  BY NewNodeType, NodeAssumption
<1> QED BY <1>1 DEF Grown, Trees

(* The order of two attributes does not matter.                            *)
LEMMA LinkThenSize ==
    ASSUME NEW m \in Nodes, NEW z
    PROVE  [[m EXCEPT !.nlink = 1] EXCEPT !.size = z] = [[m EXCEPT !.size = z] EXCEPT !.nlink = 1]
BY DEF Nodes

(* A new symbolic link with its target, still without a name.              *)
Target(f, i, z) == [f EXCEPT ![i] = [NewNode("file") EXCEPT !.size = z]]
(* symlink writes the target after it made the name; FileSystem does it    *)
(* before.                                                                 *)
LEMMA SizeFirst ==
    ASSUME NEW f \in Trees, NEW p \in Ino, f[p] # Nil, NEW n \in Name, NEW i \in Ino, i # p,
           NEW z \in 0 .. 1
    PROVE  SetSize(WithName(Grown(f, i, "file"), p, n, i), i, z) = WithName(Target(f, i, z), p, n, i)
<1> DEFINE N  == NewNode("file")
           a  == Grown(f, i, "file")
           a1 == SetName(a, p, n, i)
           a2 == AddLinks(a1, i, 1)
           a3 == SetSize(a2, i, z)
           b  == Target(f, i, z)
           b1 == SetName(b, p, n, i)
           b2 == AddLinks(b1, i, 1)
           e  == [f[p].ents EXCEPT ![n] = i]
<1>1. N \in Nodes /\ N # Nil /\ N.nlink = 0 /\ [N EXCEPT !.size = z] \in Nodes
      /\ [N EXCEPT !.size = z].nlink = 0
  BY NewNodeType, NodeAssumption DEF NewNode, Nodes
<1>2. a \in Trees /\ a[i] = N /\ a[i] # Nil /\ \A d \in Ino \ {i} : a[d] = f[d]
  BY GrownFields
<1>3. b \in Trees /\ b[i] = [N EXCEPT !.size = z] /\ b[i] # Nil /\ \A d \in Ino \ {i} : b[d] = f[d]
  BY <1>1, NodeAssumption DEF Trees, Target
<1>4. b = Target(f, i, z)
  OBVIOUS
<1> HIDE DEF a, b, N
<1>5. a[p] = f[p] /\ b[p] = f[p] /\ a[p] # Nil /\ b[p] # Nil
  BY <1>2, <1>3
<1>6. /\ a1 \in Trees /\ a1[p] = [f[p] EXCEPT !.ents = e] /\ \A d \in Ino \ {p} : a1[d] = a[d]
  BY <1>2, <1>5, SetNameOK
<1>7. /\ b1 \in Trees /\ b1[p] = [f[p] EXCEPT !.ents = e] /\ \A d \in Ino \ {p} : b1[d] = b[d]
  BY <1>3, <1>5, SetNameOK, SMTT(30)
<1> HIDE DEF a1, b1
<1>8. a1[i] = a[i] /\ b1[i] = b[i]
  BY <1>6, <1>7
<1>9. /\ a1[i] # Nil /\ a1[i].nlink = 0 /\ b1[i] # Nil /\ b1[i].nlink = 0
      /\ 1 \in Int /\ 0 + 1 = 1 /\ 1 \in Nat
  BY <1>1, <1>2, <1>3, <1>8
<1>10. /\ a2 \in Trees /\ a2[i] # Nil /\ a2[i] = [a[i] EXCEPT !.nlink = 1]
       /\ \A d \in Ino \ {i} : a2[d] = a1[d]
  <2>1. a2 \in Trees /\ a2[i] # Nil
    BY <1>6, <1>9, AddLinksFields
  <2>2. a2[i] = [a1[i] EXCEPT !.nlink = a1[i].nlink + 1] /\ \A d \in Ino \ {i} : a2[d] = a1[d]
    BY <1>6, <1>9, AddLinksOK
  <2> QED BY <2>1, <2>2, <1>8, <1>9
<1>11. b2 \in Trees /\ b2[i] = [b[i] EXCEPT !.nlink = 1] /\ \A d \in Ino \ {i} : b2[d] = b1[d]
  <2>1. b2 \in Trees
    BY <1>7, <1>9, AddLinksFields
  <2>2. b2[i] = [b1[i] EXCEPT !.nlink = b1[i].nlink + 1] /\ \A d \in Ino \ {i} : b2[d] = b1[d]
    BY <1>7, <1>9, AddLinksOK
  <2> QED BY <2>1, <2>2, <1>8, <1>9
<1> HIDE DEF a2, b2
<1> HIDE DEF e
<1>12. a3 \in Trees /\ a3[i] = [a2[i] EXCEPT !.size = z] /\ \A d \in Ino \ {i} : a3[d] = a2[d]
  <2> HIDE DEF a3
  <2>1. a3 = SetSize(a2, i, z) /\ a2 \in Trees /\ a2[i] # Nil
    BY <1>10 DEF a3
  <2>2. /\ SetSize(a2, i, z) \in Trees /\ SetSize(a2, i, z)[i] = [a2[i] EXCEPT !.size = z]
        /\ \A d \in Ino \ {i} : SetSize(a2, i, z)[d] = a2[d]
    BY <2>1, SetSizeTree, ZenonT(60)
  <2> QED BY <2>1, <2>2
<1> HIDE DEF a3
<1>13. a3[i] = b2[i]
  <2>1. a2[i] = [a[i] EXCEPT !.nlink = 1] /\ a[i] = N
    BY <1>2, <1>10
  <2>2. a3[i] = [a2[i] EXCEPT !.size = z]
    BY <1>12
  <2>3. b[i] = [N EXCEPT !.size = z]
    BY <1>3
  <2>4. b2[i] = [b[i] EXCEPT !.nlink = 1]
    BY <1>11
  <2>5. b2[i] = [[N EXCEPT !.size = z] EXCEPT !.nlink = 1]
    BY <2>3, <2>4
  <2>6. a3[i] = [[N EXCEPT !.nlink = 1] EXCEPT !.size = z]
    BY <2>1, <2>2
  <2> QED BY <2>5, <2>6, <1>1, LinkThenSize
<1>14. \A d \in Ino : a3[d] = b2[d]
  <2> SUFFICES ASSUME NEW d \in Ino PROVE a3[d] = b2[d]
    OBVIOUS
  <2>1. CASE d = i
    BY <2>1, <1>13
  <2>2. CASE d = p /\ d # i
    BY <2>2, <1>6, <1>7, <1>10, <1>11, <1>12
  <2>3. CASE d # p /\ d # i
    BY <2>3, <1>2, <1>3, <1>6, <1>7, <1>10, <1>11, <1>12
  <2> QED BY <2>1, <2>2, <2>3
<1>15. a3 = b2
  <2>1. a3 \in [Ino -> Nodes \union {Nil}] /\ b2 \in [Ino -> Nodes \union {Nil}]
    BY <1>11, <1>12 DEF Trees
  <2> QED BY <2>1, <1>14
<1> QED BY <1>4, <1>15 DEF a3, a2, a1, a, b2, b1, b, WithName

(* rename makes of the view what it makes of the tree.                     *)
LEMMA CalmMoved ==
    ASSUME EnoughBlocks, NEW f, NEW g, Counted(f), Counted(g), Precise(f), Precise(g), Calm(f, g),
           NEW p \in Ino, g[p] # Nil, NEW n \in Names, NEW q \in Ino, g[q] # Nil, NEW m \in Names,
           NEW i, i = g[p].ents[n], i # Nil, NEW j, j = g[q].ents[m], i # j, i # q,
           j # Nil /\ g[j].kind = "dir" => Count(g[j].ents) = 2
    PROVE  /\ Moved(g, p, n, q, m, i) \in Trees /\ Calm(Moved(f, p, n, q, m, i), Moved(g, p, n, q, m, i))
           /\ Kin(g, Moved(g, p, n, q, m, i))
           /\ LET h == WithName(Vacated(g, q, m), q, m, i)
              IN  Counted(h) /\ h[p] # Nil /\ h[p].ents[n] # Nil
<1> DEFINE f0 == Vacated(f, q, m)
           g0 == Vacated(g, q, m)
           f1 == WithName(f0, q, m, i)
           g1 == WithName(g0, q, m, i)
<1>0. m \in Name /\ n \in Name /\ Names \subseteq Name /\ Leads(g, p, n) = i /\ Leads(g, q, m) = j
      /\ f \in Trees /\ g \in Trees
  BY NamesOK DEF Leads, Counted
<1>1. \A d \in Ino : g[d] # Nil => g[d] = f[d] /\ f[d] # Nil
  BY DEF Calm
<1>2. i \in Ino /\ g[i] # Nil /\ i # Root /\ ~(p = q /\ n = m)
  <2>1. i \in Ino /\ g[i] # Nil
    BY <1>0, EntryHeld
  <2> QED BY <2>1 DEF Counted, Proper
<1>3. j # Nil => j \in Ino /\ g[j] # Nil
  BY <1>0, EntryHeld
<1>4. f[q] = g[q] /\ f[p] = g[p] /\ f[q] # Nil /\ f[p] # Nil /\ j = f[q].ents[m] /\ i = f[p].ents[n]
      /\ (j # Nil => f[j] = g[j]) /\ (j # Nil /\ f[j].kind = "dir" => Count(f[j].ents) = 2)
  BY <1>1, <1>3
<1>5. /\ Counted(g0) /\ g0 \in Trees /\ Precise(g0) /\ Kin(g, g0)
      /\ Leads(g0, q, m) = Nil
      /\ \A d \in Ino, k \in Names :
            Leads(g0, d, k) = IF d = q /\ k = m THEN Nil ELSE Leads(g, d, k)
  BY VacatedPrecise
<1>6. Counted(f0) /\ f0 \in Trees /\ Precise(f0) /\ Kin(f, f0) /\ Leads(f0, q, m) = Nil
  BY <1>4, VacatedPrecise
<1>7. Calm(f0, g0)
  <2>1. CASE j = Nil
    BY <2>1, <1>4 DEF Vacated
  <2>2. CASE j # Nil /\ g[j].kind = "dir"
    <3>1. Calm(DropDir(f, j, q, m), DropDir(g, j, q, m))
      BY <1>0, <1>3, <2>2, CalmDropDir
    <3> QED BY <3>1, <2>2, <1>4 DEF Vacated
  <2>3. CASE j # Nil /\ g[j].kind # "dir"
    <3>1. Calm(Drop(f, q, m), Drop(g, q, m))
      BY <1>0, CalmDrop
    <3> QED BY <3>1, <2>3, <1>4 DEF Vacated
  <2> QED BY <2>1, <2>2, <2>3
<1> HIDE DEF f0, g0
<1>8. g0[q] # Nil /\ g0[i] # Nil /\ g0[q].ents[m] = Nil /\ g0[p] # Nil /\ Leads(g0, p, n) = i
  <2>1. g0[q] # Nil /\ g0[i] # Nil /\ g0[p] # Nil
    BY <1>2, <1>5 DEF Kin
  <2>2. g0[q].ents[m] = Nil
    BY <2>1, <1>5 DEF Leads
  <2>3. Leads(g0, p, n) = i
    BY <1>0, <1>2, <1>5
  <2> QED BY <2>1, <2>2, <2>3
<1>9. Calm(f1, g1)
  BY <1>0, <1>2, <1>5, <1>6, <1>7, <1>8, CalmWithName
<1>10. Counted(g1)
  BY <1>0, <1>2, <1>5, <1>8, WithNameCounted
<1>11. /\ g1 \in Trees /\ Kin(g0, g1)
       /\ \A d \in Ino, k \in Name : Leads(g1, d, k) = IF d = q /\ k = m THEN i ELSE Leads(g0, d, k)
  BY <1>0, <1>2, <1>5, <1>8, LeadsWithName
<1>12. f0[q] # Nil /\ f0[i] # Nil
  BY <1>1, <1>2, <1>4, <1>6 DEF Kin
<1>13. f1 \in Trees
  BY <1>0, <1>2, <1>6, <1>12, LeadsWithName
<1> HIDE DEF f1, g1
<1>14. g1[p] # Nil /\ g1[p].ents[n] # Nil
  <2>1. g1[p] # Nil
    BY <1>8, <1>11 DEF Kin
  <2>2. Leads(g1, p, n) = i
    BY <1>0, <1>2, <1>8, <1>11
  <2> QED BY <2>1, <2>2 DEF Leads
<1>15. Calm(Drop(f1, p, n), Drop(g1, p, n))
  BY <1>0, <1>9, <1>10, <1>13, <1>14, CalmDropTrees
<1>16. Drop(g1, p, n) \in Trees /\ Kin(g1, Drop(g1, p, n))
  BY <1>0, <1>10, <1>14, LeadsDrop
<1>17. Kin(g, Drop(g1, p, n))
  BY <1>5, <1>11, <1>16 DEF Kin
<1> QED BY <1>10, <1>14, <1>15, <1>16, <1>17 DEF Moved, f0, g0, f1, g1

-----------------------------------------------------------------------------
(* Users see the inodes on which the kernel makes calls,                   *)
LEMMA UsedViewed ==
    ASSUME Now, NEW i \in Used
    PROVE  /\ i \in Ino /\ Tree(dk)[i] # Nil /\ View[i] = Tree(dk)[i] /\ View[i] # Nil
           /\ View[i].kind = Inode(dk, i).kind
           /\ View[i].nlink \in Nat /\ View[i].nlink + dk.fh[i] + dk.dh[i] > 0
<1>0. i \in Ino /\ InUse(dk, i) /\ Fine(dk) /\ Coherent(dk, {})
  BY DEF Used, Now, Fine, Good
<1>1. Tree(dk)[i] # Nil /\ Tree(dk)[i] \in Nodes /\ Tree(dk)[i].kind = Inode(dk, i).kind
  BY <1>0, UsedPinned
<1>2. Tree(dk)[i].nlink = Inode(dk, i).nlink /\ Tree(dk)[i].nlink \in Nat
  BY <1>0, <1>1, TreeFacts DEF Nodes
<1>3. Inode(dk, i).nlink + dk.fh[i] + dk.dh[i] > 0
  BY <1>0 DEF InUse
<1>4. dk.fh[i] \in Nat /\ dk.dh[i] \in Nat
  BY <1>0, HandlesOK
<1>5. Tree(dk)[i].nlink > 0 \/ dk.fh[i] > 0 \/ dk.dh[i] > 0
  BY <1>2, <1>3, <1>4
<1>6. View[i] = Tree(dk)[i]
  BY <1>0, <1>1, <1>5, ViewFacts
<1> QED BY <1>0, <1>1, <1>2, <1>3, <1>6

(* the directories in which it does,                                       *)
LEMMA PlaceViewed ==
    ASSUME Now, NEW p \in Dirs
    PROVE  /\ p \in Ino /\ View[p] = Tree(dk)[p] /\ View[p] # Nil /\ View[p].kind = "dir"
           /\ Tree(dk)[p] # Nil /\ p \in Abs!Dirs
           /\ p = Root \/ Named(View, p)
<1>0. p \in Used /\ IsDir(p) /\ Fine(dk)
  BY DEF Dirs, Now
<1>1. p \in Ino /\ View[p] = Tree(dk)[p] /\ View[p] # Nil /\ View[p].kind = "dir"
  BY <1>0, UsedViewed DEF IsDir
<1>2. p = Root \/ Named(Tree(dk), p)
  BY <1>0, PlaceNamed
<1>3. View[Root] # Nil /\ Calm(Tree(dk), View) /\ Precise(Tree(dk)) /\ EnoughBlocks
  BY ViewFacts DEF Now, Sane, Rooted, Held
<1>4. Named(View, p) <=> Named(Tree(dk), p)
  BY <1>1, <1>3, CalmPrecise
<1> QED BY <1>1, <1>2, <1>4 DEF Abs!Dirs

(* and the files.                                                          *)
LEMMA FileViewed ==
    ASSUME Now, NEW i \in Files
    PROVE  /\ i \in Ino /\ View[i] = Tree(dk)[i] /\ View[i] # Nil /\ View[i].kind = "file"
           /\ Tree(dk)[i] # Nil /\ i \in Abs!Files /\ i \in Used
<1>0. i \in Used /\ Fine(dk)
  BY DEF Files, Now
<1>1. i \in Ino /\ View[i] = Tree(dk)[i] /\ View[i] # Nil /\ Tree(dk)[i] # Nil
  BY <1>0, UsedViewed
<1>2. Tree(dk)[i].kind = "file"
  BY <1>0, FileUsed
<1> QED BY <1>0, <1>1, <1>2 DEF Abs!Files

(* The calls that change the tree leave the handles alone.                 *)
LEMMA AbsChange ==
    ASSUME Quiet, Abs!Change
    PROVE  Abs!Next
BY DEF Abs!Next, Quiet

-----------------------------------------------------------------------------
(* mknod, which may also run out of inodes.                                *)
LEMMA MknodSim ==
    ASSUME Now, NEW p \in Dirs, NEW n \in Names, FuseMknod(p, n)
    PROVE  Abs!Next \/ UNCHANGED Abs!vars
<1>0. EnoughBlocks /\ Fine(dk) /\ Tree(dk) \in Trees /\ View \in Trees /\ Calm(Tree(dk), View)
      /\ n \in Name /\ "file" \in {"file", "dir"}
  BY SaneRoot, ViewFacts, NamesOK DEF Now
<1>1. /\ p \in Ino /\ View[p] = Tree(dk)[p] /\ View[p] # Nil /\ View[p].kind = "dir"
      /\ p \in Abs!Dirs
  BY PlaceViewed
<1>2. /\ Fine(dk') /\ Quiet /\ Tree(dk)[p].ents[n] = Nil
      /\ \/ Calm(Tree(dk), Tree(dk'))
         \/ \E i \in Ino :
              /\ Vacant(dk, i)
              /\ EnoughBlocks =>
                   /\ WithName(Grown(Tree(dk), i, "file"), p, n, i) \in Trees
                   /\ Calm(WithName(Grown(Tree(dk), i, "file"), p, n, i), Tree(dk'))
  BY <1>0, MknodStep
<1>3. CASE Calm(Tree(dk), Tree(dk'))
  BY <1>2, <1>3, Unseen
<1>4. ASSUME NEW i \in Ino, Vacant(dk, i), NEW f, f = WithName(Grown(Tree(dk), i, "file"), p, n, i),
             f \in Trees, Calm(f, Tree(dk'))
      PROVE  Abs!Next
  <2> DEFINE e == Grown(Tree(dk), i, "file")
             h == Grown(View, i, "file")
             g == WithName(h, p, n, i)
  <2>1. View[i] = Nil /\ i # p
    BY <1>1, <1>4, ViewFacts
  <2>2. h \in Trees /\ h[i] = NewNode("file") /\ h[i] # Nil /\ \A d \in Ino \ {i} : h[d] = View[d]
    BY <1>0, GrownFields
  <2>3. e \in Trees
    BY <1>0, GrownFields
  <2>4. Calm(e, h)
    BY <1>0, CalmNew DEF Grown
  <2> HIDE DEF h, e
  <2>5. h[p] # Nil
    BY <1>1, <2>1, <2>2
  <2>6. Calm(WithName(e, p, n, i), g)
    BY <1>0, <1>1, <2>2, <2>3, <2>4, <2>5, CalmWithName
  <2>7. g \in Trees /\ Kin(h, g)
    BY <1>0, <1>1, <2>2, <2>5, LeadsWithName
  <2>8. f = WithName(e, p, n, i)
    BY <1>4 DEF e
  <2> HIDE DEF g
  <2>9. \A d \in Ino : g[d] = Nil => View[d] = Nil
    BY <2>1, <2>2, <2>7 DEF Kin
  <2>10. View' = Shown(g, dk.fh, dk.dh)
    BY <1>2, <1>4, <2>6, <2>7, <2>8, <2>9, Becoming
  <2>11. g = Abs!WithName([View EXCEPT ![i] = Abs!Node("file", 0)], p, n, i)
    BY AbsNew, AbsNames DEF g, h
  <2>12. Abs!Mknod(p, n, i)
    BY <1>1, <1>2, <2>1, <2>10, <2>11, AbsLive DEF Abs!Mknod, Abs!New, Abs!Becomes
  <2>13. Abs!Change
    BY <1>1, <2>12 DEF Abs!Change
  <2> QED BY <1>2, <2>13, AbsChange
<1> QED BY <1>0, <1>2, <1>3, <1>4

(* symlink.                                                                *)
LEMMA SymlinkSim ==
    ASSUME Now, NEW p \in Dirs, NEW n \in Names, FuseSymlink(p, n)
    PROVE  Abs!Next \/ UNCHANGED Abs!vars
<1>0. EnoughBlocks /\ Fine(dk) /\ Tree(dk) \in Trees /\ View \in Trees /\ Calm(Tree(dk), View)
      /\ n \in Name /\ "file" \in {"file", "dir"}
  BY SaneRoot, ViewFacts, NamesOK DEF Now
<1>1. /\ p \in Ino /\ View[p] = Tree(dk)[p] /\ View[p] # Nil /\ View[p].kind = "dir"
      /\ p \in Abs!Dirs
  BY PlaceViewed
<1>2. /\ Fine(dk') /\ Quiet /\ Tree(dk)[p].ents[n] = Nil
      /\ \/ Calm(Tree(dk), Tree(dk'))
         \/ \E i \in Ino :
              /\ Vacant(dk, i)
              /\ EnoughBlocks =>
                   LET f == WithName(Grown(Tree(dk), i, "file"), p, n, i)
                   IN  /\ f \in Trees /\ f[i] # Nil
                       /\ \E z \in 0 .. 1 : /\ SetSize(f, i, z) \in Trees
                                            /\ Calm(SetSize(f, i, z), Tree(dk'))
  BY <1>0, SymlinkStep
<1>3. CASE Calm(Tree(dk), Tree(dk'))
  BY <1>2, <1>3, Unseen
<1>4. ASSUME NEW i \in Ino, Vacant(dk, i), NEW f, f = WithName(Grown(Tree(dk), i, "file"), p, n, i),
             f \in Trees, f[i] # Nil, NEW z \in 0 .. 1, SetSize(f, i, z) \in Trees,
             Calm(SetSize(f, i, z), Tree(dk'))
      PROVE  Abs!Next
  <2> DEFINE e == Grown(Tree(dk), i, "file")
             h == Grown(View, i, "file")
             g == WithName(h, p, n, i)
             k == SetSize(g, i, z)
  <2>1. View[i] = Nil /\ i # p
    BY <1>1, <1>4, ViewFacts
  <2>2. h \in Trees /\ h[i] = NewNode("file") /\ h[i] # Nil /\ \A d \in Ino \ {i} : h[d] = View[d]
    BY <1>0, GrownFields
  <2>3. e \in Trees
    BY <1>0, GrownFields
  <2>4. Calm(e, h)
    BY <1>0, CalmNew DEF Grown
  <2> HIDE DEF h, e
  <2>5. h[p] # Nil
    BY <1>1, <2>1, <2>2
  <2>6. Calm(WithName(e, p, n, i), g)
    BY <1>0, <1>1, <2>2, <2>3, <2>4, <2>5, CalmWithName
  <2>7. g \in Trees /\ Kin(h, g)
    BY <1>0, <1>1, <2>2, <2>5, LeadsWithName
  <2>8. f = WithName(e, p, n, i)
    BY <1>4 DEF e
  <2> HIDE DEF g
  <2>9. g[i] # Nil
    BY <2>2, <2>7 DEF Kin
  <2>10. Calm(SetSize(f, i, z), k)
    BY <1>0, <1>4, <2>6, <2>7, <2>8, <2>9, CalmAttrs
  <2>11. k \in Trees /\ k[i] = [g[i] EXCEPT !.size = z] /\ \A d \in Ino \ {i} : k[d] = g[d]
    BY <2>7, <2>9, SetSizeTree, ZenonT(60)
  <2> HIDE DEF k
  <2>12. \A d \in Ino : k[d] = Nil => View[d] = Nil
    BY <2>1, <2>2, <2>7, <2>11 DEF Kin
  <2>13. View' = Shown(k, dk.fh, dk.dh)
    BY <1>2, <1>4, <2>10, <2>11, <2>12, Becoming
  <2>14. k = Abs!WithName([View EXCEPT ![i] = [Abs!Node("file", 0) EXCEPT !.size = z]], p, n, i)
    <3>1. k = SetSize(WithName(Grown(View, i, "file"), p, n, i), i, z)
      BY DEF k, g, h
    <3>2. View \in Trees /\ p \in Ino /\ View[p] # Nil /\ n \in Name /\ i \in Ino /\ i # p /\ z \in 0 .. 1
      BY <1>0, <1>1, <2>1
    <3>3. k = WithName(Target(View, i, z), p, n, i)
      BY <3>1, <3>2, SizeFirst
    <3>4. k = Abs!WithName(Target(View, i, z), p, n, i)
      BY <3>3, AbsNames
    <3> QED BY <3>4 DEF Target, Abs!Node, NewNode, NoEntries, Name, Abs!Name
  <2>15. Abs!Symlink(p, n, i)
    BY <1>1, <1>2, <2>1, <2>13, <2>14, AbsLive DEF Abs!Symlink, Abs!New, Abs!Becomes
  <2>16. Abs!Change
    BY <1>1, <2>15 DEF Abs!Change
  <2> QED BY <1>2, <2>16, AbsChange
<1> QED BY <1>0, <1>2, <1>3, <1>4

(* mkdir.                                                                  *)
LEMMA MkdirSim ==
    ASSUME Now, NEW p \in Dirs, NEW n \in Names, FuseMkdir(p, n)
    PROVE  Abs!Next \/ UNCHANGED Abs!vars
<1>0. EnoughBlocks /\ Fine(dk) /\ Tree(dk) \in Trees /\ View \in Trees /\ Calm(Tree(dk), View)
      /\ n \in Name /\ "." \in Name /\ ".." \in Name /\ "dir" \in {"file", "dir"}
  BY SaneRoot, ViewFacts, NamesOK DEF Now
<1>1. /\ p \in Ino /\ View[p] = Tree(dk)[p] /\ View[p] # Nil /\ View[p].kind = "dir"
      /\ p \in Abs!Dirs /\ Tree(dk)[p] # Nil
  BY PlaceViewed
<1>2. /\ Fine(dk') /\ Quiet /\ Tree(dk)[p].ents[n] = Nil
      /\ \/ dk' = dk
         \/ \E i \in Ino :
              /\ Vacant(dk, i)
              /\ EnoughBlocks =>
                   LET g == NewDir(Tree(dk), i, p)
                   IN  /\ g \in Trees /\ WithName(g, p, n, i) \in Trees
                       /\ Calm(WithName(g, p, n, i), Tree(dk'))
  BY <1>0, MkdirStep
<1>3. CASE dk' = dk
  <2>1. Calm(Tree(dk), Tree(dk'))
    BY <1>3, CalmSame
  <2> QED BY <1>2, <2>1, Unseen
<1>4. ASSUME NEW i \in Ino, Vacant(dk, i), NEW f, f = WithName(NewDir(Tree(dk), i, p), p, n, i),
             NewDir(Tree(dk), i, p) \in Trees, f \in Trees, Calm(f, Tree(dk'))
      PROVE  Abs!Next
  <2> DEFINE e  == Grown(Tree(dk), i, "dir")
             e1 == WithName(e, i, ".", i)
             e2 == WithName(e1, i, "..", p)
             h  == Grown(View, i, "dir")
             h1 == WithName(h, i, ".", i)
             h2 == WithName(h1, i, "..", p)
             g  == WithName(h2, p, n, i)
  <2>1. View[i] = Nil /\ i # p
    BY <1>1, <1>4, ViewFacts
  <2>2. h \in Trees /\ h[i] = NewNode("dir") /\ h[i] # Nil /\ \A d \in Ino \ {i} : h[d] = View[d]
    BY <1>0, GrownFields
  <2>3. e \in Trees /\ e[i] # Nil /\ \A d \in Ino \ {i} : e[d] = Tree(dk)[d]
    BY <1>0, GrownFields
  <2>4. Calm(e, h)
    BY <1>0, CalmNew DEF Grown
  <2>5. f = WithName(e2, p, n, i) /\ e2 \in Trees
    BY <1>4 DEF NewDir
  <2>6. g = Abs!WithName(Abs!WithName(Abs!WithName(
              [View EXCEPT ![i] = Abs!Node("dir", 0)], i, ".", i), i, "..", p), p, n, i)
    BY AbsNew, AbsNames
  <2> HIDE DEF h, e
  <2>7. h[p] # Nil /\ e[p] # Nil
    BY <1>1, <2>1, <2>2, <2>3
  <2>8. Calm(e1, h1)
    BY <1>0, <2>2, <2>3, <2>4, CalmWithName
  <2>9. h1 \in Trees /\ Kin(h, h1)
    BY <1>0, <2>2, LeadsWithName
  <2>10. e1 \in Trees /\ Kin(e, e1)
    BY <1>0, <2>3, LeadsWithName
  <2> HIDE DEF h1, e1
  <2>11. h1[i] # Nil /\ h1[p] # Nil
    BY <1>1, <2>2, <2>7, <2>9 DEF Kin
  <2>12. Calm(e2, h2)
    BY <1>0, <1>1, <2>8, <2>9, <2>10, <2>11, CalmWithName
  <2>13. h2 \in Trees /\ Kin(h1, h2)
    BY <1>0, <1>1, <2>9, <2>11, LeadsWithName
  <2> HIDE DEF h2, e2
  <2>14. h2[i] # Nil /\ h2[p] # Nil
    BY <1>1, <2>11, <2>13 DEF Kin
  <2>15. Calm(f, g)
    BY <1>0, <1>1, <2>5, <2>12, <2>13, <2>14, CalmWithName
  <2>16. g \in Trees /\ Kin(h2, g)
    BY <1>0, <1>1, <2>13, <2>14, LeadsWithName
  <2> HIDE DEF g
  <2>17. \A d \in Ino : g[d] = Nil => View[d] = Nil
    BY <2>1, <2>2, <2>9, <2>13, <2>16 DEF Kin
  <2>18. View' = Shown(g, dk.fh, dk.dh)
    BY <1>2, <1>4, <2>15, <2>16, <2>17, Becoming
  <2>19. Abs!Mkdir(p, n, i)
    BY <1>1, <1>2, <2>1, <2>6, <2>18, AbsLive DEF Abs!Mkdir, Abs!New, Abs!Becomes
  <2>20. Abs!Change
    BY <1>1, <2>19 DEF Abs!Change
  <2> QED BY <1>2, <2>20, AbsChange
<1> QED BY <1>0, <1>2, <1>3, <1>4

(* link.                                                                   *)
LEMMA LinkSim ==
    ASSUME Now, NEW p \in Dirs, NEW n \in Names, NEW i \in Files \cap Linked, FuseLink(i, p, n)
    PROVE  Abs!Next
<1>0. EnoughBlocks /\ Fine(dk) /\ Tree(dk) \in Trees /\ View \in Trees /\ Calm(Tree(dk), View)
      /\ n \in Name
  BY SaneRoot, ViewFacts, NamesOK DEF Now
<1>1. /\ p \in Ino /\ View[p] = Tree(dk)[p] /\ View[p] # Nil /\ View[p].kind = "dir"
      /\ p \in Abs!Dirs
  BY PlaceViewed
<1>2. /\ i \in Ino /\ View[i] = Tree(dk)[i] /\ View[i] # Nil /\ View[i].kind = "file"
      /\ i \in Abs!Files
  BY FileViewed
<1>3. /\ Fine(dk') /\ Quiet /\ Tree(dk)[p].ents[n] = Nil
      /\ i \in Ino /\ Tree(dk)[i] # Nil /\ Tree(dk)[i].kind = "file"
      /\ WithName(Tree(dk), p, n, i) \in Trees
      /\ EnoughBlocks => Calm(WithName(Tree(dk), p, n, i), Tree(dk'))
  BY <1>0, LinkStep
<1> DEFINE f == WithName(Tree(dk), p, n, i)
           g == WithName(View, p, n, i)
<1>4. Calm(f, g)
  BY <1>0, <1>1, <1>2, CalmWithName
<1>5. g \in Trees /\ Kin(View, g)
  BY <1>0, <1>1, <1>2, LeadsWithName
<1>6. g = Abs!WithName(View, p, n, i)
  BY AbsNames
<1>7. f \in Trees /\ Calm(f, Tree(dk'))
  BY <1>0, <1>3
<1> HIDE DEF f, g
<1>8. \A d \in Ino : g[d] = Nil => View[d] = Nil
  BY <1>5 DEF Kin
<1>9. View' = Shown(g, dk.fh, dk.dh)
  BY <1>3, <1>4, <1>5, <1>7, <1>8, Becoming
<1>10. Abs!Link(i, p, n)
  BY <1>1, <1>3, <1>6, <1>9, AbsLive DEF Abs!Link, Abs!Becomes
<1>11. Abs!Change
  BY <1>1, <1>2, <1>10 DEF Abs!Change
<1> QED BY <1>3, <1>11, AbsChange

(* unlink.                                                                 *)
LEMMA UnlinkSim ==
    ASSUME Now, NEW p \in Dirs, NEW n \in Names, FuseUnlink(p, n)
    PROVE  Abs!Next
<1>0. EnoughBlocks /\ Fine(dk) /\ Tree(dk) \in Trees /\ View \in Trees /\ Calm(Tree(dk), View)
      /\ n \in Name /\ Counted(Tree(dk)) /\ Counted(View)
  BY SaneRoot, ViewFacts, NamesOK DEF Now
<1>1. /\ p \in Ino /\ View[p] = Tree(dk)[p] /\ View[p] # Nil /\ View[p].kind = "dir"
      /\ p \in Abs!Dirs
  BY PlaceViewed
<1> DEFINE i == Tree(dk)[p].ents[n]
           f == Drop(Tree(dk), p, n)
           g == Drop(View, p, n)
<1>2. /\ Fine(dk') /\ Quiet
      /\ i # Nil /\ i \in Ino /\ Tree(dk)[i] # Nil /\ Tree(dk)[i].kind = "file"
      /\ EnoughBlocks => Calm(f, Tree(dk'))
  BY <1>0, UnlinkStep
<1>3. i = View[p].ents[n]
  BY <1>1
<1>4. Calm(f, g)
  BY <1>0, <1>1, CalmDrop
<1>5. g \in Trees /\ Kin(View, g)
  BY <1>0, <1>1, LeadsDrop
<1>6. f \in Trees
  BY <1>0, <1>1, LeadsDrop
<1>7. g = Abs!WithoutName(View, p, n)
  BY <1>0, <1>1, <1>2, <1>3, AbsDrop
<1> HIDE DEF f, g
<1>8. \A d \in Ino : g[d] = Nil => View[d] = Nil
  BY <1>5 DEF Kin
<1>9. View' = Shown(g, dk.fh, dk.dh)
  BY <1>0, <1>2, <1>4, <1>5, <1>6, <1>8, Becoming
<1>10. i \in Abs!Files
  <2>1. View[i] # Nil
    BY <1>0, <1>1, <1>2, <1>3, EntryHeld, ZenonT(60)
  <2>2. View[i] = Tree(dk)[i]
    BY <1>2, <2>1, ViewFacts
  <2> QED BY <1>2, <2>1, <2>2 DEF Abs!Files
<1>11. Abs!Unlink(p, n)
  BY <1>3, <1>7, <1>9, <1>10, AbsLive DEF Abs!Unlink, Abs!Becomes
<1>12. Abs!Change
  BY <1>1, <1>11 DEF Abs!Change
<1> QED BY <1>2, <1>12, AbsChange

(* rmdir, which refuses a directory that is not empty.                     *)
LEMMA RmdirSim ==
    ASSUME Now, NEW p \in Dirs, NEW n \in Names, FuseRmdir(p, n)
    PROVE  Abs!Next \/ UNCHANGED Abs!vars
<1>0. EnoughBlocks /\ Fine(dk) /\ Tree(dk) \in Trees /\ View \in Trees /\ Calm(Tree(dk), View)
      /\ n \in Name /\ Counted(Tree(dk)) /\ Counted(View) /\ Precise(Tree(dk)) /\ Precise(View)
  BY SaneRoot, ViewFacts, NamesOK DEF Now
<1>1. /\ p \in Ino /\ View[p] = Tree(dk)[p] /\ View[p] # Nil /\ View[p].kind = "dir"
      /\ p \in Abs!Dirs
  BY PlaceViewed
<1> DEFINE j == Tree(dk)[p].ents[n]
           f == DropDir(Tree(dk), j, p, n)
           g == DropDir(View, j, p, n)
<1>2. /\ Fine(dk') /\ Quiet
      /\ j # Nil /\ j \in Ino /\ Tree(dk)[j] # Nil /\ Tree(dk)[j].kind = "dir"
      /\ \/ Calm(Tree(dk), Tree(dk'))
         \/ EnoughBlocks => /\ Calm(f, Tree(dk'))
                            /\ Count(Tree(dk)[j].ents) = 2
  BY <1>0, RmdirStep
<1>3. j = View[p].ents[n]
  BY <1>1
<1>4. View[j] # Nil /\ View[j] = Tree(dk)[j]
  <2>1. View[j] # Nil
    <3> HIDE DEF j, f, g
    <3> QED BY <1>0, <1>1, <1>2, <1>3, EntryHeld
  <2> QED BY <1>2, <2>1, ViewFacts
<1>5. CASE Calm(Tree(dk), Tree(dk'))
  BY <1>2, <1>5, Unseen
<1>6. CASE Calm(f, Tree(dk')) /\ Count(Tree(dk)[j].ents) = 2
  <2>1. f \in Trees /\ Calm(f, g)
    BY <1>0, <1>1, <1>2, <1>4, CalmDropDir
  <2>2. View[j].kind = "dir" /\ Count(View[j].ents) = 2
    BY <1>2, <1>4, <1>6
  <2>3. g \in Trees /\ Kin(View, g)
    BY <1>0, <1>1, <1>2, <1>3, <2>2, DropDirPrecise
  <2>4. Abs!WithoutDir(View, p, n) = g /\ Abs!Empty(View, j)
    BY <1>0, <1>1, <1>2, <1>3, <2>2, AbsDropDir
  <2> HIDE DEF f, g
  <2>5. \A d \in Ino : g[d] = Nil => View[d] = Nil
    BY <2>3 DEF Kin
  <2>6. View' = Shown(g, dk.fh, dk.dh)
    BY <1>2, <1>6, <2>1, <2>3, <2>5, Becoming
  <2>7. j \in Abs!Dirs
    BY <1>2, <1>4, <2>2 DEF Abs!Dirs
  <2>8. Abs!Rmdir(p, n)
    BY <1>3, <2>4, <2>6, <2>7, AbsLive DEF Abs!Rmdir, Abs!Becomes
  <2>9. Abs!Change
    BY <1>1, <2>8 DEF Abs!Change
  <2> QED BY <1>2, <2>9, AbsChange
<1> QED BY <1>0, <1>2, <1>5, <1>6

(* rename, which refuses to replace a directory that is not empty.         *)
LEMMA RenameSim ==
    ASSUME Now, NEW p \in Dirs, NEW n \in Names, NEW q \in Dirs, NEW m \in Names, FuseRename(p, n, q, m)
    PROVE  Abs!Next \/ UNCHANGED Abs!vars
<1>0. EnoughBlocks /\ Fine(dk) /\ Tree(dk) \in Trees /\ View \in Trees /\ Calm(Tree(dk), View)
      /\ n \in Name /\ m \in Name /\ Counted(Tree(dk)) /\ Counted(View)
      /\ Precise(Tree(dk)) /\ Precise(View)
  BY SaneRoot, ViewFacts, NamesOK DEF Now
<1>1. /\ p \in Ino /\ View[p] = Tree(dk)[p] /\ View[p] # Nil /\ View[p].kind = "dir"
      /\ p \in Abs!Dirs
  BY PlaceViewed
<1>2. /\ q \in Ino /\ View[q] = Tree(dk)[q] /\ View[q] # Nil /\ View[q].kind = "dir"
      /\ q \in Abs!Dirs
  BY PlaceViewed
<1> DEFINE i == Tree(dk)[p].ents[n]
           j == Tree(dk)[q].ents[m]
           f == Moved(Tree(dk), p, n, q, m, i)
           g == Moved(View, p, n, q, m, i)
           h == WithName(Vacated(View, q, m), q, m, i)
<1>3. /\ Fine(dk') /\ Quiet
      /\ i # Nil /\ i \in Ino /\ Tree(dk)[i] # Nil /\ i # j /\ i # q
      /\ j # Nil => /\ j \in Ino /\ Tree(dk)[j] # Nil /\ p # j
                    /\ Tree(dk)[i].kind = "dir" <=> Tree(dk)[j].kind = "dir"
      /\ EnoughBlocks =>
           \/ Calm(Tree(dk), Tree(dk'))
           \/ /\ Vacated(Tree(dk), q, m) \in Trees
              /\ WithName(Vacated(Tree(dk), q, m), q, m, i) \in Trees
              /\ f \in Trees
              /\ Calm(f, Tree(dk'))
              /\ j # Nil /\ Tree(dk)[j].kind = "dir" => Count(Tree(dk)[j].ents) = 2
  BY <1>0, RenameStep
<1>4. i = View[p].ents[n] /\ j = View[q].ents[m]
  BY <1>1, <1>2
<1>5. j # Nil => View[j] # Nil /\ View[j] = Tree(dk)[j]
  <2> SUFFICES ASSUME j # Nil
               PROVE  View[j] # Nil /\ View[j] = Tree(dk)[j]
    OBVIOUS
  <2>1. View[j] # Nil
    <3> HIDE DEF i, j, f, g, h
    <3> QED BY <1>0, <1>2, <1>4, EntryHeld
  <2> QED BY <1>3, <2>1, ViewFacts
<1>6. CASE Calm(Tree(dk), Tree(dk'))
  BY <1>3, <1>6, Unseen
<1>7. CASE /\ f \in Trees /\ Calm(f, Tree(dk'))
           /\ j # Nil /\ Tree(dk)[j].kind = "dir" => Count(Tree(dk)[j].ents) = 2
  <2>1. j # Nil /\ View[j].kind = "dir" => Count(View[j].ents) = 2
    BY <1>5, <1>7
  <2>2. /\ g \in Trees /\ Calm(f, g) /\ Kin(View, g)
        /\ Counted(h) /\ h[p] # Nil /\ h[p].ents[n] # Nil
    <3> HIDE DEF i, j
    <3> QED BY <1>0, <1>1, <1>2, <1>3, <1>4, <2>1, CalmMoved
  <2>3. /\ Vacated(View, q, m) = IF j = Nil THEN View
                                 ELSE IF View[j].kind = "dir" THEN Abs!WithoutDir(View, q, m)
                                 ELSE Abs!WithoutName(View, q, m)
        /\ j # Nil /\ View[j].kind = "dir" => Abs!Empty(View, j)
    <3> HIDE DEF i, j
    <3> QED BY <1>0, <1>2, <1>4, <2>1, AbsVacated
  <2>4. g = Drop(h, p, n)
    BY DEF Moved
  <2>5. h = Abs!WithName(Vacated(View, q, m), q, m, i)
    BY AbsNames
  <2> HIDE DEF f, g, h
  <2>6. Drop(h, p, n) = Abs!WithoutName(h, p, n)
    BY <1>0, <1>1, <2>2, AbsDrop
  <2>7. \A d \in Ino : g[d] = Nil => View[d] = Nil
    BY <2>2 DEF Kin
  <2>8. View' = Shown(g, dk.fh, dk.dh)
    BY <1>3, <1>7, <2>2, <2>7, Becoming
  <2>9. View' = Abs!Live(Abs!WithoutName(Abs!WithName(Vacated(View, q, m), q, m, i), p, n), dk.fh, dk.dh)
    BY <2>4, <2>5, <2>6, <2>8, AbsLive
  <2>10. Abs!Rename(p, n, q, m)
    <3> HIDE DEF i, j
    <3> QED BY <1>3, <1>4, <2>3, <2>9 DEF Abs!Rename, Abs!Becomes
  <2>11. Abs!Change
    BY <1>1, <1>2, <2>10 DEF Abs!Change
  <2> QED BY <1>3, <2>11, AbsChange
<1> QED BY <1>0, <1>3, <1>6, <1>7

-----------------------------------------------------------------------------
(* chmod.                                                                  *)
LEMMA ChmodSim ==
    ASSUME Now, NEW i \in Used, NEW given \in BOOLEAN, NEW suid \in BOOLEAN, FuseChmod(i, given, suid)
    PROVE  Abs!Next
<1>0. EnoughBlocks /\ Fine(dk) /\ Tree(dk) \in Trees /\ View \in Trees /\ Calm(Tree(dk), View)
  BY SaneRoot, ViewFacts DEF Now
<1>1. i \in Ino /\ View[i] # Nil
  BY UsedViewed
<1>2. /\ Fine(dk') /\ Quiet
      /\ EnoughBlocks => /\ SetSuid(Tree(dk), i, suid) \in Trees
                         /\ Calm(SetSuid(Tree(dk), i, suid), Tree(dk'))
  BY <1>0, ChmodStep
<1> DEFINE g == SetSuid(View, i, suid)
<1>3. Calm(SetSuid(Tree(dk), i, suid), g)
  BY <1>0, <1>1, CalmAttrs
<1>4. g \in Trees /\ g[i] = [View[i] EXCEPT !.suid = suid] /\ \A j \in Ino \ {i} : g[j] = View[j]
  BY <1>0, <1>1, SetSuidTree
<1>5. g = [View EXCEPT ![i].suid = suid]
  BY DEF SetSuid
<1> HIDE DEF g
<1>6. \A d \in Ino : g[d] = Nil => View[d] = Nil
  <2>1. g[i] # Nil
    <3>1. View[i] \in Nodes
      BY <1>0, <1>1 DEF Trees
    <3>2. [View[i] EXCEPT !.suid = suid] \in Nodes
      BY <3>1 DEF Nodes
    <3> QED BY <1>4, <3>2, NodeAssumption
  <2> QED BY <1>4, <2>1
<1>7. View' = Shown(g, dk.fh, dk.dh)
  BY <1>0, <1>2, <1>3, <1>4, <1>6, Becoming
<1>8. Abs!Chmod(i, suid)
  BY <1>5, <1>7, AbsLive DEF Abs!Chmod, Abs!Becomes
<1>9. i \in Abs!Files \union Abs!Dirs
  BY <1>0, <1>1 DEF Abs!Files, Abs!Dirs, Trees, Nodes
<1>10. Abs!Change
  BY <1>8, <1>9 DEF Abs!Change
<1> QED BY <1>2, <1>10, AbsChange

(* A new size removes no node.                                             *)
LEMMA SizeFields ==
    ASSUME NEW f \in Trees, NEW i \in Ino, f[i] # Nil, NEW z \in 0 .. 1, NEW g, g = SetSize(f, i, z)
    PROVE  g \in Trees /\ \A d \in Ino : g[d] = Nil => f[d] = Nil
<1>1. /\ SetSize(f, i, z) \in Trees /\ SetSize(f, i, z)[i] = [f[i] EXCEPT !.size = z]
      /\ \A j \in Ino \ {i} : SetSize(f, i, z)[j] = f[j]
  BY SetSizeTree, ZenonT(60)
<1>2. [f[i] EXCEPT !.size = z] # Nil
  <2>1. f[i] \in Nodes
    BY DEF Trees
  <2>2. [f[i] EXCEPT !.size = z] \in Nodes
    BY <2>1 DEF Nodes
  <2> QED BY <2>2, NodeAssumption
<1> QED BY <1>1, <1>2

(* Whatever sets the size of a file.                                       *)
LEMMA SizeSim ==
    ASSUME Now, NEW i \in Files, NEW z \in 0 .. 1, Fine(dk'), Quiet,
           SetSize(Tree(dk), i, z) \in Trees, Calm(SetSize(Tree(dk), i, z), Tree(dk'))
    PROVE  Abs!Next
<1>0. EnoughBlocks /\ Fine(dk) /\ Tree(dk) \in Trees /\ View \in Trees /\ Calm(Tree(dk), View)
  BY SaneRoot, ViewFacts DEF Now
<1>1. i \in Ino /\ View[i] # Nil /\ i \in Abs!Files
  BY FileViewed
<1> DEFINE g == SetSize(View, i, z)
<1>3. Calm(SetSize(Tree(dk), i, z), g)
  BY <1>0, <1>1, CalmAttrs
<1>4. g = SetSize(View, i, z)
  OBVIOUS
<1>5. g = [View EXCEPT ![i].size = z]
  BY DEF SetSize
<1> HIDE DEF g
<1>6. g \in Trees /\ \A d \in Ino : g[d] = Nil => View[d] = Nil
  BY <1>0, <1>1, <1>4, SizeFields
<1>7. View' = Shown(g, dk.fh, dk.dh)
  BY <1>0, <1>3, <1>6, Becoming
<1>8. Abs!SetSize(i, z)
  BY <1>5, <1>7, AbsLive DEF Abs!SetSize, Abs!Becomes
<1>10. Abs!Change
  BY <1>1, <1>8 DEF Abs!Change
<1> QED BY <1>10, AbsChange

(* truncate and write are that.                                            *)
LEMMA InodeSim ==
    ASSUME Now, InodeStep
    PROVE  Abs!Next
<1>0. EnoughBlocks /\ Fine(dk) /\ Tree(dk) \in Trees
  BY SaneRoot DEF Now
<1>1. ASSUME NEW i \in Used, NEW given \in BOOLEAN, NEW suid \in BOOLEAN, FuseChmod(i, given, suid)
      PROVE  Abs!Next
  BY <1>1, ChmodSim
<1>2. ASSUME NEW i \in Files, NEW given \in BOOLEAN, FuseTruncate(i, given)
      PROVE  Abs!Next
  <2>1. /\ Fine(dk') /\ Quiet
        /\ EnoughBlocks => /\ SetSize(Tree(dk), i, 0) \in Trees
                           /\ Calm(SetSize(Tree(dk), i, 0), Tree(dk'))
    BY <1>0, <1>2, TruncateStep
  <2>2. 0 \in 0 .. 1
    OBVIOUS
  <2> QED BY <1>0, <2>1, <2>2, SizeSim
<1>3. ASSUME NEW i \in Files, FuseWrite(i)
      PROVE  Abs!Next
  <2>1. /\ Fine(dk') /\ Quiet
        /\ \E size \in 0 .. 1 : Tree(dk') = SetSize(Tree(dk), i, size)
    BY <1>0, <1>3, WriteStep
  <2>2. i \in Ino /\ Tree(dk)[i] # Nil
    BY FileViewed
  <2>3. PICK z \in 0 .. 1 : Tree(dk') = SetSize(Tree(dk), i, z)
    BY <2>1
  <2>4. SetSize(Tree(dk), i, z) \in Trees
    BY <1>0, <2>2, SetSizeTree
  <2>5. Calm(SetSize(Tree(dk), i, z), Tree(dk'))
    BY <2>3, CalmSame
  <2> QED BY <2>1, <2>4, <2>5, SizeSim
<1>4. Files \subseteq Used
  BY DEF Files
<1> QED BY <1>1, <1>2, <1>3, <1>4 DEF InodeStep

-----------------------------------------------------------------------------
(* An inode with a handle stays visible, and the others as they are.       *)
LEMMA ShownMore ==
    ASSUME Now, NEW g \in Trees, NEW h \in [Ino -> Nat], NEW d \in [Ino -> Nat], NEW i \in Ino,
           h[i] + d[i] > 0,
           \A j \in Ino \ {i} : h[j] = dk.fh[j] /\ d[j] = dk.dh[j] /\ g[j] = View[j]
    PROVE  Shown(g, h, d) = g
<1>0. View \in Trees /\ View = Shown(Tree(dk), dk.fh, dk.dh) /\ dk.fh \in [Ino -> Nat] /\ dk.dh \in [Ino -> Nat]
  BY ViewFacts
<1> SUFFICES ASSUME NEW j \in Ino, g[j] # Nil
             PROVE  g[j].nlink + h[j] + d[j] # 0
  BY DEF Shown, Trees
<1>1. g[j].nlink \in Nat /\ h[j] \in Nat /\ d[j] \in Nat
  BY DEF Trees, Nodes
<1>2. CASE j = i
  BY <1>1, <1>2
<1>3. CASE j # i
  <2>1. g[j] = View[j] /\ h[j] = dk.fh[j] /\ d[j] = dk.dh[j]
    BY <1>3
  <2>2. View[j] = IF Tree(dk)[j] # Nil /\ Tree(dk)[j].nlink + dk.fh[j] + dk.dh[j] = 0 THEN Nil
                  ELSE Tree(dk)[j]
    BY <1>0 DEF Shown
  <2> QED BY <2>1, <2>2
<1> QED BY <1>2, <1>3

(* Opening and releasing are steps of FileSystem.                          *)
LEMMA AbsHandles ==
    ASSUME Abs!Handles
    PROVE  Abs!Next
BY DEF Abs!Next

(* Setting the set-id bits as they are.                                    *)
LEMMA SameSuid ==
    ASSUME NEW f \in Trees, NEW i \in Ino, f[i] # Nil
    PROVE  f[i].suid \in BOOLEAN /\ SetSuid(f, i, f[i].suid) = f
<1>1. f[i] \in Nodes
  BY DEF Trees
<1>2. f[i].suid \in BOOLEAN /\ [f[i] EXCEPT !.suid = f[i].suid] = f[i]
  BY <1>1 DEF Nodes
<1>3. SetSuid(f, i, f[i].suid) = [f EXCEPT ![i] = [f[i] EXCEPT !.suid = f[i].suid]]
  BY DEF SetSuid
<1> QED BY <1>2, <1>3 DEF Trees

(* open, which clears the set-id bits unless root opens.                   *)
LEMMA OpenSim ==
    ASSUME Now, NEW i \in Files, NEW root \in BOOLEAN, FuseOpen(i, root)
    PROVE  Abs!Next
<1>0. EnoughBlocks /\ Fine(dk) /\ Tree(dk) \in Trees /\ View \in Trees /\ Calm(Tree(dk), View)
      /\ dk.fh \in [Ino -> Nat] /\ dk.dh \in [Ino -> Nat]
  BY SaneRoot, ViewFacts DEF Now
<1>1. i \in Ino /\ View[i] # Nil /\ i \in Abs!Files
  BY FileViewed
<1>2. /\ Fine(dk') /\ dk.fh[i] < MaxHandles
      /\ dk'.fh = [dk.fh EXCEPT ![i] = @ + 1] /\ dk'.dh = dk.dh /\ panicked' = panicked
      /\ \/ Calm(Tree(dk), Tree(dk'))
         \/ EnoughBlocks => /\ SetSuid(Tree(dk), i, FALSE) \in Trees
                            /\ Calm(SetSuid(Tree(dk), i, FALSE), Tree(dk'))
  BY <1>0, OpenStep
<1>3. /\ dk'.fh \in [Ino -> Nat] /\ dk'.dh \in [Ino -> Nat] /\ dk'.fh[i] + dk'.dh[i] > 0
      /\ \A j \in Ino \ {i} : dk'.fh[j] = dk.fh[j] /\ dk'.dh[j] = dk.dh[j]
  BY <1>0, <1>1, <1>2
<1>4. ASSUME NEW g \in Trees, g[i] # Nil, \A j \in Ino \ {i} : g[j] = View[j]
      PROVE  /\ \A j \in Ino : g[j] = Nil => dk'.fh[j] = 0 /\ dk'.dh[j] = 0
             /\ Shown(g, dk'.fh, dk'.dh) = g
  <2>1. \A j \in Ino : g[j] = Nil => dk'.fh[j] = 0 /\ dk'.dh[j] = 0
    <3> SUFFICES ASSUME NEW j \in Ino, g[j] = Nil
                 PROVE  dk'.fh[j] = 0 /\ dk'.dh[j] = 0
      OBVIOUS
    <3>1. j # i /\ View[j] = Nil
      BY <1>4
    <3> QED BY <1>3, <3>1, ViewFacts
  <2> QED BY <1>1, <1>3, <1>4, <2>1, ShownMore
<1>5. \E suid \in BOOLEAN : suid \in {FALSE, View[i].suid} /\ View' = SetSuid(View, i, suid)
  <2>1. CASE Calm(Tree(dk), Tree(dk'))
    <3>1. View' = Shown(View, dk'.fh, dk'.dh)
      BY <1>0, <1>1, <1>2, <1>4, <2>1, HandlesBecoming
    <3>2. View' = View
      BY <1>0, <1>1, <1>4, <3>1
    <3> QED BY <1>0, <1>1, <3>2, SameSuid
  <2>2. CASE SetSuid(Tree(dk), i, FALSE) \in Trees /\ Calm(SetSuid(Tree(dk), i, FALSE), Tree(dk'))
    <3> DEFINE g == SetSuid(View, i, FALSE)
    <3>0. FALSE \in BOOLEAN
      OBVIOUS
    <3>1. Calm(SetSuid(Tree(dk), i, FALSE), g)
      BY <1>0, <1>1, CalmAttrs
    <3>2. g \in Trees /\ g[i] = [View[i] EXCEPT !.suid = FALSE] /\ \A j \in Ino \ {i} : g[j] = View[j]
      BY <1>0, <1>1, <3>0, SetSuidTree
    <3>3. g[i] # Nil
      <4>1. View[i] \in Nodes
        BY <1>0, <1>1 DEF Trees
      <4>2. [View[i] EXCEPT !.suid = FALSE] \in Nodes
        BY <4>1 DEF Nodes
      <4> QED BY <3>2, <4>2, NodeAssumption
    <3> HIDE DEF g
    <3>4. View' = Shown(g, dk'.fh, dk'.dh)
      BY <1>2, <1>4, <2>2, <3>1, <3>2, <3>3, HandlesBecoming
    <3>5. View' = g
      BY <1>4, <3>2, <3>3, <3>4
    <3> QED BY <3>0, <3>5 DEF g
  <2> QED BY <1>0, <1>2, <2>1, <2>2
<1>6. PICK suid \in BOOLEAN : suid \in {FALSE, View[i].suid} /\ View' = SetSuid(View, i, suid)
  BY <1>5
<1>7. Abs!Open(i, suid)
  BY <1>2, <1>6 DEF Abs!Open, SetSuid
<1>8. Abs!Handles
  BY <1>1, <1>7 DEF Abs!Handles
<1> QED BY <1>8, AbsHandles

(* release: an unlinked file disappears with its last handle.              *)
LEMMA ReleaseSim ==
    ASSUME Now, NEW i \in Files, FuseRelease(i)
    PROVE  Abs!Next
<1>0. EnoughBlocks /\ Fine(dk) /\ Tree(dk) \in Trees /\ View \in Trees /\ Calm(Tree(dk), View)
      /\ dk.fh \in [Ino -> Nat] /\ dk.dh \in [Ino -> Nat]
  BY SaneRoot, ViewFacts DEF Now
<1>1. i \in Ino /\ View[i] # Nil /\ i \in Abs!Files
  BY FileViewed
<1>2. /\ Fine(dk') /\ dk.fh[i] > 0
      /\ dk'.fh = [dk.fh EXCEPT ![i] = @ - 1] /\ dk'.dh = dk.dh /\ panicked' = panicked
      /\ Calm(Tree(dk), Tree(dk')) /\ Reclaimed(dk')
  BY <1>0, ReleaseStep
<1>3. \A j \in Ino : View[j] = Nil => dk'.fh[j] = 0 /\ dk'.dh[j] = 0
  <2> SUFFICES ASSUME NEW j \in Ino, View[j] = Nil
               PROVE  dk'.fh[j] = 0 /\ dk'.dh[j] = 0
    OBVIOUS
  <2>1. dk.fh[j] = 0 /\ dk.dh[j] = 0
    BY ViewFacts
  <2>2. dk'.fh[j] = dk.fh[j] /\ dk'.dh[j] = dk.dh[j]
    BY <1>0, <1>1, <1>2
  <2> QED BY <2>1, <2>2
<1>4. View' = Shown(View, dk'.fh, dk'.dh)
  BY <1>0, <1>2, <1>3, HandlesBecoming
<1>5. Abs!Release(i)
  BY <1>2, <1>4, AbsLive DEF Abs!Release
<1>6. Abs!Handles
  BY <1>1, <1>5 DEF Abs!Handles
<1> QED BY <1>6, AbsHandles

(* opendir.                                                                *)
LEMMA OpendirSim ==
    ASSUME Now, NEW i \in Dirs, FuseOpendir(i)
    PROVE  Abs!Next
<1>0. EnoughBlocks /\ Fine(dk) /\ Tree(dk) \in Trees /\ View \in Trees /\ Calm(Tree(dk), View)
      /\ dk.fh \in [Ino -> Nat] /\ dk.dh \in [Ino -> Nat]
  BY SaneRoot, ViewFacts DEF Now
<1>1. i \in Ino /\ View[i] # Nil /\ i \in Abs!Dirs
  BY PlaceViewed
<1>2. /\ Fine(dk') /\ dk.dh[i] < MaxHandles
      /\ dk'.dh = [dk.dh EXCEPT ![i] = @ + 1] /\ dk'.fh = dk.fh /\ panicked' = panicked
      /\ Calm(Tree(dk), Tree(dk'))
  BY <1>0, OpendirStep
<1>3. /\ dk'.fh \in [Ino -> Nat] /\ dk'.dh \in [Ino -> Nat] /\ dk'.fh[i] + dk'.dh[i] > 0
      /\ \A j \in Ino \ {i} : dk'.fh[j] = dk.fh[j] /\ dk'.dh[j] = dk.dh[j]
  BY <1>0, <1>1, <1>2
<1>4. \A j \in Ino : View[j] = Nil => dk'.fh[j] = 0 /\ dk'.dh[j] = 0
  <2> SUFFICES ASSUME NEW j \in Ino, View[j] = Nil
               PROVE  dk'.fh[j] = 0 /\ dk'.dh[j] = 0
    OBVIOUS
  <2>1. dk.fh[j] = 0 /\ dk.dh[j] = 0
    BY ViewFacts
  <2> QED BY <1>1, <1>3, <2>1
<1>5. View' = Shown(View, dk'.fh, dk'.dh)
  BY <1>0, <1>2, <1>4, HandlesBecoming
<1>6. Shown(View, dk'.fh, dk'.dh) = View
  <2>1. PICK g : g = View
    OBVIOUS
  <2>2. \A j \in Ino \ {i} : dk'.fh[j] = dk.fh[j] /\ dk'.dh[j] = dk.dh[j] /\ g[j] = View[j]
    BY <1>3, <2>1
  <2>3. g \in Trees
    BY <1>0, <2>1
  <2>4. Shown(g, dk'.fh, dk'.dh) = g
    BY <1>1, <1>3, <2>2, <2>3, ShownMore
  <2> QED BY <2>1, <2>4
<1>7. Abs!Opendir(i)
  BY <1>2, <1>5, <1>6 DEF Abs!Opendir
<1>8. Abs!Handles
  BY <1>1, <1>7 DEF Abs!Handles
<1> QED BY <1>8, AbsHandles

(* releasedir.                                                             *)
LEMMA ReleasedirSim ==
    ASSUME Now, NEW i \in Used, FuseReleasedir(i)
    PROVE  Abs!Next
<1>0. EnoughBlocks /\ Fine(dk) /\ Tree(dk) \in Trees /\ View \in Trees /\ Calm(Tree(dk), View)
      /\ dk.fh \in [Ino -> Nat] /\ dk.dh \in [Ino -> Nat]
  BY SaneRoot, ViewFacts DEF Now
<1>1. i \in Ino /\ View[i] # Nil /\ View[i].kind = Inode(dk, i).kind
  BY UsedViewed
<1>2. /\ Fine(dk') /\ dk.dh[i] > 0
      /\ dk'.dh = [dk.dh EXCEPT ![i] = @ - 1] /\ dk'.fh = dk.fh /\ panicked' = panicked
      /\ Calm(Tree(dk), Tree(dk')) /\ Reclaimed(dk')
  BY <1>0, ReleasedirStep
<1>3. i \in Abs!Dirs
  <2>1. Inode(dk, i).kind = "dir"
    BY <1>0, <1>1, <1>2, Handled
  <2> QED BY <1>1, <2>1 DEF Abs!Dirs
<1>4. \A j \in Ino : View[j] = Nil => dk'.fh[j] = 0 /\ dk'.dh[j] = 0
  <2> SUFFICES ASSUME NEW j \in Ino, View[j] = Nil
               PROVE  dk'.fh[j] = 0 /\ dk'.dh[j] = 0
    OBVIOUS
  <2>1. dk.fh[j] = 0 /\ dk.dh[j] = 0
    BY ViewFacts
  <2>2. dk'.fh[j] = dk.fh[j] /\ dk'.dh[j] = dk.dh[j]
    BY <1>0, <1>1, <1>2
  <2> QED BY <2>1, <2>2
<1>5. View' = Shown(View, dk'.fh, dk'.dh)
  BY <1>0, <1>2, <1>4, HandlesBecoming
<1>6. Abs!Releasedir(i)
  BY <1>2, <1>5, AbsLive DEF Abs!Releasedir
<1>7. Abs!Handles
  BY <1>3, <1>6 DEF Abs!Handles
<1> QED BY <1>7, AbsHandles

-----------------------------------------------------------------------------
(* lookup reads and fills caches.                                          *)
LEMMA LookupSim ==
    ASSUME Now, NEW p \in Dirs, NEW n \in Names, FuseLookup(p, n)
    PROVE  UNCHANGED Abs!vars
<1>1. Fine(dk)
  BY DEF Now
<1> QED BY <1>1, LookupStep, Unseen

(* Calls that change the tree.                                             *)
LEMMA NameSim ==
    ASSUME Now, NameStep
    PROVE  Abs!Next \/ UNCHANGED Abs!vars
<1> PICK p \in Dirs, n \in Names :
        \/ FuseLookup(p, n)
        \/ FuseMknod(p, n)
        \/ FuseMkdir(p, n)
        \/ FuseSymlink(p, n)
        \/ \E i \in Files \cap Linked : FuseLink(i, p, n)
        \/ FuseUnlink(p, n)
        \/ FuseRmdir(p, n)
        \/ \E q \in Dirs, m \in Names : FuseRename(p, n, q, m)
  BY DEF NameStep
<1>1. CASE FuseLookup(p, n)
  BY <1>1, LookupSim
<1>2. CASE FuseMknod(p, n)
  BY <1>2, MknodSim
<1>3. CASE FuseMkdir(p, n)
  BY <1>3, MkdirSim
<1>4. CASE FuseSymlink(p, n)
  BY <1>4, SymlinkSim
<1>5. CASE \E i \in Files \cap Linked : FuseLink(i, p, n)
  BY <1>5, LinkSim
<1>6. CASE FuseUnlink(p, n)
  BY <1>6, UnlinkSim
<1>7. CASE FuseRmdir(p, n)
  BY <1>7, RmdirSim
<1>8. CASE \E q \in Dirs, m \in Names : FuseRename(p, n, q, m)
  BY <1>8, RenameSim
<1> QED BY <1>1, <1>2, <1>3, <1>4, <1>5, <1>6, <1>7, <1>8

(* Calls that open, close, synchronise or read, and a remount.             *)
LEMMA HandleSim ==
    ASSUME Now, HandleStep
    PROVE  Abs!Next \/ UNCHANGED Abs!vars
<1>0. Fine(dk)
  BY DEF Now
<1>1. ASSUME NEW i \in Used, FuseGetattr(i)
      PROVE  UNCHANGED Abs!vars
  BY <1>0, <1>1, GetattrStep, Unseen
<1>2. ASSUME NEW i \in Files, FuseReadlink(i)
      PROVE  UNCHANGED Abs!vars
  BY <1>0, <1>2, ReadlinkStep, Unseen
<1>3. ASSUME NEW i \in Files, NEW root \in BOOLEAN, FuseOpen(i, root)
      PROVE  Abs!Next
  BY <1>3, OpenSim
<1>4. ASSUME NEW i \in Files, FuseRead(i)
      PROVE  UNCHANGED Abs!vars
  <2>1. Fine(dk') /\ Quiet /\ Tree(dk') = Tree(dk)
    BY <1>0, <1>4, ReadStep
  <2>2. Calm(Tree(dk), Tree(dk'))
    BY <2>1, CalmSame
  <2> QED BY <2>1, <2>2, Unseen
<1>5. ASSUME NEW i \in Files, FuseFlush(i)
      PROVE  UNCHANGED Abs!vars
  <2>1. Fine(dk') /\ Quiet /\ Tree(dk') = Tree(dk)
    BY <1>0, <1>5, FlushStep
  <2>2. Calm(Tree(dk), Tree(dk'))
    BY <2>1, CalmSame
  <2> QED BY <2>1, <2>2, Unseen
<1>6. ASSUME NEW i \in Files, FuseRelease(i)
      PROVE  Abs!Next
  BY <1>6, ReleaseSim
<1>7. ASSUME NEW i \in Dirs, FuseOpendir(i)
      PROVE  Abs!Next
  BY <1>7, OpendirSim
<1>8. ASSUME NEW i \in Used, FuseReleasedir(i)
      PROVE  Abs!Next
  BY <1>8, ReleasedirSim
<1>9. ASSUME NEW i \in Used, NEW datasync \in DataSyncs, FuseFsyncdir(i, datasync)
      PROVE  UNCHANGED Abs!vars
  <2>1. datasync \in BOOLEAN
    BY DataSyncsAssumption
  <2>2. Fine(dk') /\ dk'.fh = dk.fh /\ dk'.dh = dk.dh /\ Tree(dk') = Tree(dk)
    BY <1>0, <1>9, <2>1, FsyncdirStep
  <2>3. Calm(Tree(dk), Tree(dk'))
    BY <2>2, CalmSame
  <2> QED BY <2>2, <2>3, Hidden
<1>10. CASE Remount
  BY <1>0, <1>10, RemountStep, Unseen
<1> QED BY <1>1, <1>2, <1>3, <1>4, <1>5, <1>6, <1>7, <1>8, <1>9, <1>10 DEF HandleStep

-----------------------------------------------------------------------------
(* An entry of a node that leads to the node itself.                       *)
LEMMA OwnName ==
    ASSUME NEW f \in Trees, NEW i \in Ino, f[i] # Nil, NEW n \in Name, NEW g, g = WithName(f, i, n, i)
    PROVE  /\ g \in Trees /\ g[i] # Nil /\ \A d \in Ino \ {i} : g[d] = f[d]
           /\ g[i].kind = f[i].kind /\ g[i].nlink = f[i].nlink + 1
           /\ g[i].suid = f[i].suid /\ g[i].size = f[i].size
           /\ \A m \in Name : g[i].ents[m] = IF m = n THEN i ELSE f[i].ents[m]
<1> DEFINE e == SetName(f, i, n, i)
<1>1. /\ e \in Trees /\ e[i] # Nil /\ \A d \in Ino \ {i} : e[d] = f[d]
      /\ e[i].kind = f[i].kind /\ e[i].nlink = f[i].nlink
      /\ e[i].suid = f[i].suid /\ e[i].size = f[i].size
      /\ \A m \in Name : e[i].ents[m] = IF m = n THEN i ELSE f[i].ents[m]
  BY SetNameFields
<1>2. g = AddLinks(e, i, 1)
  BY DEF WithName
<1> HIDE DEF e
<1>3. 1 \in Int /\ e[i].nlink + 1 \in Nat
  BY <1>1 DEF Trees, Nodes
<1>4. /\ g \in Trees /\ g[i] # Nil /\ \A d \in Ino \ {i} : g[d] = e[d]
      /\ g[i].kind = e[i].kind /\ g[i].nlink = e[i].nlink + 1
      /\ g[i].suid = e[i].suid /\ g[i].size = e[i].size /\ g[i].ents = e[i].ents
  BY <1>1, <1>2, <1>3, AddLinksFields
<1> QED BY <1>1, <1>4

(* The root directory that FileSystem starts with.                         *)
RootNode ==
    [kind |-> "dir", nlink |-> 2, suid |-> FALSE, size |-> 0,
     ents |-> [n \in Name |-> IF n \in {".", ".."} THEN Root ELSE Nil]]

(* Its fields determine it.                                                *)
LEMMA RootNodeIs ==
    ASSUME NEW m \in Nodes, m.kind = "dir", m.nlink = 2, m.suid = FALSE, m.size = 0,
           \A n \in Name : m.ents[n] = IF n \in {".", ".."} THEN Root ELSE Nil
    PROVE  m = RootNode
<1> DEFINE y == [n \in Name |-> IF n \in {".", ".."} THEN Root ELSE Nil]
<1>1. m.ents = y
  <2>1. m.ents \in Entries
    BY DEF Nodes
  <2> QED BY <2>1 DEF Entries
<1> HIDE DEF y
<1>2. RootNode = [kind |-> "dir", nlink |-> 2, suid |-> FALSE, size |-> 0, ents |-> y]
  BY DEF RootNode, y
<1> QED BY <1>1, <1>2 DEF Nodes

(* A node with an entry more.                                              *)
Entering(m, k, r) == [m EXCEPT !.ents[k] = r]
(* Its fields.                                                             *)
LEMMA EntryIn ==
    ASSUME NEW m \in Nodes, NEW k \in Name, NEW r \in Ino, NEW x, x = Entering(m, k, r)
    PROVE  /\ x \in Nodes /\ x.kind = m.kind /\ x.nlink = m.nlink /\ x.suid = m.suid /\ x.size = m.size
           /\ \A n \in Name : x.ents[n] = IF n = k THEN r ELSE m.ents[n]
<1> DEFINE e == [m.ents EXCEPT ![k] = r]
<1>1. m.ents \in Entries
  BY DEF Nodes
<1>2. e \in Entries /\ \A n \in Name : e[n] = IF n = k THEN r ELSE m.ents[n]
  BY <1>1 DEF Entries
<1>3. x = [m EXCEPT !.ents = e]
  BY DEF Entering
<1> HIDE DEF e
<1>4. x \in Nodes /\ x.kind = m.kind /\ x.nlink = m.nlink /\ x.suid = m.suid /\ x.size = m.size
      /\ x.ents = e
  BY <1>2, <1>3 DEF Nodes
<1> QED BY <1>2, <1>4

(* RootNode as FileSystem writes it.                                       *)
LEMMA RootNodeOK ==
    /\ RootNode \in Nodes
    /\ [Abs!Node("dir", 2) EXCEPT !.ents["."] = Root, !.ents[".."] = Root] = RootNode
<1>1. "." \in Name /\ ".." \in Name /\ "." # ".." /\ Root \in Ino
  BY NamesOK, InoAssumption
<1>2. PICK u : u = Abs!Node("dir", 2)
  OBVIOUS
<1>3. /\ u \in Nodes /\ u.kind = "dir" /\ u.nlink = 2 /\ u.suid = FALSE /\ u.size = 0
      /\ \A n \in Name : u.ents[n] = Nil
  <2>1. u = [kind |-> "dir", nlink |-> 2, suid |-> FALSE, size |-> 0, ents |-> NoEntries]
    BY <1>2 DEF Abs!Node, Abs!Name, Name, NoEntries
  <2>2. NoEntries \in Entries /\ \A n \in Name : NoEntries[n] = Nil
    BY DEF NoEntries, Entries
  <2> QED BY <2>1, <2>2 DEF Nodes
<1>4. PICK v : v = Entering(u, ".", Root)
  OBVIOUS
<1>5. PICK w : w = Entering(v, "..", Root)
  OBVIOUS
<1>6. [Abs!Node("dir", 2) EXCEPT !.ents["."] = Root, !.ents[".."] = Root] = w
  BY <1>2, <1>4, <1>5 DEF Entering
<1>7. /\ v \in Nodes /\ v.kind = u.kind /\ v.nlink = u.nlink /\ v.suid = u.suid /\ v.size = u.size
      /\ \A n \in Name : v.ents[n] = IF n = "." THEN Root ELSE u.ents[n]
  BY <1>1, <1>3, <1>4, EntryIn
<1>8. /\ w \in Nodes /\ w.kind = v.kind /\ w.nlink = v.nlink /\ w.suid = v.suid /\ w.size = v.size
      /\ \A n \in Name : w.ents[n] = IF n = ".." THEN Root ELSE v.ents[n]
  BY <1>1, <1>5, <1>7, EntryIn
<1>9. /\ w.kind = "dir" /\ w.nlink = 2 /\ w.suid = FALSE /\ w.size = 0
      /\ \A n \in Name : w.ents[n] = IF n \in {".", ".."} THEN Root ELSE Nil
  BY <1>3, <1>7, <1>8
<1>10. w = RootNode
  BY <1>8, <1>9, RootNodeIs
<1> QED BY <1>6, <1>8, <1>10

(* format makes the tree that FileSystem starts with.                      *)
LEMMA FirstNode ==
    /\ NewDir(NoTree, Root, Root) \in Trees
    /\ NewDir(NoTree, Root, Root) = [i \in Ino |-> IF i = Root THEN RootNode ELSE Nil]
<1> DEFINE a == Grown(NoTree, Root, "dir")
           b == WithName(a, Root, ".", Root)
           c == WithName(b, Root, "..", Root)
<1>1. "." \in Name /\ ".." \in Name /\ "." # ".." /\ Root \in Ino /\ "dir" \in {"file", "dir"}
      /\ \A n \in Name : n = "." \/ n = ".." \/ n \in Names
  BY NamesOK, InoAssumption DEF Name
<1>2. NoTree \in Trees /\ \A d \in Ino : NoTree[d] = Nil
  BY DEF NoTree, Trees
<1>3. a \in Trees /\ a[Root] = NewNode("dir") /\ a[Root] # Nil /\ \A d \in Ino \ {Root} : a[d] = NoTree[d]
  BY <1>1, <1>2, GrownFields
<1>4. c = NewDir(NoTree, Root, Root)
  BY DEF NewDir
<1> HIDE DEF a
<1>5. /\ b \in Trees /\ b[Root] # Nil /\ \A d \in Ino \ {Root} : b[d] = a[d]
      /\ b[Root].kind = a[Root].kind /\ b[Root].nlink = a[Root].nlink + 1
      /\ b[Root].suid = a[Root].suid /\ b[Root].size = a[Root].size
      /\ \A m \in Name : b[Root].ents[m] = IF m = "." THEN Root ELSE a[Root].ents[m]
  BY <1>1, <1>3, OwnName
<1> HIDE DEF b
<1>6. /\ c \in Trees /\ c[Root] # Nil /\ \A d \in Ino \ {Root} : c[d] = b[d]
      /\ c[Root].kind = b[Root].kind /\ c[Root].nlink = b[Root].nlink + 1
      /\ c[Root].suid = b[Root].suid /\ c[Root].size = b[Root].size
      /\ \A m \in Name : c[Root].ents[m] = IF m = ".." THEN Root ELSE b[Root].ents[m]
  BY <1>1, <1>5, OwnName
<1> HIDE DEF c
<1>7. /\ c[Root].kind = "dir" /\ c[Root].nlink = 2 /\ c[Root].suid = FALSE /\ c[Root].size = 0
      /\ \A m \in Name : c[Root].ents[m] = IF m \in {".", ".."} THEN Root ELSE Nil
  <2>1. /\ a[Root].kind = "dir" /\ a[Root].nlink = 0 /\ a[Root].suid = FALSE /\ a[Root].size = 0
        /\ \A m \in Name : a[Root].ents[m] = Nil
    BY <1>3 DEF NewNode, NoEntries
  <2>2. c[Root].nlink = 2
    BY <2>1, <1>5, <1>6
  <2> QED BY <2>1, <2>2, <1>5, <1>6
<1>8. c[Root] = RootNode
  <2>1. c[Root] \in Nodes
    BY <1>1, <1>6 DEF Trees
  <2> QED BY <1>7, <2>1, RootNodeIs
<1>9. \A d \in Ino : c[d] = IF d = Root THEN RootNode ELSE Nil
  BY <1>2, <1>3, <1>5, <1>6, <1>8
<1>10. c = [i \in Ino |-> IF i = Root THEN RootNode ELSE Nil]
  BY <1>6, <1>9 DEF Trees
<1> QED BY <1>4, <1>6, <1>10

(* A formatted file system is a new FileSystem.                            *)
LEMMA InitSim ==
    ASSUME EnoughBlocks, Init
    PROVE  Abs!Init
<1> DEFINE f == NewDir(NoTree, Root, Root)
<1>1. /\ Fine(dk) /\ f \in Trees /\ Calm(f, Tree(dk))
      /\ dk.fh = [i \in Ino |-> 0] /\ dk.dh = [i \in Ino |-> 0]
  BY FormatOK DEF Init
<1>2. f = [i \in Ino |-> IF i = Root THEN RootNode ELSE Nil]
  BY FirstNode
<1> HIDE DEF f
<1>3. /\ dk.fh \in [Ino -> Nat] /\ dk.dh \in [Ino -> Nat]
      /\ \A i \in Ino : Tree(dk)[i] = Nil => dk.fh[i] = 0 /\ dk.dh[i] = 0
      /\ Tree(dk) \in Trees
  BY <1>1, HandlesOK, SaneRoot
<1>4. View = Shown(Tree(dk), dk.fh, dk.dh)
  BY <1>1, ViewSeen, SeenShown
<1>5. View = Shown(f, dk.fh, dk.dh)
  BY <1>1, <1>3, <1>4, ShownCalm
<1>6. Shown(f, dk.fh, dk.dh) = f
  <2> SUFFICES ASSUME NEW i \in Ino, f[i] # Nil
               PROVE  f[i].nlink + dk.fh[i] + dk.dh[i] # 0
    BY <1>1 DEF Shown, Trees
  <2>1. f[i] = RootNode
    BY <1>2
  <2>2. f[i].nlink = 2 /\ dk.fh[i] = 0 /\ dk.dh[i] = 0
    BY <1>1, <2>1 DEF RootNode
  <2> QED BY <2>2
<1>7. View = [i \in Ino |-> IF i = Root
                THEN [Abs!Node("dir", 2) EXCEPT !.ents["."] = Root, !.ents[".."] = Root] ELSE Nil]
  BY <1>2, <1>5, <1>6, RootNodeOK
<1> QED BY <1>1, <1>7 DEF Abs!Init

-----------------------------------------------------------------------------
(* Every step is a step of FileSystem or shows nothing.                    *)
LEMMA NextSim ==
    ASSUME EnoughBlocks, Inv, Precise(Tree(dk)), [Next]_vars
    PROVE  [Abs!Next]_Abs!vars
<1>1. CASE Next
  <2>1. Now
    BY DEF Now, Inv
  <2> QED BY <1>1, <2>1, NameSim, InodeSim, HandleSim DEF Next
<1>2. CASE UNCHANGED vars
  <2>1. UNCHANGED View
    BY <1>2, ViewSeen DEF vars
  <2> QED BY <1>2, <2>1 DEF vars, Abs!vars
<1> QED BY <1>1, <1>2

(* The mounted file system implements FileSystem: whatever the caches, the *)
(* close lists, the write-back and remounting do, users of a mount with a  *)
(* block for each inode see calls that take effect at once and inodes that *)
(* live while they have a link or a handle.                                *)
THEOREM Refinement ==
    EnoughBlocks => (Spec => ImplementsFileSystem)
<1> SUFFICES ASSUME EnoughBlocks
             PROVE  Spec => ImplementsFileSystem
  OBVIOUS
<1>1. Init => Precise(Tree(dk))
  BY PreciseInit
<1>2. Inv /\ Precise(Tree(dk)) /\ [Next]_vars => Precise(Tree(dk))'
  <2> SUFFICES ASSUME Inv, Precise(Tree(dk)), [Next]_vars
               PROVE  Precise(Tree(dk))'
    OBVIOUS
  <2> QED BY PreciseNext
<1>3. Init => Abs!Init
  BY InitSim
<1>4. Inv /\ Precise(Tree(dk)) /\ [Next]_vars => [Abs!Next]_Abs!vars
  BY NextSim
<1>5. Spec => []Inv
  BY InvAlways
<1> QED BY <1>1, <1>2, <1>3, <1>4, <1>5, PTL DEF Spec, ImplementsFileSystem, Abs!Spec
=============================================================================
