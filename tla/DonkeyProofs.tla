---------------------------- MODULE DonkeyProofs -----------------------------
(***************************************************************************)
(* Proofs about struct Donkey of module Donkey, for any number of inodes,  *)
(* blocks and names: every method of the library keeps the caches, the     *)
(* close lists and the device Coherent and everything in the caches Kept,  *)
(* and changes the tree (first half) as its name says, up to what a        *)
(* close list that is worked off on the way changes (Calm).                *)
(*                                                                         *)
(* The methods are operators from a state s to a state t, so each lemma is *)
(* about a state s in which the method may be called.                      *)
(***************************************************************************)
EXTENDS DonkeyFuse, InductionProofs

-----------------------------------------------------------------------------
(***************************************************************************)
(* The tree of a Donkey file system as users see it, as a function f from  *)
(* inode numbers to nodes (Nil: not allocated), and what the changes that  *)
(* the library makes to it do: names come and go, link counts go up and    *)
(* down, new nodes appear, attributes change, and nodes without a link     *)
(* disappear when a close list is worked off.                              *)
(*                                                                         *)
(* The lemmas show that these changes keep a tree Sane: no node has more   *)
(* entries leading to it than links (Covered), a name leads neither to its *)
(* own directory nor to the root (Proper), and the root is linked. Link    *)
(* counts may exceed the entries, because a directory whose content could  *)
(* not be written loses them all (Calm). The argument that a directory     *)
(* survives a call is that it is Held: linked even without one particular  *)
(* entry, namely the one that the call may remove.                         *)
(***************************************************************************)

(* There is a block for every inode, so that content is always written.    *)
EnoughBlocks == Cardinality(Ino) <= Blocks

(* The trees.                                                              *)
Trees == [Ino -> Nodes \union {Nil}]

(* What working off a close list may change: a node without a link         *)
(* disappears; and without enough blocks, a directory whose content could  *)
(* not be written (FlushDir clears the dirty flag all the same) is read    *)
(* back empty.                                                             *)
Calm(f, g) ==
    \A i \in Ino :
        \/ g[i] = f[i]
        \/ f[i] # Nil /\ f[i].nlink = 0 /\ g[i] = Nil
        \/ ~EnoughBlocks /\ f[i] # Nil /\ g[i] = [f[i] EXCEPT !.ents = NoEntries]

(* Working off close lists twice.                                          *)
LEMMA CalmTrans ==
    ASSUME NEW f \in Trees, NEW g, NEW h, Calm(f, g), Calm(g, h)
    PROVE  Calm(f, h)
<1> SUFFICES ASSUME NEW i \in Ino
             PROVE  \/ h[i] = f[i]
                    \/ f[i] # Nil /\ f[i].nlink = 0 /\ h[i] = Nil
                    \/ ~EnoughBlocks /\ f[i] # Nil /\ h[i] = [f[i] EXCEPT !.ents = NoEntries]
  BY DEF Calm
<1>1. \/ g[i] = f[i]
      \/ f[i] # Nil /\ f[i].nlink = 0 /\ g[i] = Nil
      \/ ~EnoughBlocks /\ f[i] # Nil /\ g[i] = [f[i] EXCEPT !.ents = NoEntries]
  BY DEF Calm
<1>2. \/ h[i] = g[i]
      \/ g[i] # Nil /\ g[i].nlink = 0 /\ h[i] = Nil
      \/ ~EnoughBlocks /\ g[i] # Nil /\ h[i] = [g[i] EXCEPT !.ents = NoEntries]
  BY DEF Calm
<1>3. f[i] # Nil => f[i] \in Nodes
  BY DEF Trees
<1>4. f[i] # Nil => /\ [f[i] EXCEPT !.ents = NoEntries].nlink = f[i].nlink
                    /\ [[f[i] EXCEPT !.ents = NoEntries] EXCEPT !.ents = NoEntries]
                         = [f[i] EXCEPT !.ents = NoEntries]
  BY <1>3 DEF Nodes
<1> QED BY <1>1, <1>2, <1>4

(* An entry is set, and a link count is changed.                           *)
SetName(f, p, n, i) == [f EXCEPT ![p].ents[n] = i]
AddLinks(f, i, k)   == [f EXCEPT ![i].nlink = @ + k]

(* A node with other entries or another link count, spelled out.           *)
LEMMA NodeEdits ==
    ASSUME NEW m \in Nodes
    PROVE  /\ \A e \in Entries :
                /\ [m EXCEPT !.ents = e] \in Nodes
                /\ [m EXCEPT !.ents = e] = [kind |-> m.kind, nlink |-> m.nlink, suid |-> m.suid,
                                            size |-> m.size, ents |-> e]
           /\ \A k \in Nat :
                /\ [m EXCEPT !.nlink = k] \in Nodes
                /\ [m EXCEPT !.nlink = k] = [kind |-> m.kind, nlink |-> k, suid |-> m.suid,
                                             size |-> m.size, ents |-> m.ents]
           /\ \A n \in Name, i \in Ino \union {Nil} : [m.ents EXCEPT ![n] = i] \in Entries
  BY DEF Nodes, Entries

(* Setting an entry changes one node.                                      *)
LEMMA SetNameOK ==
    ASSUME NEW f \in Trees, NEW p \in Ino, f[p] # Nil, NEW n \in Name, NEW i \in Ino \union {Nil}
    PROVE  LET e == [f[p].ents EXCEPT ![n] = i]
           IN  /\ SetName(f, p, n, i) \in Trees
               /\ SetName(f, p, n, i)[p] = [f[p] EXCEPT !.ents = e]
               /\ \A j \in Ino \ {p} : SetName(f, p, n, i)[j] = f[j]
<1> DEFINE e == [f[p].ents EXCEPT ![n] = i]
           g == SetName(f, p, n, i)
<1>1. f[p] \in Nodes
  BY DEF Trees
<1>2. e \in Entries /\ [f[p] EXCEPT !.ents = e] \in Nodes
  BY <1>1, NodeEdits
<1>3. g = [f EXCEPT ![p] = [f[p] EXCEPT !.ents = e]]
  BY DEF SetName
<1> HIDE DEF g, e
<1>4. g \in Trees
  BY <1>2, <1>3 DEF Trees
<1>5. g[p] = [f[p] EXCEPT !.ents = e] /\ \A j \in Ino \ {p} : g[j] = f[j]
  BY <1>3 DEF Trees
<1> QED BY <1>4, <1>5 DEF g, e

(* Changing a link count changes one node.                                 *)
LEMMA AddLinksOK ==
    ASSUME NEW f \in Trees, NEW i \in Ino, f[i] # Nil, NEW k \in Int, f[i].nlink + k \in Nat
    PROVE  /\ AddLinks(f, i, k) \in Trees
           /\ AddLinks(f, i, k)[i] = [f[i] EXCEPT !.nlink = f[i].nlink + k]
           /\ \A j \in Ino \ {i} : AddLinks(f, i, k)[j] = f[j]
<1> DEFINE g == AddLinks(f, i, k)
           m == f[i].nlink + k
<1>1. f[i] \in Nodes
  BY DEF Trees
<1>2. [f[i] EXCEPT !.nlink = m] \in Nodes
  BY <1>1, NodeEdits
<1>3. g = [f EXCEPT ![i] = [f[i] EXCEPT !.nlink = m]]
  BY DEF AddLinks
<1> HIDE DEF g, m
<1>4. g \in Trees
  BY <1>2, <1>3 DEF Trees
<1>5. g[i] = [f[i] EXCEPT !.nlink = m] /\ \A j \in Ino \ {i} : g[j] = f[j]
  BY <1>3 DEF Trees
<1> QED BY <1>4, <1>5 DEF g, m

-----------------------------------------------------------------------------
(* A name appears, with the link it stands for, or disappears.             *)
WithName(f, p, n, i) == AddLinks(SetName(f, p, n, i), i, 1)
WithoutName(f, p, n) == AddLinks(SetName(f, p, n, Nil), f[p].ents[n], -1)

(* The names of module FileSystem are these.                               *)
LEMMA AbsNames ==
    ASSUME NEW f, NEW p, NEW n, NEW i
    PROVE  Abs!WithName(f, p, n, i) = WithName(f, p, n, i)
  BY DEF Abs!WithName, WithName, SetName, AddLinks

(* Setting an entry, field by field.                                       *)
LEMMA SetNameFields ==
    ASSUME NEW f \in Trees, NEW p \in Ino, f[p] # Nil, NEW n \in Name, NEW i \in Ino \union {Nil},
           NEW g, g = SetName(f, p, n, i)
    PROVE  /\ g \in Trees /\ g[p] # Nil /\ \A d \in Ino \ {p} : g[d] = f[d]
           /\ g[p].kind = f[p].kind /\ g[p].nlink = f[p].nlink
           /\ g[p].suid = f[p].suid /\ g[p].size = f[p].size
           /\ \A m \in Name : g[p].ents[m] = IF m = n THEN i ELSE f[p].ents[m]
<1> DEFINE e == [f[p].ents EXCEPT ![n] = i]
           m == [f[p] EXCEPT !.ents = e]
<1>1. f[p] \in Nodes
  BY DEF Trees
<1>2. e \in Entries /\ \A k \in Name : e[k] = IF k = n THEN i ELSE f[p].ents[k]
  BY <1>1 DEF Entries, Nodes
<1>3. g = [f EXCEPT ![p] = m]
  BY DEF SetName
<1> HIDE DEF e
<1>4. m \in Nodes /\ m.kind = f[p].kind /\ m.nlink = f[p].nlink
      /\ m.suid = f[p].suid /\ m.size = f[p].size /\ m.ents = e
  BY <1>1, <1>2 DEF Nodes
<1> HIDE DEF m
<1>5. g \in Trees /\ g[p] = m /\ \A d \in Ino \ {p} : g[d] = f[d]
  BY <1>3, <1>4 DEF Trees
<1> QED BY <1>2, <1>4, <1>5, NodeAssumption

(* Changing a link count, field by field.                                  *)
LEMMA AddLinksFields ==
    ASSUME NEW f \in Trees, NEW i \in Ino, f[i] # Nil, NEW k \in Int, f[i].nlink + k \in Nat,
           NEW g, g = AddLinks(f, i, k)
    PROVE  /\ g \in Trees /\ g[i] # Nil /\ \A d \in Ino \ {i} : g[d] = f[d]
           /\ g[i].kind = f[i].kind /\ g[i].nlink = f[i].nlink + k
           /\ g[i].suid = f[i].suid /\ g[i].size = f[i].size /\ g[i].ents = f[i].ents
<1> DEFINE l == f[i].nlink + k
           m == [f[i] EXCEPT !.nlink = l]
<1>1. f[i] \in Nodes
  BY DEF Trees
<1>2. g = [f EXCEPT ![i] = m]
  BY DEF AddLinks
<1>3. l \in Nat /\ l = f[i].nlink + k
  OBVIOUS
<1> HIDE DEF l
<1>4. m \in Nodes /\ m.kind = f[i].kind /\ m.nlink = l
      /\ m.suid = f[i].suid /\ m.size = f[i].size /\ m.ents = f[i].ents
  BY <1>1, <1>3 DEF Nodes
<1> HIDE DEF m
<1>5. g \in Trees /\ g[i] = m /\ \A d \in Ino \ {i} : g[d] = f[d]
  BY <1>2, <1>4 DEF Trees
<1> QED BY <1>3, <1>4, <1>5, NodeAssumption

(* Both, field by field.                                                   *)
LEMMA NameEdit ==
    ASSUME NEW f \in Trees, NEW p \in Ino, f[p] # Nil, NEW n \in Name, NEW j \in Ino \union {Nil},
           NEW i \in Ino, f[i] # Nil, NEW k \in Int, f[i].nlink + k \in Nat,
           NEW g, g = AddLinks(SetName(f, p, n, j), i, k)
    PROVE  /\ g \in Trees
           /\ \A d \in Ino :
                /\ g[d] = Nil <=> f[d] = Nil
                /\ g[d] # Nil =>
                     /\ g[d].kind = f[d].kind /\ g[d].suid = f[d].suid /\ g[d].size = f[d].size
                     /\ g[d].nlink = f[d].nlink + (IF d = i THEN k ELSE 0)
                     /\ \A m \in Name : g[d].ents[m] = IF d = p /\ m = n THEN j ELSE f[d].ents[m]
<1> DEFINE h == SetName(f, p, n, j)
<1>1. /\ h \in Trees /\ h[p] # Nil /\ \A d \in Ino \ {p} : h[d] = f[d]
      /\ h[p].kind = f[p].kind /\ h[p].nlink = f[p].nlink
      /\ h[p].suid = f[p].suid /\ h[p].size = f[p].size
      /\ \A m \in Name : h[p].ents[m] = IF m = n THEN j ELSE f[p].ents[m]
  BY SetNameFields
<1>2. g = AddLinks(h, i, k)
  OBVIOUS
<1> HIDE DEF h
<1>3. h[i] # Nil /\ h[i].nlink = f[i].nlink
  BY <1>1
<1>4. /\ g \in Trees /\ g[i] # Nil /\ \A d \in Ino \ {i} : g[d] = h[d]
      /\ g[i].kind = h[i].kind /\ g[i].nlink = h[i].nlink + k
      /\ g[i].suid = h[i].suid /\ g[i].size = h[i].size /\ g[i].ents = h[i].ents
  BY <1>1, <1>2, <1>3, AddLinksFields
<1>5. ASSUME NEW d \in Ino
      PROVE  /\ g[d] = Nil <=> f[d] = Nil
             /\ g[d] # Nil =>
                  /\ g[d].kind = f[d].kind /\ g[d].suid = f[d].suid /\ g[d].size = f[d].size
                  /\ g[d].nlink = f[d].nlink + (IF d = i THEN k ELSE 0)
                  /\ \A m \in Name : g[d].ents[m] = IF d = p /\ m = n THEN j ELSE f[d].ents[m]
  <2>1. f[d] # Nil => f[d].nlink + 0 = f[d].nlink
    BY DEF Trees, Nodes
  <2> QED BY <2>1, <1>1, <1>3, <1>4
<1> QED BY <1>4, <1>5

(* The entries there may be, and those of f that lead to i.                *)
Positions == Ino \X Name
Refs(f, i) == {x \in Positions : f[x[1]] # Nil /\ f[x[1]].ents[x[2]] = i}

(* No node has more entries leading to it than links.                      *)
Covered(f) == \A i \in Ino : Cardinality(Refs(f, i)) <= IF f[i] = Nil THEN 0 ELSE f[i].nlink

(* No name leads to the root or to the directory it is in.                 *)
Proper(f) ==
    \A d \in Ino, n \in Names :
        f[d] # Nil /\ f[d].ents[n] # Nil => f[d].ents[n] \notin {d, Root}

(* A tree with both.                                                       *)
Counted(f) == f \in Trees /\ Covered(f) /\ Proper(f)

(* i is linked, even without the entry x.                                  *)
Held(f, i, x) == f[i] # Nil /\ Cardinality(Refs(f, i) \ {x}) < f[i].nlink

(* From f to g, what is held without one of X stays held and of its kind.  *)
Safe(f, g, X) ==
    \A i \in Ino, x \in X : Held(f, i, x) => Held(g, i, x) /\ g[i].kind = f[i].kind

(* The entry that is left aside where the root is held: its own ".".       *)
RootLink == <<Root, ".">>
Rooted(f) == Held(f, Root, RootLink) /\ f[Root].kind = "dir"

(* The invariant of trees.                                                 *)
Sane(f) == Counted(f) /\ Rooted(f)

(* The entries that lead to a node are finitely many; one of them less.    *)
LEMMA RefsFinite ==
    ASSUME NEW f, NEW i
    PROVE  /\ IsFiniteSet(Refs(f, i)) /\ Cardinality(Refs(f, i)) \in Nat
           /\ \A x : /\ IsFiniteSet(Refs(f, i) \ {x}) /\ Cardinality(Refs(f, i) \ {x}) \in Nat
                     /\ Cardinality(Refs(f, i) \ {x}) =
                          IF x \in Refs(f, i) THEN Cardinality(Refs(f, i)) - 1
                          ELSE Cardinality(Refs(f, i))
<1>1. IsFiniteSet(Name)
  <2>1. Name = (Names \union {"."}) \union {".."}
    BY DEF Name
  <2> QED BY <2>1, NamesAssumption, FS_AddElement
<1>2. IsFiniteSet(Positions)
  BY <1>1, InoAssumption, FS_Product DEF Positions
<1>3. Refs(f, i) \in SUBSET Positions
  BY DEF Refs
<1>4. IsFiniteSet(Refs(f, i))
  BY <1>2, <1>3, FS_Subset
<1> HIDE DEF Refs
<1> QED BY <1>4, FS_CardinalityType, FS_RemoveElement

(* What an entry leads to exists, is linked, and is held without the       *)
(* entry's being counted.                                                  *)
LEMMA EntryHeld ==
    ASSUME NEW f, Counted(f), NEW p \in Ino, f[p] # Nil, NEW n \in Name, f[p].ents[n] # Nil
    PROVE  LET i == f[p].ents[n]
           IN  /\ i \in Ino /\ f[i] # Nil /\ f[i].nlink \in Nat /\ f[i].nlink > 0
               /\ Held(f, i, <<p, n>>)
<1> DEFINE i == f[p].ents[n]
           x == <<p, n>>
<1>1. f[p] \in Nodes
  BY DEF Counted, Trees
<1>2. i \in Ino
  BY <1>1 DEF Nodes, Entries
<1>3. x \in Positions
  BY DEF Positions
<1>4. x \in Refs(f, i)
  BY <1>3 DEF Refs
<1> HIDE DEF i, x
<1>5. /\ Cardinality(Refs(f, i)) \in Nat /\ Cardinality(Refs(f, i) \ {x}) \in Nat
      /\ Cardinality(Refs(f, i) \ {x}) = Cardinality(Refs(f, i)) - 1
  BY <1>4, RefsFinite
<1>6. Cardinality(Refs(f, i)) <= IF f[i] = Nil THEN 0 ELSE f[i].nlink
  BY <1>2 DEF Counted, Covered
<1>7. f[i] # Nil
  BY <1>5, <1>6
<1>8. f[i].nlink \in Nat
  BY <1>2, <1>7 DEF Counted, Trees, Nodes
<1> QED BY <1>2, <1>5, <1>6, <1>7, <1>8 DEF Held, i, x

(* A change under which the root stays held keeps a tree sane.             *)
LEMMA SafeSane ==
    ASSUME NEW f, NEW g, NEW X, Sane(f), Counted(g), Safe(f, g, X), RootLink \in X
    PROVE  Sane(g)
  BY InoAssumption DEF Sane, Rooted, Safe

(* Two safe changes.                                                       *)
LEMMA SafeTrans ==
    ASSUME NEW f, NEW g, NEW h, NEW X, Safe(f, g, X), Safe(g, h, X)
    PROVE  Safe(f, h, X)
  BY DEF Safe

(* Working off a close list keeps the counts, and everything held.         *)
LEMMA CalmCounted ==
    ASSUME NEW f, NEW g \in Trees, Counted(f), Calm(f, g)
    PROVE  Counted(g) /\ Safe(f, g, Positions)
<1>1. f \in Trees /\ Covered(f) /\ Proper(f)
  BY DEF Counted
<1>2. \A d \in Ino : f[d] # Nil => f[d] \in Nodes
  BY <1>1 DEF Trees
<1>3. NoEntries \in Entries /\ \A m \in Name : NoEntries[m] = Nil
  BY DEF NoEntries, Entries
<1>4. ASSUME NEW d \in Ino
      PROVE  /\ f[d] = Nil => g[d] = Nil
             /\ g[d] # Nil => /\ g[d].kind = f[d].kind /\ g[d].nlink = f[d].nlink
                              /\ \A m \in Name : g[d].ents[m] \in {f[d].ents[m], Nil}
             /\ g[d] = Nil /\ f[d] # Nil => f[d].nlink = 0
  <2> DEFINE k == [f[d] EXCEPT !.ents = NoEntries]
  <2>1. f[d] # Nil => /\ k \in Nodes /\ k.kind = f[d].kind /\ k.nlink = f[d].nlink
                      /\ k.ents = NoEntries
    BY <1>2, <1>3 DEF Nodes
  <2>2. g[d] = f[d] \/ (f[d] # Nil /\ f[d].nlink = 0 /\ g[d] = Nil) \/ (f[d] # Nil /\ g[d] = k)
    BY DEF Calm
  <2> HIDE DEF k
  <2>3. f[d] # Nil => k # Nil
    BY <2>1, NodeAssumption
  <2> QED BY <2>1, <2>2, <2>3, <1>3
<1>5. ASSUME NEW i \in Ino
      PROVE  Refs(g, i) \subseteq Refs(f, i)
  <2> SUFFICES ASSUME NEW x \in Positions, g[x[1]] # Nil, g[x[1]].ents[x[2]] = i
               PROVE  f[x[1]] # Nil /\ f[x[1]].ents[x[2]] = i
    BY DEF Refs
  <2>1. x[1] \in Ino /\ x[2] \in Name
    BY DEF Positions
  <2> QED BY <2>1, <1>4, NilAssumption
<1>6. \A i \in Ino : /\ Cardinality(Refs(g, i)) <= Cardinality(Refs(f, i))
                     /\ Cardinality(Refs(g, i)) \in Nat /\ Cardinality(Refs(f, i)) \in Nat
  <2> SUFFICES ASSUME NEW i \in Ino
               PROVE  /\ Cardinality(Refs(g, i)) <= Cardinality(Refs(f, i))
                      /\ Cardinality(Refs(g, i)) \in Nat /\ Cardinality(Refs(f, i)) \in Nat
    OBVIOUS
  <2>1. Refs(g, i) \in SUBSET Refs(f, i)
    BY <1>5
  <2> QED BY <2>1, RefsFinite, FS_Subset
<1>7. Covered(g)
  <2> SUFFICES ASSUME NEW i \in Ino
               PROVE  Cardinality(Refs(g, i)) <= IF g[i] = Nil THEN 0 ELSE g[i].nlink
    BY DEF Covered
  <2>1. Cardinality(Refs(f, i)) <= IF f[i] = Nil THEN 0 ELSE f[i].nlink
    BY <1>1 DEF Covered
  <2>2. f[i] # Nil => f[i].nlink \in Nat
    BY <1>2 DEF Nodes
  <2> QED BY <2>1, <2>2, <1>4, <1>6
<1>8. Proper(g)
  <2>1. Names \subseteq Name
    BY DEF Name
  <2> QED BY <2>1, <1>1, <1>4 DEF Proper
<1>9. ASSUME NEW i \in Ino, NEW x, Held(f, i, x)
      PROVE  Held(g, i, x) /\ g[i].kind = f[i].kind
  <2>1. Refs(g, i) \ {x} \in SUBSET (Refs(f, i) \ {x})
    BY <1>5
  <2>2. /\ Cardinality(Refs(g, i) \ {x}) <= Cardinality(Refs(f, i) \ {x})
        /\ Cardinality(Refs(g, i) \ {x}) \in Nat /\ Cardinality(Refs(f, i) \ {x}) \in Nat
    BY <2>1, RefsFinite, FS_Subset
  <2>3. f[i] # Nil /\ f[i].nlink \in Nat /\ Cardinality(Refs(f, i) \ {x}) < f[i].nlink
    BY <1>2, <1>9 DEF Held, Nodes
  <2>4. g[i] # Nil
    BY <2>2, <2>3, <1>4
  <2> QED BY <2>2, <2>3, <2>4, <1>4 DEF Held
<1> QED BY <1>7, <1>8, <1>9 DEF Counted, Safe

(* A new name keeps the counts, and everything held.                       *)
LEMMA WithNameCounted ==
    ASSUME NEW f, Counted(f), NEW p \in Ino, f[p] # Nil, NEW n \in Name, f[p].ents[n] = Nil,
           NEW i \in Ino, f[i] # Nil, n \in Names => i \notin {p, Root},
           NEW g, g = WithName(f, p, n, i)
    PROVE  /\ Counted(g) /\ Safe(f, g, Positions)
           /\ g[p] # Nil /\ g[p].ents[n] = i
<1>1. f \in Trees /\ Covered(f) /\ Proper(f)
  BY DEF Counted
<1>2. \A d \in Ino : f[d] # Nil => f[d] \in Nodes /\ f[d].nlink \in Nat
  BY <1>1 DEF Trees, Nodes
<1>3. f[i].nlink + 1 \in Nat /\ g = AddLinks(SetName(f, p, n, i), i, 1)
  BY <1>2 DEF WithName
<1>4. /\ g \in Trees
      /\ \A d \in Ino :
           /\ g[d] = Nil <=> f[d] = Nil
           /\ g[d] # Nil =>
                /\ g[d].kind = f[d].kind
                /\ g[d].nlink = f[d].nlink + (IF d = i THEN 1 ELSE 0)
                /\ \A m \in Name : g[d].ents[m] = IF d = p /\ m = n THEN i ELSE f[d].ents[m]
  BY <1>1, <1>3, NameEdit
<1> DEFINE x == <<p, n>>
<1>5. x \in Positions /\ \A y \in Positions : y[1] \in Ino /\ y[2] \in Name /\ (y = x <=> y[1] = p /\ y[2] = n)
  BY DEF Positions
<1>6. \A k \in Ino : x \notin Refs(f, k)
  BY <1>5, NilAssumption DEF Refs
<1>7. \A k \in Ino : Refs(g, k) = IF k = i THEN Refs(f, k) \union {x} ELSE Refs(f, k)
  <2> SUFFICES ASSUME NEW k \in Ino, NEW y \in Positions
               PROVE  (g[y[1]] # Nil /\ g[y[1]].ents[y[2]] = k) <=>
                      (f[y[1]] # Nil /\ f[y[1]].ents[y[2]] = k) \/ (k = i /\ y = x)
    BY <1>5 DEF Refs
  <2> HIDE DEF x
  <2>1. CASE y = x
    BY <2>1, <1>4, <1>5, NilAssumption
  <2>2. CASE y # x
    BY <2>2, <1>4, <1>5
  <2> QED BY <2>1, <2>2
<1> HIDE DEF x
<1>8. \A k \in Ino : /\ Cardinality(Refs(f, k)) \in Nat
                     /\ Cardinality(Refs(g, k)) = Cardinality(Refs(f, k)) + (IF k = i THEN 1 ELSE 0)
  BY <1>6, <1>7, RefsFinite, FS_AddElement
<1>9. Covered(g)
  <2> SUFFICES ASSUME NEW k \in Ino
               PROVE  Cardinality(Refs(g, k)) <= IF g[k] = Nil THEN 0 ELSE g[k].nlink
    BY DEF Covered
  <2>1. Cardinality(Refs(f, k)) <= IF f[k] = Nil THEN 0 ELSE f[k].nlink
    BY <1>1 DEF Covered
  <2> QED BY <2>1, <1>2, <1>4, <1>8
<1>10. Proper(g)
  <2> SUFFICES ASSUME NEW d \in Ino, NEW m \in Names, g[d] # Nil, g[d].ents[m] # Nil
               PROVE  g[d].ents[m] \notin {d, Root}
    BY DEF Proper
  <2>1. m \in Name
    BY DEF Name
  <2> QED BY <2>1, <1>1, <1>4 DEF Proper
<1>11. ASSUME NEW k \in Ino, NEW y, Held(f, k, y)
       PROVE  Held(g, k, y) /\ g[k].kind = f[k].kind
  <2>1. f[k] # Nil /\ f[k].nlink \in Nat /\ Cardinality(Refs(f, k) \ {y}) < f[k].nlink
    BY <1>2, <1>11 DEF Held
  <2>2. /\ Cardinality(Refs(f, k) \ {y}) \in Nat /\ Cardinality(Refs(g, k) \ {y}) \in Nat
        /\ Cardinality(Refs(g, k) \ {y}) <= Cardinality(Refs(f, k) \ {y}) + (IF k = i THEN 1 ELSE 0)
    <3>1. CASE k = i
      <4> DEFINE R == Refs(f, k) \ {y}
      <4>1. IsFiniteSet(R) /\ Cardinality(R) \in Nat
        BY RefsFinite
      <4>2. IsFiniteSet(R \union {x}) /\ Cardinality(R \union {x}) <= Cardinality(R) + 1
        BY <4>1, FS_AddElement
      <4>3. Refs(g, k) \ {y} \in SUBSET (R \union {x})
        BY <3>1, <1>7
      <4>4. Cardinality(Refs(g, k) \ {y}) <= Cardinality(R \union {x})
        BY <4>2, <4>3, FS_Subset
      <4>5. Cardinality(R \union {x}) \in Nat
        BY <4>2, FS_CardinalityType
      <4>6. Cardinality(Refs(g, k) \ {y}) \in Nat
        BY RefsFinite
      <4> QED BY <3>1, <4>1, <4>2, <4>4, <4>5, <4>6
    <3>2. CASE k # i
      <4>1. Refs(g, k) = Refs(f, k) /\ Cardinality(Refs(f, k) \ {y}) \in Nat
        BY <3>2, <1>7, RefsFinite
      <4> QED BY <3>2, <4>1
    <3> QED BY <3>1, <3>2
  <2>3. g[k] # Nil /\ g[k].kind = f[k].kind /\ g[k].nlink = f[k].nlink + (IF k = i THEN 1 ELSE 0)
    BY <2>1, <1>4
  <2> QED BY <2>1, <2>2, <2>3 DEF Held
<1>12. g[p] # Nil /\ g[p].ents[n] = i
  BY <1>4
<1> QED BY <1>4, <1>9, <1>10, <1>11, <1>12 DEF Counted, Safe

(* The end of a name keeps the counts, and what is held without it.        *)
LEMMA WithoutNameCounted ==
    ASSUME NEW f, Counted(f), NEW p \in Ino, f[p] # Nil, NEW n \in Name, f[p].ents[n] # Nil,
           NEW g, g = WithoutName(f, p, n)
    PROVE  Counted(g) /\ Safe(f, g, Positions \ {<<p, n>>})
<1> DEFINE x == <<p, n>>
           i == f[p].ents[n]
<1>1. f \in Trees /\ Covered(f) /\ Proper(f)
  BY DEF Counted
<1>2. \A d \in Ino : f[d] # Nil => f[d] \in Nodes /\ f[d].nlink \in Nat
  BY <1>1 DEF Trees, Nodes
<1>3. i \in Ino /\ f[i] # Nil /\ f[i].nlink > 0
  BY EntryHeld
<1> HIDE DEF i
<1>4. f[i].nlink + (-1) \in Nat /\ -1 \in Int /\ g = AddLinks(SetName(f, p, n, Nil), i, -1)
  BY <1>2, <1>3 DEF WithoutName, i
<1>5. /\ g \in Trees
      /\ \A d \in Ino :
           /\ g[d] = Nil <=> f[d] = Nil
           /\ g[d] # Nil =>
                /\ g[d].kind = f[d].kind
                /\ g[d].nlink = f[d].nlink + (IF d = i THEN -1 ELSE 0)
                /\ \A m \in Name : g[d].ents[m] = IF d = p /\ m = n THEN Nil ELSE f[d].ents[m]
  BY <1>1, <1>3, <1>4, NameEdit
<1>6. x \in Positions /\ \A y \in Positions : y[1] \in Ino /\ y[2] \in Name /\ (y = x <=> y[1] = p /\ y[2] = n)
  BY DEF Positions
<1>7. x \in Refs(f, i)
  BY <1>6 DEF Refs, i
<1>8. \A k \in Ino : Refs(g, k) = IF k = i THEN Refs(f, k) \ {x} ELSE Refs(f, k)
  <2> SUFFICES ASSUME NEW k \in Ino, NEW y \in Positions
               PROVE  (g[y[1]] # Nil /\ g[y[1]].ents[y[2]] = k) <=>
                      f[y[1]] # Nil /\ f[y[1]].ents[y[2]] = k /\ ~(k = i /\ y = x)
    BY <1>6 DEF Refs
  <2> HIDE DEF x
  <2>1. CASE y = x
    BY <2>1, <1>5, <1>6, NilAssumption DEF i
  <2>2. CASE y # x
    BY <2>2, <1>5, <1>6
  <2> QED BY <2>1, <2>2
<1> HIDE DEF x
<1>9. \A k \in Ino : /\ Cardinality(Refs(f, k)) \in Nat /\ Cardinality(Refs(g, k)) \in Nat
                     /\ Cardinality(Refs(g, k)) = Cardinality(Refs(f, k)) + (IF k = i THEN -1 ELSE 0)
  BY <1>7, <1>8, RefsFinite
<1>10. Covered(g)
  <2> SUFFICES ASSUME NEW k \in Ino
               PROVE  Cardinality(Refs(g, k)) <= IF g[k] = Nil THEN 0 ELSE g[k].nlink
    BY DEF Covered
  <2>1. Cardinality(Refs(f, k)) <= IF f[k] = Nil THEN 0 ELSE f[k].nlink
    BY <1>1 DEF Covered
  <2> QED BY <2>1, <1>2, <1>3, <1>5, <1>9
<1>11. Proper(g)
  <2> SUFFICES ASSUME NEW d \in Ino, NEW m \in Names, g[d] # Nil, g[d].ents[m] # Nil
               PROVE  g[d].ents[m] \notin {d, Root}
    BY DEF Proper
  <2>1. m \in Name
    BY DEF Name
  <2> QED BY <2>1, <1>1, <1>5 DEF Proper
<1>12. ASSUME NEW k \in Ino, NEW y, y # x, Held(f, k, y)
       PROVE  Held(g, k, y) /\ g[k].kind = f[k].kind
  <2>1. f[k] # Nil /\ f[k].nlink \in Nat /\ Cardinality(Refs(f, k) \ {y}) < f[k].nlink
    BY <1>2, <1>12 DEF Held
  <2> DEFINE R == Refs(f, k) \ {y}
  <2>2. IsFiniteSet(R) /\ Cardinality(R) \in Nat
    BY RefsFinite
  <2>3. Cardinality(Refs(g, k) \ {y}) = Cardinality(R) + (IF k = i THEN -1 ELSE 0)
    <3>1. CASE k = i
      <4>1. Refs(g, k) \ {y} = R \ {x} /\ x \in R
        BY <3>1, <1>7, <1>8, <1>12
      <4> HIDE DEF R
      <4> QED BY <3>1, <4>1, <2>2, FS_RemoveElement
    <3>2. CASE k # i
      <4>1. Refs(g, k) = Refs(f, k)
        BY <3>2, <1>8
      <4> QED BY <3>2, <4>1, <2>2
    <3> QED BY <3>1, <3>2
  <2>4. g[k] # Nil /\ g[k].kind = f[k].kind /\ g[k].nlink = f[k].nlink + (IF k = i THEN -1 ELSE 0)
    BY <2>1, <1>5
  <2> QED BY <2>1, <2>2, <2>3, <2>4 DEF Held
<1> QED BY <1>5, <1>10, <1>11, <1>12 DEF Counted, Safe, x

(* A new node without entries keeps the counts, and everything held.       *)
LEMMA NewNodeCounted ==
    ASSUME NEW f, Counted(f), NEW i \in Ino, f[i] = Nil, NEW m \in Nodes, m.ents = NoEntries,
           NEW g, g = [f EXCEPT ![i] = m]
    PROVE  Counted(g) /\ Safe(f, g, Positions)
<1>1. f \in Trees /\ Covered(f) /\ Proper(f)
  BY DEF Counted
<1>2. g \in Trees /\ g[i] = m /\ \A d \in Ino \ {i} : g[d] = f[d]
  BY <1>1 DEF Trees
<1>3. \A n \in Name : NoEntries[n] = Nil
  BY DEF NoEntries
<1>4. \A k \in Ino : Refs(g, k) = Refs(f, k)
  <2> SUFFICES ASSUME NEW k \in Ino, NEW y \in Positions
               PROVE  (g[y[1]] # Nil /\ g[y[1]].ents[y[2]] = k) <=>
                      (f[y[1]] # Nil /\ f[y[1]].ents[y[2]] = k)
    BY DEF Refs
  <2>1. y[1] \in Ino /\ y[2] \in Name
    BY DEF Positions
  <2> QED BY <2>1, <1>2, <1>3, NilAssumption
<1>5. Covered(g)
  <2>1. m.nlink \in Nat
    BY DEF Nodes
  <2> SUFFICES ASSUME NEW k \in Ino
               PROVE  Cardinality(Refs(g, k)) <= IF g[k] = Nil THEN 0 ELSE g[k].nlink
    BY DEF Covered
  <2>2. Cardinality(Refs(f, k)) <= IF f[k] = Nil THEN 0 ELSE f[k].nlink
    BY <1>1 DEF Covered
  <2>3. Cardinality(Refs(f, k)) \in Nat
    BY RefsFinite
  <2>4. CASE k = i
    <3>1. g[k] # Nil /\ g[k].nlink = m.nlink
      BY <2>4, <1>2, NodeAssumption
    <3>2. Cardinality(Refs(g, k)) <= 0
      BY <2>2, <2>4, <1>4
    <3>3. Cardinality(Refs(g, k)) \in Nat
      BY RefsFinite
    <3>4. Cardinality(Refs(g, k)) <= m.nlink
      BY <3>2, <3>3, <2>1
    <3> QED BY <3>1, <3>4
  <2>5. CASE k # i
    BY <2>5, <2>2, <1>2, <1>4
  <2> QED BY <2>4, <2>5
<1>6. Proper(g)
  <2>1. Names \subseteq Name
    BY DEF Name
  <2> QED BY <2>1, <1>1, <1>2, <1>3 DEF Proper
<1>7. Safe(f, g, Positions)
  BY <1>2, <1>4 DEF Safe, Held
<1> QED BY <1>2, <1>5, <1>6, <1>7 DEF Counted

(* A close list is worked off before or after the link count of a node     *)
(* that survives it changes: the trees differ by what the list may change. *)
LEMMA CalmAdd ==
    ASSUME NEW f \in Trees, NEW g \in Trees, Calm(f, g), NEW i \in Ino, g[i] # Nil,
           NEW k \in Int, f[i].nlink + k \in Nat
    PROVE  /\ f[i] # Nil /\ g[i].nlink = f[i].nlink
           /\ Calm(AddLinks(f, i, k), AddLinks(g, i, k))
<1> DEFINE a == AddLinks(f, i, k)
           b == AddLinks(g, i, k)
<1>1. f[i] # Nil /\ f[i] \in Nodes /\ g[i] \in Nodes
  BY DEF Calm, Trees
<1>2. g[i].nlink = f[i].nlink /\ g[i].kind = f[i].kind /\ g[i].suid = f[i].suid /\ g[i].size = f[i].size
  <2>1. g[i] = f[i] \/ g[i] = [f[i] EXCEPT !.ents = NoEntries]
    BY DEF Calm
  <2> QED BY <2>1, <1>1 DEF Nodes
<1>3. /\ a \in Trees /\ a[i] # Nil /\ \A d \in Ino \ {i} : a[d] = f[d]
      /\ a[i].kind = f[i].kind /\ a[i].nlink = f[i].nlink + k
      /\ a[i].suid = f[i].suid /\ a[i].size = f[i].size /\ a[i].ents = f[i].ents
  BY <1>1, AddLinksFields
<1>4. /\ b \in Trees /\ b[i] # Nil /\ \A d \in Ino \ {i} : b[d] = g[d]
      /\ b[i].kind = g[i].kind /\ b[i].nlink = g[i].nlink + k
      /\ b[i].suid = g[i].suid /\ b[i].size = g[i].size /\ b[i].ents = g[i].ents
  BY <1>1, <1>2, AddLinksFields
<1> HIDE DEF a, b
<1>5. a[i] \in Nodes /\ b[i] \in Nodes
  BY <1>3, <1>4 DEF Trees
<1>6. b[i] = a[i] \/ (~EnoughBlocks /\ b[i] = [a[i] EXCEPT !.ents = NoEntries])
  <2>1. CASE g[i] = f[i]
    <3>1. b[i].ents = a[i].ents
      BY <2>1, <1>3, <1>4
    <3> QED BY <3>1, <1>2, <1>3, <1>4, <1>5 DEF Nodes
  <2>2. CASE ~EnoughBlocks /\ g[i] = [f[i] EXCEPT !.ents = NoEntries]
    <3>1. b[i].ents = NoEntries
      BY <2>2, <1>1, <1>4 DEF Nodes
    <3>2. [a[i] EXCEPT !.ents = NoEntries] \in Nodes
      BY <1>5 DEF Nodes, Entries, NoEntries
    <3> QED BY <2>2, <3>1, <3>2, <1>2, <1>3, <1>4, <1>5 DEF Nodes
  <2> QED BY <2>1, <2>2, <1>1 DEF Calm
<1>7. \A d \in Ino \ {i} : \/ b[d] = a[d]
                           \/ a[d] # Nil /\ a[d].nlink = 0 /\ b[d] = Nil
                           \/ ~EnoughBlocks /\ a[d] # Nil /\ b[d] = [a[d] EXCEPT !.ents = NoEntries]
  BY <1>3, <1>4 DEF Calm
<1> QED BY <1>1, <1>2, <1>3, <1>6, <1>7 DEF Calm, a, b

(* Trees that differ in attributes only.                                   *)
Alike(f, g) ==
    \A d \in Ino :
        /\ g[d] = Nil <=> f[d] = Nil
        /\ f[d] # Nil => g[d].kind = f[d].kind /\ g[d].nlink = f[d].nlink /\ g[d].ents = f[d].ents

(* A change of attributes keeps the counts, and everything held.           *)
LEMMA AlikeCounted ==
    ASSUME NEW f, NEW g \in Trees, Counted(f), Alike(f, g)
    PROVE  Counted(g) /\ Safe(f, g, Positions)
<1>1. \A k \in Ino : Refs(g, k) = Refs(f, k)
  <2> SUFFICES ASSUME NEW k \in Ino, NEW y \in Positions
               PROVE  (g[y[1]] # Nil /\ g[y[1]].ents[y[2]] = k) <=>
                      (f[y[1]] # Nil /\ f[y[1]].ents[y[2]] = k)
    BY DEF Refs
  <2>1. y[1] \in Ino
    BY DEF Positions
  <2> QED BY <2>1 DEF Alike
<1>2. Covered(g)
  BY <1>1 DEF Counted, Covered, Alike
<1>3. Proper(g)
  BY DEF Counted, Proper, Alike
<1>4. Safe(f, g, Positions)
  BY <1>1 DEF Safe, Held, Alike
<1> QED BY <1>2, <1>3, <1>4 DEF Counted

(* No change is safe.                                                      *)
LEMMA SafeSame ==
    ASSUME NEW f, NEW X
    PROVE  Safe(f, f, X)
  BY DEF Safe

-----------------------------------------------------------------------------
(* With enough blocks, a close list may be worked off before or after an   *)
(* entry of a directory that survives it changes...                        *)
LEMMA CalmSet ==
    ASSUME EnoughBlocks, NEW f \in Trees, NEW g \in Trees, Calm(f, g), NEW p \in Ino, g[p] # Nil,
           NEW n \in Name, NEW j \in Ino \union {Nil}
    PROVE  Calm(SetName(f, p, n, j), SetName(g, p, n, j)) /\ f[p] = g[p]
<1> DEFINE a == SetName(f, p, n, j)
           b == SetName(g, p, n, j)
<1>1. f[p] = g[p]
  BY DEF Calm
<1>2. a[p] = b[p]
  BY <1>1 DEF SetName, Trees
<1>3. \A d \in Ino \ {p} : a[d] = f[d] /\ b[d] = g[d]
  BY <1>1, SetNameFields
<1> HIDE DEF a, b
<1>4. Calm(a, b)
  BY <1>2, <1>3 DEF Calm
<1> QED BY <1>1, <1>4 DEF a, b

(* ... or after the directory gets a name ...                              *)
LEMMA CalmWithName ==
    ASSUME EnoughBlocks, NEW f \in Trees, NEW g \in Trees, Calm(f, g), NEW p \in Ino, g[p] # Nil,
           NEW n \in Name, NEW i \in Ino, g[i] # Nil
    PROVE  Calm(WithName(f, p, n, i), WithName(g, p, n, i))
<1> DEFINE a == SetName(f, p, n, i)
           b == SetName(g, p, n, i)
<1>1. Calm(a, b) /\ f[p] = g[p]
  BY CalmSet
<1>2. /\ a \in Trees /\ a[p] # Nil /\ \A d \in Ino \ {p} : a[d] = f[d]
      /\ a[p].nlink = f[p].nlink
  BY <1>1, SetNameFields
<1>3. /\ b \in Trees /\ b[p] # Nil /\ \A d \in Ino \ {p} : b[d] = g[d]
  BY SetNameFields
<1> HIDE DEF a, b
<1>4. b[i] # Nil /\ f[i] = g[i]
  BY <1>3 DEF Calm
<1>5. f[i].nlink \in Nat /\ a[i].nlink = f[i].nlink
  BY <1>2, <1>4 DEF Trees, Nodes
<1>6. a[i].nlink + 1 \in Nat /\ 1 \in Int
  BY <1>5
<1>7. Calm(AddLinks(a, i, 1), AddLinks(b, i, 1))
  BY <1>1, <1>2, <1>3, <1>4, <1>6, CalmAdd
<1> QED BY <1>7 DEF WithName, a, b

(* ... or loses one ...                                                    *)
LEMMA CalmWithoutName ==
    ASSUME EnoughBlocks, NEW f \in Trees, NEW g \in Trees, Calm(f, g), NEW p \in Ino, g[p] # Nil,
           NEW n \in Name, NEW i \in Ino, i = g[p].ents[n], g[i] # Nil, g[i].nlink > 0
    PROVE  Calm(WithoutName(f, p, n), WithoutName(g, p, n))
<1> DEFINE a == SetName(f, p, n, Nil)
           b == SetName(g, p, n, Nil)
<1>1. Calm(a, b) /\ f[p] = g[p]
  BY CalmSet
<1>2. /\ a \in Trees /\ a[p] # Nil /\ \A d \in Ino \ {p} : a[d] = f[d]
      /\ a[p].nlink = f[p].nlink
  BY <1>1, SetNameFields
<1>3. /\ b \in Trees /\ b[p] # Nil /\ \A d \in Ino \ {p} : b[d] = g[d]
  BY SetNameFields
<1> HIDE DEF a, b
<1>4. b[i] # Nil /\ f[i] = g[i]
  BY <1>3 DEF Calm
<1>5. f[i].nlink \in Nat /\ f[i].nlink > 0 /\ a[i].nlink = f[i].nlink
  BY <1>2, <1>4 DEF Trees, Nodes
<1>6. a[i].nlink + (-1) \in Nat /\ -1 \in Int
  BY <1>5
<1>7. Calm(AddLinks(a, i, -1), AddLinks(b, i, -1))
  BY <1>1, <1>2, <1>3, <1>4, <1>6, CalmAdd
<1>8. f[p].ents[n] = i
  BY <1>1
<1> QED BY <1>7, <1>8 DEF WithoutName, a, b

(* ... or after a new node appears.                                        *)
LEMMA CalmNew ==
    ASSUME NEW f \in Trees, NEW g \in Trees, Calm(f, g), NEW i \in Ino, NEW m
    PROVE  Calm([f EXCEPT ![i] = m], [g EXCEPT ![i] = m])
<1> DEFINE a == [f EXCEPT ![i] = m]
           b == [g EXCEPT ![i] = m]
<1>1. a[i] = m /\ b[i] = m /\ \A d \in Ino \ {i} : a[d] = f[d] /\ b[d] = g[d]
  BY DEF Trees
<1> HIDE DEF a, b
<1>2. Calm(a, b)
  BY <1>1 DEF Calm
<1> QED BY <1>2 DEF a, b

(* No change is calm.                                                      *)
LEMMA CalmSame ==
    ASSUME NEW f
    PROVE  Calm(f, f)
  BY DEF Calm

-----------------------------------------------------------------------------
(* There is no entry x.                                                    *)
Clear(f, x) == f[x[1]] # Nil => f[x[1]].ents[x[2]] = Nil

(* From f to g, no entry is added outside Y.                               *)
Adds(f, g, Y) == \A x \in Positions \ Y : Clear(f, x) => Clear(g, x)

(* Two changes that add no entry.                                          *)
LEMMA AddsTrans ==
    ASSUME NEW f, NEW g, NEW h, NEW Y, Adds(f, g, Y), Adds(g, h, Y)
    PROVE  Adds(f, h, Y)
  BY DEF Adds

(* What adds no entry outside Y adds none outside a larger set.            *)
LEMMA AddsMore ==
    ASSUME NEW f, NEW g, NEW Y, NEW Z, Adds(f, g, Y), Y \subseteq Z
    PROVE  Adds(f, g, Z)
  BY DEF Adds

(* Working off a close list adds no entry.                                 *)
LEMMA CalmAdds ==
    ASSUME NEW f \in Trees, NEW g, Calm(f, g)
    PROVE  Adds(f, g, {})
<1> SUFFICES ASSUME NEW x \in Positions, Clear(f, x)
             PROVE  Clear(g, x)
  BY DEF Adds
<1>1. x[1] \in Ino /\ x[2] \in Name
  BY DEF Positions
<1>2. NoEntries[x[2]] = Nil
  BY <1>1 DEF NoEntries
<1>3. f[x[1]] # Nil => [f[x[1]] EXCEPT !.ents = NoEntries].ents = NoEntries
  BY <1>1 DEF Trees, Nodes
<1> QED BY <1>1, <1>2, <1>3 DEF Clear, Calm

(* A new name is the only entry added.                                     *)
LEMMA WithNameAdds ==
    ASSUME NEW f \in Trees, NEW p \in Ino, f[p] # Nil, NEW n \in Name, NEW i \in Ino, f[i] # Nil,
           NEW g, g = WithName(f, p, n, i)
    PROVE  Adds(f, g, {<<p, n>>}) /\ g \in Trees
<1>1. f[i].nlink + 1 \in Nat /\ g = AddLinks(SetName(f, p, n, i), i, 1)
  BY DEF WithName, Trees, Nodes
<1>2. /\ g \in Trees
      /\ \A d \in Ino :
           /\ g[d] = Nil <=> f[d] = Nil
           /\ g[d] # Nil =>
                \A m \in Name : g[d].ents[m] = IF d = p /\ m = n THEN i ELSE f[d].ents[m]
  BY <1>1, NameEdit
<1>3. \A x \in Positions \ {<<p, n>>} : x[1] \in Ino /\ x[2] \in Name /\ ~(x[1] = p /\ x[2] = n)
  BY DEF Positions
<1> QED BY <1>2, <1>3 DEF Adds, Clear

(* The end of a name adds no entry and leaves none in its place.           *)
LEMMA WithoutNameAdds ==
    ASSUME NEW f, Counted(f), NEW p \in Ino, f[p] # Nil, NEW n \in Name, f[p].ents[n] # Nil,
           NEW g, g = WithoutName(f, p, n)
    PROVE  Adds(f, g, {}) /\ Clear(g, <<p, n>>) /\ g \in Trees
<1> DEFINE i == f[p].ents[n]
<1>1. f \in Trees /\ i \in Ino /\ f[i] # Nil /\ f[i].nlink \in Nat /\ f[i].nlink > 0
  BY EntryHeld DEF Counted
<1> HIDE DEF i
<1>2. f[i].nlink + (-1) \in Nat /\ -1 \in Int /\ g = AddLinks(SetName(f, p, n, Nil), i, -1)
  BY <1>1 DEF WithoutName, i
<1>3. /\ g \in Trees
      /\ \A d \in Ino :
           /\ g[d] = Nil <=> f[d] = Nil
           /\ g[d] # Nil =>
                \A m \in Name : g[d].ents[m] = IF d = p /\ m = n THEN Nil ELSE f[d].ents[m]
  BY <1>1, <1>2, NameEdit
<1>4. \A x \in Positions : x[1] \in Ino /\ x[2] \in Name
  BY DEF Positions
<1> QED BY <1>3, <1>4 DEF Adds, Clear

(* A new name, and then a close list is worked off.                        *)
LEMMA NamedAdds ==
    ASSUME NEW f \in Trees, NEW p \in Ino, f[p] # Nil, NEW n \in Name, NEW i \in Ino, f[i] # Nil,
           NEW h, Calm(WithName(f, p, n, i), h)
    PROVE  Adds(f, h, {<<p, n>>})
<1> DEFINE g == WithName(f, p, n, i)
           Y == {<<p, n>>}
<1>1. Adds(f, g, Y) /\ g \in Trees
  BY WithNameAdds
<1> HIDE DEF g
<1>2. Adds(g, h, {})
  BY <1>1, CalmAdds DEF g
<1>3. Adds(g, h, Y)
  BY <1>2, AddsMore
<1> QED BY <1>1, <1>3, AddsTrans

-----------------------------------------------------------------------------
(* unlink: no change when the name does not exist.                         *)
Drop(f, p, n) == IF f[p].ents[n] = Nil THEN f ELSE WithoutName(f, p, n)

(* unlink keeps the counts.                                                *)
LEMMA DropCounted ==
    ASSUME NEW f, Counted(f), NEW p \in Ino, f[p] # Nil, NEW n \in Name
    PROVE  /\ Counted(Drop(f, p, n)) /\ Drop(f, p, n) \in Trees
           /\ \A d \in Ino : Drop(f, p, n)[d] = Nil <=> f[d] = Nil
<1> DEFINE g == WithoutName(f, p, n)
<1>1. f \in Trees
  BY DEF Counted
<1>2. CASE f[p].ents[n] = Nil
  BY <1>1, <1>2 DEF Drop
<1>3. CASE f[p].ents[n] # Nil
  <2>1. Counted(g) /\ Safe(f, g, Positions \ {<<p, n>>})
    BY <1>3, WithoutNameCounted
  <2> DEFINE i == f[p].ents[n]
  <2>2. i \in Ino /\ f[i] # Nil /\ f[i].nlink \in Nat /\ f[i].nlink > 0
    BY <1>3, EntryHeld
  <2> HIDE DEF i
  <2>3. f[i].nlink + (-1) \in Nat /\ -1 \in Int /\ g = AddLinks(SetName(f, p, n, Nil), i, -1)
    BY <2>2 DEF WithoutName, i
  <2> HIDE DEF g
  <2>4. \A d \in Ino : g[d] = Nil <=> f[d] = Nil
    BY <2>2, <2>3, <1>1, NameEdit
  <2>5. Drop(f, p, n) = g
    BY <1>3 DEF Drop, g
  <2> QED BY <2>1, <2>4, <2>5 DEF Counted
<1> QED BY <1>2, <1>3

(* With enough blocks, a close list may be worked off before or after      *)
(* unlink.                                                                 *)
LEMMA CalmDrop ==
    ASSUME EnoughBlocks, NEW f, NEW g, Counted(f), Counted(g), Calm(f, g), NEW p \in Ino, g[p] # Nil,
           NEW n \in Name
    PROVE  Calm(Drop(f, p, n), Drop(g, p, n))
<1>1. f \in Trees /\ g \in Trees /\ f[p] = g[p]
  BY DEF Counted, Calm
<1>2. CASE g[p].ents[n] = Nil
  BY <1>1, <1>2 DEF Drop
<1>3. CASE g[p].ents[n] # Nil
  <2> DEFINE i == g[p].ents[n]
  <2>1. i \in Ino /\ g[i] # Nil /\ g[i].nlink > 0
    BY <1>3, EntryHeld
  <2> HIDE DEF i
  <2>2. i = g[p].ents[n]
    BY DEF i
  <2>3. Calm(WithoutName(f, p, n), WithoutName(g, p, n))
    BY <2>1, <2>2, <1>1, CalmWithoutName
  <2> QED BY <2>3, <1>1, <1>3 DEF Drop
<1> QED BY <1>2, <1>3

(* The entries by which the kernel reaches directories: the root's "."     *)
(* stands for the root, names for the others.                              *)
Anchors == {RootLink} \union (Ino \X Names)

(* A name is not the root's link, and neither is "." or ".." of another    *)
(* directory.                                                              *)
LEMMA AnchorsOK ==
    /\ Anchors \subseteq Positions /\ RootLink \in Anchors
    /\ \A i \in Ino, n \in Names : <<i, n>> \in Anchors /\ <<i, n>> # RootLink
    /\ \A j \in Ino \ {Root}, x \in Anchors : x # <<j, ".">> /\ x # <<j, "..">>
<1>1. Root \in Ino /\ "." \in Name /\ Names \subseteq Name /\ "." \notin Names /\ ".." \notin Names
      /\ "." # ".."
  BY InoAssumption, NamesAssumption DEF Name
<1> QED BY <1>1 DEF Anchors, Positions, RootLink

(* A safe change is safe for fewer entries.                                *)
LEMMA SafeSub ==
    ASSUME NEW f, NEW g, NEW X, NEW Y, Safe(f, g, X), Y \subseteq X
    PROVE  Safe(f, g, Y)
  BY DEF Safe

(* As CalmDrop, for a first tree of which only the type is known.          *)
LEMMA CalmDropTrees ==
    ASSUME EnoughBlocks, NEW f \in Trees, NEW g, Counted(g), Calm(f, g), NEW p \in Ino, g[p] # Nil,
           NEW n \in Name
    PROVE  Drop(f, p, n) \in Trees /\ Calm(Drop(f, p, n), Drop(g, p, n))
<1>1. g \in Trees /\ f[p] = g[p]
  BY DEF Counted, Calm
<1>2. CASE g[p].ents[n] = Nil
  BY <1>1, <1>2 DEF Drop
<1>3. CASE g[p].ents[n] # Nil
  <2> DEFINE i == g[p].ents[n]
             h == WithoutName(f, p, n)
  <2>1. i \in Ino /\ g[i] # Nil /\ g[i].nlink \in Nat /\ g[i].nlink > 0
    BY <1>3, EntryHeld
  <2> HIDE DEF i
  <2>2. i = g[p].ents[n] /\ i = f[p].ents[n] /\ f[i] = g[i]
    BY <2>1, <1>1 DEF i, Calm
  <2>3. Calm(WithoutName(f, p, n), WithoutName(g, p, n))
    BY <2>1, <2>2, <1>1, CalmWithoutName
  <2>4. f[i].nlink + (-1) \in Nat /\ -1 \in Int /\ h = AddLinks(SetName(f, p, n, Nil), i, -1)
    BY <2>1, <2>2 DEF WithoutName
  <2> HIDE DEF h
  <2>5. h \in Trees
    BY <2>1, <2>2, <2>4, <1>1, NameEdit
  <2> QED BY <2>3, <2>5, <1>1, <1>3 DEF Drop, h
<1> QED BY <1>2, <1>3

-----------------------------------------------------------------------------
(***************************************************************************)
(* The methods of struct Donkey.                                           *)
(***************************************************************************)
(* The records that module Donkey calls states.                            *)
State == [ifree : SUBSET Ino, bfree : Nat,
          inode : [Ino -> DiskInode], data : [Ino -> Entries],
          files : [Ino -> DkFile \union {Nil}], dirs : [Ino -> DkDir \union {Nil}],
          closeF : SUBSET Ino, closeD : Seq(Ino),
          fh : [Ino -> Nat], dh : [Ino -> Nat]]

(* What the caches and the device say about inode i fits together. F are   *)
(* the inodes that mknod has written with a link count of 0 and that are   *)
(* not open yet: such an inode exists only within a call.                  *)
(*                                                                         *)
(* A free slot is not cached; a cached inode is dirty or the same on the   *)
(* device; a cached directory is dirty, or the same on the device, or has  *)
(* no content there; what a handle is on is cached; and what is neither    *)
(* cached nor free has a link.                                             *)
Sound(s, i, F) ==
    /\ i \in s.ifree => s.inode[i] = FreeSlot /\ s.files[i] = Nil
    /\ i \notin s.ifree => s.inode[i].kind # "free"
    /\ s.files[i] # Nil =>
         /\ s.files[i].kind = s.inode[i].kind
         /\ s.files[i].dirty \/ Written(s.files[i]) = s.inode[i]
    /\ s.dirs[i] # Nil =>
         /\ s.files[i] # Nil /\ s.files[i].kind = "dir"
         /\ \/ s.dirs[i].dirty
            \/ s.files[i].size = 1 /\ s.dirs[i].ents = s.data[i]
            \/ s.files[i].size = 0 /\ (EnoughBlocks => s.dirs[i].ents = NoEntries)
    /\ s.fh[i] > 0 => s.files[i] # Nil
    /\ s.dh[i] > 0 => s.dirs[i] # Nil
    /\ i \in F => s.files[i] = Nil /\ i \notin s.ifree
    /\ s.files[i] = Nil /\ i \notin s.ifree /\ i \notin F => s.inode[i].nlink > 0

(* The inodes with a block; every other block is free.                     *)
Full(s) == {i \in Ino : Inode(s, i).size = 1}
Accounted(s) == s.bfree + Cardinality(Full(s)) = Blocks

(* The first part of the invariant of states.                              *)
Coherent(s, F) ==
    /\ s \in State
    /\ \A i \in Ino : Sound(s, i, F)
    /\ Accounted(s)

(* Inode i as users see it, and the tree.                                  *)
NodeOf(s, i) ==
    [kind |-> Inode(s, i).kind, nlink |-> Inode(s, i).nlink, suid |-> Inode(s, i).suid,
     size |-> IF Inode(s, i).kind = "dir" THEN 0 ELSE Inode(s, i).size,
     ents |-> IF Inode(s, i).kind = "dir" THEN Ents(s, i) ELSE NoEntries]

Tree(s) == [i \in Ino |-> IF i \in s.ifree THEN Nil ELSE NodeOf(s, i)]

(* Two states agree on inode j.                                            *)
Same(s, t, j) ==
    /\ j \in t.ifree <=> j \in s.ifree
    /\ t.inode[j] = s.inode[j] /\ t.data[j] = s.data[j]
    /\ t.files[j] = s.files[j] /\ t.dirs[j] = s.dirs[j]

(* States that agree on an inode and its handles are both sound for it.    *)
LEMMA SameSound ==
    ASSUME NEW s, NEW t, NEW j \in Ino, NEW F, Same(s, t, j), t.fh[j] = s.fh[j], t.dh[j] = s.dh[j],
           Sound(s, j, F)
    PROVE  Sound(t, j, F)
  BY DEF Same, Sound

(* States that agree on an inode show the same node.                       *)
LEMMA SameNode ==
    ASSUME NEW s, NEW t, NEW j \in Ino, Same(s, t, j)
    PROVE  NodeOf(t, j) = NodeOf(s, j) /\ Inode(t, j) = Inode(s, j) /\ Tree(t)[j] = Tree(s)[j]
  BY DEF Same, NodeOf, Inode, Ents, Tree

(* When one inode's size changes by what the free blocks change, they stay *)
(* accounted for.                                                          *)
LEMMA FullChange ==
    ASSUME NEW s, NEW t, NEW i \in Ino, \A j \in Ino \ {i} : Inode(t, j) = Inode(s, j),
           s.bfree \in Nat, t.bfree \in Nat, Accounted(s),
           Inode(s, i).size \in 0 .. 1, Inode(t, i).size \in 0 .. 1,
           t.bfree = s.bfree + Inode(s, i).size - Inode(t, i).size
    PROVE  Accounted(t)
<1>1. IsFiniteSet(Full(s)) /\ Cardinality(Full(s)) \in Nat
  BY InoAssumption, FS_Subset, FS_CardinalityType DEF Full
<1>2. CASE Inode(s, i).size = Inode(t, i).size
  <2>1. Full(t) = Full(s)
    BY <1>2 DEF Full
  <2> QED BY <2>1, <1>1, <1>2 DEF Accounted
<1>3. CASE Inode(s, i).size = 0 /\ Inode(t, i).size = 1
  <2>1. Full(t) = Full(s) \union {i} /\ i \notin Full(s)
    BY <1>3 DEF Full
  <2>2. Cardinality(Full(t)) = Cardinality(Full(s)) + 1
    BY <2>1, <1>1, FS_AddElement
  <2> QED BY <2>2, <1>1, <1>3 DEF Accounted
<1>4. CASE Inode(s, i).size = 1 /\ Inode(t, i).size = 0
  <2>1. Full(t) = Full(s) \ {i} /\ i \in Full(s)
    BY <1>4 DEF Full
  <2>2. Cardinality(Full(t)) = Cardinality(Full(s)) - 1
    BY <2>1, <1>1, FS_RemoveElement
  <2> QED BY <2>2, <1>1, <1>4 DEF Accounted
<1> QED BY <1>2, <1>3, <1>4

(* What closing a file leaves alone.                                       *)
LikeBefore(s, t) ==
    /\ t.data = s.data /\ t.dirs = s.dirs /\ t.fh = s.fh /\ t.dh = s.dh
    /\ t.closeF = s.closeF /\ t.closeD = s.closeD

(* The type of a cached inode.                                             *)
LEMMA FileType ==
    ASSUME NEW s \in State, NEW i \in Ino, s.files[i] # Nil
    PROVE  /\ s.files[i] \in DkFile
           /\ s.files[i].nlink \in Nat /\ s.files[i].size \in 0 .. 1
           /\ Inode(s, i) = s.files[i]
  BY DEF State, DkFile, Inode

(* A cached inode with other attributes.                                   *)
LEMMA FileEdits ==
    ASSUME NEW f \in DkFile, NEW nlink \in Nat, NEW suid \in BOOLEAN, NEW dirty \in BOOLEAN
    PROVE  /\ [f EXCEPT !.nlink = nlink, !.dirty = dirty] \in DkFile
           /\ [f EXCEPT !.suid = suid, !.dirty = dirty] \in DkFile
           /\ [f EXCEPT !.dirty = dirty] \in DkFile
           /\ [f EXCEPT !.suid = suid] \in DkFile
  BY DEF DkFile

(* update_size to 0, field by field.                                       *)
LEMMA UpdateSizeEffect ==
    ASSUME NEW s \in State, NEW i \in Ino, s.files[i] # Nil
    PROVE  LET t == UpdateSize(s, i, 0)
           IN  /\ t \in State /\ LikeBefore(s, t)
               /\ t.ifree = s.ifree /\ t.inode = s.inode
               /\ t.bfree = s.bfree + s.files[i].size
               /\ t.files = [s.files EXCEPT ![i] = [@ EXCEPT !.size = 0, !.dirty = TRUE]]
<1> DEFINE t == UpdateSize(s, i, 0)
           f == [s.files[i] EXCEPT !.size = 0, !.dirty = TRUE]
<1>1. s.files[i] \in DkFile
  BY FileType
<1>2. f \in DkFile
  <2>1. [s.files[i] EXCEPT !.size = 0] \in DkFile
    BY <1>1 DEF DkFile
  <2> QED BY <2>1 DEF DkFile
<1>3. /\ t.ifree = s.ifree /\ t.inode = s.inode /\ LikeBefore(s, t)
      /\ t.files = [s.files EXCEPT ![i] = f]
  BY <1>1 DEF UpdateSize, State, DkFile, LikeBefore
<1>4. t.bfree = s.bfree + s.files[i].size /\ t.bfree \in Nat
  BY <1>1 DEF UpdateSize, State, DkFile
<1>5. t = [s EXCEPT !.bfree = t.bfree, !.files = t.files]
  BY <1>1 DEF UpdateSize, State, DkFile
<1>6. t.files \in [Ino -> DkFile \union {Nil}]
  BY <1>2, <1>3 DEF State
<1>7. t \in State
  BY <1>4, <1>5, <1>6 DEF State
<1> QED BY <1>3, <1>4, <1>7

(* close_file of an unlinked file gives back the inode and its block.      *)
LEMMA CloseFileDead ==
    ASSUME NEW s \in State, NEW i \in Ino, s.files[i] # Nil, FileRefs(s, i) = 0,
           s.files[i].nlink = 0
    PROVE  LET t == CloseFile(i, s)
           IN  /\ t \in State /\ LikeBefore(s, t)
               /\ t.ifree = s.ifree \union {i}
               /\ t.inode = [s.inode EXCEPT ![i] = FreeSlot]
               /\ t.bfree = s.bfree + s.files[i].size
               /\ t.files = [s.files EXCEPT ![i] = Nil]
<1> DEFINE u == UpdateSize(s, i, 0)
           t == CloseFile(i, s)
<1>1. s.files[i] \in DkFile /\ s.files[i].size \in 0 .. 1
  BY FileType
<1>2. FlushFile(s, i) = s
  BY DEF FlushFile
<1>3. t = [FreeInode(u, i) EXCEPT !.files[i] = Nil]
  BY <1>2 DEF CloseFile, DestroyUnlinked, Destroy
<1>4. /\ u \in State /\ LikeBefore(s, u)
      /\ u.ifree = s.ifree /\ u.inode = s.inode
      /\ u.bfree = s.bfree + s.files[i].size
      /\ u.files = [s.files EXCEPT ![i] = [@ EXCEPT !.size = 0, !.dirty = TRUE]]
  BY UpdateSizeEffect
<1> HIDE DEF u
<1>5. FreeSlot \in DiskInode
  BY DEF FreeSlot, DiskInode
<1>6. /\ t.ifree = u.ifree \union {i} /\ t.inode = [u.inode EXCEPT ![i] = FreeSlot]
      /\ t.files = [u.files EXCEPT ![i] = Nil] /\ t.bfree = u.bfree /\ LikeBefore(u, t)
  BY <1>3, <1>4 DEF FreeInode, State, LikeBefore
<1>7. t \in State
  <2>1. u \in State
    BY <1>4
  <2>2. FreeInode(u, i) \in State
    BY <2>1, <1>5 DEF FreeInode, State
  <2> HIDE DEF t
  <2> QED BY <2>2, <1>3 DEF State
<1>8. t.files = [s.files EXCEPT ![i] = Nil]
  BY <1>4, <1>6 DEF State
<1> QED BY <1>4, <1>6, <1>7, <1>8 DEF LikeBefore

(* flush, field by field.                                                  *)
LEMMA FlushFileEffect ==
    ASSUME NEW s \in State, NEW i \in Ino, s.files[i] # Nil
    PROVE  LET t == FlushFile(s, i)
           IN  /\ t \in State /\ LikeBefore(s, t)
               /\ t.ifree = s.ifree /\ t.bfree = s.bfree
               /\ \/ t = s /\ (~s.files[i].dirty \/ s.files[i].nlink = 0)
                  \/ /\ t.inode = [s.inode EXCEPT ![i] = Written(s.files[i])]
                     /\ t.files = [s.files EXCEPT ![i] = [@ EXCEPT !.dirty = FALSE]]
                     /\ s.files[i].nlink > 0
<1> DEFINE t == FlushFile(s, i)
           f == [s.files[i] EXCEPT !.dirty = FALSE]
<1>1. s.files[i] \in DkFile /\ s.files[i].nlink \in Nat
  BY FileType
<1>2. Written(s.files[i]) \in DiskInode
  BY <1>1 DEF Written, DkFile, DiskInode
<1>3. CASE s.files[i].dirty /\ s.files[i].nlink > 0
  <2>1. f \in DkFile
    BY <1>1 DEF DkFile
  <2>2. /\ t.ifree = s.ifree /\ t.bfree = s.bfree /\ LikeBefore(s, t)
        /\ t.inode = [s.inode EXCEPT ![i] = Written(s.files[i])]
        /\ t.files = [s.files EXCEPT ![i] = f]
    BY <1>3, <1>1 DEF FlushFile, State, DkFile, LikeBefore
  <2>3. t = [s EXCEPT !.inode = t.inode, !.files = t.files]
    BY <1>3, <1>1 DEF FlushFile, State, DkFile
  <2>4. t.inode \in [Ino -> DiskInode] /\ t.files \in [Ino -> DkFile \union {Nil}]
    BY <2>1, <2>2, <1>2 DEF State
  <2> HIDE DEF t
  <2>5. t \in State
    BY <2>3, <2>4 DEF State
  <2> QED BY <2>2, <2>5, <1>3 DEF t
<1>4. CASE ~(s.files[i].dirty /\ s.files[i].nlink > 0)
  <2>1. t = s
    BY <1>4 DEF FlushFile
  <2> QED BY <2>1, <1>1, <1>4 DEF LikeBefore
<1> QED BY <1>3, <1>4

(* close_file of a linked file writes it if it is dirty.                   *)
LEMMA CloseFileLive ==
    ASSUME NEW s \in State, NEW i \in Ino, s.files[i] # Nil, FileRefs(s, i) = 0,
           s.files[i].nlink > 0
    PROVE  LET t == CloseFile(i, s)
           IN  /\ t \in State /\ LikeBefore(s, t)
               /\ t.ifree = s.ifree /\ t.bfree = s.bfree
               /\ \/ t.inode = s.inode /\ ~s.files[i].dirty
                  \/ t.inode = [s.inode EXCEPT ![i] = Written(s.files[i])]
               /\ t.files = [s.files EXCEPT ![i] = Nil]
<1> DEFINE u == FlushFile(s, i)
           t == CloseFile(i, s)
<1>1. s.files[i] \in DkFile /\ s.files[i].nlink \in Nat
  BY FileType
<1>2. /\ u \in State /\ LikeBefore(s, u) /\ u.ifree = s.ifree /\ u.bfree = s.bfree
      /\ \/ u.inode = s.inode /\ u.files = s.files /\ ~s.files[i].dirty
         \/ /\ u.inode = [s.inode EXCEPT ![i] = Written(s.files[i])]
            /\ u.files = [s.files EXCEPT ![i] = [@ EXCEPT !.dirty = FALSE]]
  BY <1>1, FlushFileEffect
<1>3. u.files[i].nlink = s.files[i].nlink
  <2>1. CASE u.files = s.files
    BY <2>1
  <2>2. CASE u.files = [s.files EXCEPT ![i] = [@ EXCEPT !.dirty = FALSE]]
    <3> HIDE DEF u
    <3> QED BY <2>2, <1>1 DEF DkFile, State
  <2> QED BY <1>2, <2>1, <2>2
<1>4. t = [u EXCEPT !.files[i] = Nil]
  BY <1>1, <1>3 DEF CloseFile, DestroyUnlinked
<1> HIDE DEF u
<1>5. /\ t.ifree = u.ifree /\ t.inode = u.inode
      /\ t.files = [u.files EXCEPT ![i] = Nil] /\ t.bfree = u.bfree /\ LikeBefore(u, t)
  BY <1>2, <1>4 DEF State, LikeBefore
<1>6. t \in State
  <2>1. u \in State
    BY <1>2
  <2> HIDE DEF t
  <2> QED BY <2>1, <1>4 DEF State
<1>7. t.files = [s.files EXCEPT ![i] = Nil]
  BY <1>2, <1>5 DEF State
<1> QED BY <1>2, <1>5, <1>6, <1>7 DEF LikeBefore

(* The types of a state's fields.                                          *)
LEMMA StateFields ==
    ASSUME NEW s \in State, NEW i \in Ino
    PROVE  /\ s.fh[i] \in Nat /\ s.dh[i] \in Nat /\ s.bfree \in Nat
           /\ s.inode[i] \in DiskInode /\ s.inode[i].nlink \in Nat /\ s.inode[i].size \in 0 .. 1
           /\ s.data[i] \in Entries
           /\ s.files[i] # Nil => s.files[i] \in DkFile
           /\ s.dirs[i] # Nil => s.dirs[i] \in DkDir
           /\ Inode(s, i).size \in 0 .. 1 /\ Inode(s, i).nlink \in Nat
           /\ s.ifree \subseteq Ino /\ s.closeF \subseteq Ino /\ s.closeD \in Seq(Ino)
<1>1. s.inode[i] \in DiskInode
  BY DEF State
<1>2. s.inode[i].nlink \in Nat /\ s.inode[i].size \in 0 .. 1
  BY <1>1 DEF DiskInode
<1>3. s.files[i] # Nil => s.files[i].nlink \in Nat /\ s.files[i].size \in 0 .. 1
  BY DEF State, DkFile
<1> QED BY <1>1, <1>2, <1>3 DEF State, Inode

(* close_file keeps the state coherent; a file without references is       *)
(* closed.                                                                 *)
LEMMA CloseFileOK ==
    ASSUME NEW s, NEW F, Coherent(s, F), NEW i \in Ino
    PROVE  LET t == CloseFile(i, s)
           IN  /\ Coherent(t, F) /\ Calm(Tree(s), Tree(t)) /\ LikeBefore(s, t)
               /\ \A j \in Ino : t.files[j] \in {s.files[j], Nil}
               /\ FileRefs(s, i) > 0 \/ t.files[i] = Nil
               /\ \A j \in Ino : j # i \/ FileRefs(s, i) > 0 => t.files[j] = s.files[j]
<1> DEFINE t == CloseFile(i, s)
<1>1. s \in State /\ Accounted(s) /\ \A j \in Ino : Sound(s, j, F)
  BY DEF Coherent
<1>2. s.fh[i] \in Nat /\ s.dh[i] \in Nat /\ s.bfree \in Nat /\ s.inode[i].nlink \in Nat
  BY <1>1, StateFields
<1>3. CASE s.files[i] = Nil \/ FileRefs(s, i) > 0
  <2>1. t = s
    BY <1>3 DEF CloseFile
  <2> QED BY <2>1, <1>3 DEF Calm, LikeBefore
<1>4. CASE s.files[i] # Nil /\ FileRefs(s, i) <= 0
  <2>1. s.fh[i] = 0 /\ s.dirs[i] = Nil /\ FileRefs(s, i) = 0
    BY <1>2, <1>4 DEF FileRefs
  <2>2. s.dh[i] = 0 /\ i \notin F /\ i \notin s.ifree
    BY <1>1, <1>2, <1>4, <2>1 DEF Sound
  <2>3. s.files[i].nlink \in Nat /\ s.files[i].size \in 0 .. 1 /\ Inode(s, i) = s.files[i]
    BY <1>1, <1>4, FileType
  <2>4. CASE s.files[i].nlink = 0
    <3>1. /\ t \in State /\ LikeBefore(s, t)
          /\ t.ifree = s.ifree \union {i}
          /\ t.inode = [s.inode EXCEPT ![i] = FreeSlot]
          /\ t.bfree = s.bfree + s.files[i].size
          /\ t.files = [s.files EXCEPT ![i] = Nil]
      BY <1>1, <1>4, <2>1, <2>4, CloseFileDead
    <3> HIDE DEF t
    <3>2. \A j \in Ino \ {i} : Same(s, t, j) /\ t.fh[j] = s.fh[j] /\ t.dh[j] = s.dh[j]
      BY <3>1, <1>1 DEF Same, LikeBefore, State
    <3>3. t.files[i] = Nil /\ t.inode[i] = FreeSlot /\ i \in t.ifree /\ Inode(t, i) = FreeSlot
      BY <3>1, <1>1 DEF State, Inode
    <3>4. Sound(t, i, F)
      BY <3>1, <3>3, <2>1, <2>2 DEF Sound, LikeBefore
    <3>5. \A j \in Ino : Sound(t, j, F)
      BY <3>2, <3>4, <1>1, SameSound
    <3>6. Accounted(t)
      <4>1. \A j \in Ino \ {i} : Inode(t, j) = Inode(s, j)
        BY <3>2, SameNode
      <4>2. Inode(t, i).size = 0
        BY <3>3 DEF FreeSlot
      <4>3. t.bfree \in Nat
        BY <3>1, StateFields
      <4> QED BY <4>1, <4>2, <4>3, <3>1, <2>3, <1>1, <1>2, FullChange
    <3>7. Calm(Tree(s), Tree(t))
      <4>1. \A j \in Ino \ {i} : Tree(t)[j] = Tree(s)[j]
        BY <3>2, SameNode
      <4>2. Tree(t)[i] = Nil
        BY <3>3 DEF Tree
      <4>3. Tree(s)[i] = NodeOf(s, i)
        BY <2>2 DEF Tree
      <4>4. Tree(s)[i].nlink = 0
        BY <4>3, <2>3, <2>4 DEF NodeOf
      <4> QED BY <4>1, <4>2, <4>4 DEF Calm
    <3>8. Coherent(t, F)
      BY <3>1, <3>5, <3>6 DEF Coherent
    <3>9. \A j \in Ino \ {i} : t.files[j] = s.files[j]
      BY <3>2 DEF Same
    <3> QED BY <3>1, <3>3, <3>7, <3>8, <3>9, <2>1 DEF t
  <2>5. CASE s.files[i].nlink > 0
    <3>1. /\ t \in State /\ LikeBefore(s, t)
          /\ t.ifree = s.ifree /\ t.bfree = s.bfree
          /\ \/ t.inode = s.inode /\ ~s.files[i].dirty
             \/ t.inode = [s.inode EXCEPT ![i] = Written(s.files[i])]
          /\ t.files = [s.files EXCEPT ![i] = Nil]
      BY <1>1, <1>4, <2>1, <2>5, CloseFileLive
    <3> HIDE DEF t
    <3>2. \A j \in Ino \ {i} : Same(s, t, j) /\ t.fh[j] = s.fh[j] /\ t.dh[j] = s.dh[j]
      BY <3>1, <1>1 DEF Same, LikeBefore, State
    <3>3. t.files[i] = Nil /\ t.inode[i] = Written(s.files[i]) /\ Inode(t, i) = t.inode[i]
      BY <3>1, <1>1, <1>4 DEF State, Inode, Sound
    <3>4. Sound(t, i, F)
      BY <3>1, <3>3, <2>1, <2>2, <1>1, <2>5, <1>4 DEF Sound, LikeBefore, Written
    <3>5. \A j \in Ino : Sound(t, j, F)
      BY <3>2, <3>4, <1>1, SameSound
    <3>6. Accounted(t)
      <4>1. \A j \in Ino \ {i} : Inode(t, j) = Inode(s, j)
        BY <3>2, SameNode
      <4>2. Inode(t, i).size = s.files[i].size
        BY <3>3 DEF Written
      <4> QED BY <4>1, <4>2, <3>1, <2>3, <1>1, <1>2, FullChange
    <3>7. Calm(Tree(s), Tree(t))
      <4>1. \A j \in Ino \ {i} : Tree(t)[j] = Tree(s)[j]
        BY <3>2, SameNode
      <4>2. Tree(s)[i] = NodeOf(s, i) /\ Tree(t)[i] = NodeOf(t, i)
        BY <2>2, <3>1 DEF Tree
      <4>3. Ents(t, i) = Ents(s, i)
        BY <3>3, <3>1, <2>1, <2>3 DEF Ents, LikeBefore, Written
      <4>4. NodeOf(t, i) = NodeOf(s, i)
        BY <4>3, <3>3, <2>3 DEF NodeOf, Written
      <4> QED BY <4>1, <4>2, <4>4 DEF Calm
    <3>8. Coherent(t, F)
      BY <3>1, <3>5, <3>6 DEF Coherent
    <3>9. \A j \in Ino \ {i} : t.files[j] = s.files[j]
      BY <3>2 DEF Same
    <3> QED BY <3>1, <3>3, <3>7, <3>8, <3>9, <2>1 DEF t
  <2> QED BY <2>3, <2>4, <2>5
<1>5. FileRefs(s, i) \in Int
  BY <1>2 DEF FileRefs
<1> QED BY <1>3, <1>4, <1>5

(* The entries of an inode are entries.                                    *)
LEMMA EntsType ==
    ASSUME NEW s \in State, NEW i \in Ino
    PROVE  Ents(s, i) \in Entries
  BY StateFields DEF Ents, DkDir, NoEntries, Entries

(* An allocated inode is a node.                                           *)
LEMMA NodeType ==
    ASSUME NEW s, NEW F, Coherent(s, F), NEW i \in Ino, i \notin s.ifree
    PROVE  NodeOf(s, i) \in Nodes
<1>1. s \in State /\ Sound(s, i, F)
  BY DEF Coherent
<1>2. Ents(s, i) \in Entries /\ NoEntries \in Entries
  BY <1>1, EntsType DEF NoEntries, Entries
<1>3. s.inode[i] \in DiskInode /\ s.inode[i].kind # "free" /\ (s.files[i] # Nil => s.files[i] \in DkFile)
  BY <1>1, StateFields DEF Sound
<1>4. /\ Inode(s, i).kind \in {"file", "dir"} /\ Inode(s, i).nlink \in Nat
      /\ Inode(s, i).suid \in BOOLEAN /\ Inode(s, i).size \in 0 .. 1
  BY <1>3 DEF Inode, DiskInode, DkFile
<1> DEFINE n == Inode(s, i)
<1>5. NodeOf(s, i) = [kind |-> n.kind, nlink |-> n.nlink, suid |-> n.suid,
                      size |-> IF n.kind = "dir" THEN 0 ELSE n.size,
                      ents |-> IF n.kind = "dir" THEN Ents(s, i) ELSE NoEntries]
  BY DEF NodeOf
<1> HIDE DEF n
<1> QED BY <1>2, <1>4, <1>5 DEF Nodes, n

(* The tree of a coherent state is a tree.                                 *)
LEMMA TreeType ==
    ASSUME NEW s, NEW F, Coherent(s, F)
    PROVE  Tree(s) \in Trees
  BY NodeType DEF Tree, Trees

(* close_files_in_list, by induction over the list: the state stays        *)
(* coherent, and every file on the list without references is closed.      *)
LEMMA CloseFilesOK ==
    ASSUME NEW s, NEW F, Coherent(s, F)
    PROVE  LET t == CloseFilesInList(s)
           IN  /\ Coherent(t, F) /\ Calm(Tree(s), Tree(t))
               /\ t.data = s.data /\ t.dirs = s.dirs /\ t.fh = s.fh /\ t.dh = s.dh
               /\ t.closeF = {} /\ t.closeD = s.closeD
               /\ \A j \in Ino :
                    /\ t.files[j] \in {s.files[j], Nil}
                    /\ FileRefs(s, j) > 0 \/ j \notin s.closeF => t.files[j] = s.files[j]
                    /\ FileRefs(s, j) > 0 \/ j \notin s.closeF \/ t.files[j] = Nil
<1> DEFINE S == s.closeF
           b == [s EXCEPT !.closeF = {}]
           V == {t \in State : Coherent(t, F)}
           first(U) == CHOOSE x \in U : TRUE
           pick == [U \in (SUBSET S) \ {{}} |-> first(U)]
           G == [a \in S \X V |-> CloseFile(a[1], a[2])]
           Eqn(g) == g = [U \in SUBSET S |->
                            IF U = {} THEN b ELSE CloseFile(first(U), g[U \ {first(U)}])]
           iter == CHOOSE g : Eqn(g)
           Rel(U, t) ==
             /\ Calm(Tree(s), Tree(t)) /\ LikeBefore(b, t)
             /\ \A j \in Ino :
                  /\ t.files[j] \in {s.files[j], Nil}
                  /\ FileRefs(s, j) > 0 \/ j \notin U => t.files[j] = s.files[j]
                  /\ FileRefs(s, j) > 0 \/ j \notin U \/ t.files[j] = Nil
<1>1. s \in State /\ S \in SUBSET Ino /\ IsFiniteSet(S)
  <2>1. s \in State
    BY DEF Coherent
  <2>2. S \in SUBSET Ino
    BY <2>1 DEF State
  <2> QED BY <2>1, <2>2, FS_Subset, InoAssumption
<1>2. b \in V /\ Rel({}, b)
  <2>1. /\ b \in State /\ b.closeF = {} /\ b.closeD = s.closeD /\ b.data = s.data
        /\ b.dirs = s.dirs /\ b.fh = s.fh /\ b.dh = s.dh /\ b.files = s.files
        /\ b.inode = s.inode /\ b.ifree = s.ifree /\ b.bfree = s.bfree
    BY <1>1 DEF State
  <2> HIDE DEF b
  <2>2. \A j \in Ino : Same(s, b, j) /\ b.fh[j] = s.fh[j] /\ b.dh[j] = s.dh[j]
    BY <2>1 DEF Same
  <2>3. \A j \in Ino : Sound(b, j, F)
    BY <2>2, SameSound DEF Coherent
  <2>4. \A j \in Ino : Tree(b)[j] = Tree(s)[j] /\ Inode(b, j) = Inode(s, j)
    BY <2>2, SameNode
  <2>5. Full(b) = Full(s)
    BY <2>4 DEF Full
  <2>6. Accounted(b)
    BY <2>1, <2>5 DEF Accounted, Coherent
  <2> QED BY <2>1, <2>3, <2>4, <2>6 DEF Coherent, Calm, LikeBefore
<1>3. ASSUME NEW U \in SUBSET S, U # {} PROVE first(U) \in U
  <2>1. \E y \in U : TRUE
    BY <1>3
  <2> QED BY <2>1, Zenon
<1>4. IsPick(pick, S) /\ \A U \in (SUBSET S) \ {{}} : pick[U] = first(U)
  BY <1>3 DEF IsPick
<1>5. \A i \in S, v \in V : CloseFile(i, v) \in V
  BY <1>1, CloseFileOK DEF Coherent
<1>6. G \in [S \X V -> V] /\ \A i \in S, v \in V : G[<<i, v>>] = CloseFile(i, v)
  BY <1>5
<1> HIDE DEF first, V, b, G, pick
<1>7. PICK g : IsFold(g, S, V, b, G, pick)
  BY <1>1, <1>2, <1>4, <1>6, FoldExists
<1>8. Eqn(g)
  <2>0. /\ g \in [SUBSET S -> V]
        /\ \A U \in SUBSET S : g[U] = IF U = {} THEN b ELSE G[<<pick[U], g[U \ {pick[U]}]>>]
    BY <1>7 DEF IsFold
  <2>1. ASSUME NEW U \in SUBSET S, U # {}
        PROVE  g[U] = CloseFile(first(U), g[U \ {first(U)}])
    <3>1. pick[U] = first(U) /\ first(U) \in S /\ g[U \ {first(U)}] \in V
      BY <2>0, <2>1, <1>3, <1>4
    <3> QED BY <3>1, <2>0, <2>1, <1>6
  <2> QED BY <2>0, <2>1
<1>9. Eqn(iter)
  BY <1>8
<1> HIDE DEF iter
<1>10. iter[{}] = b /\ \A U \in (SUBSET S) \ {{}} : iter[U] = CloseFile(first(U), iter[U \ {first(U)}])
  <2>1. iter = [U \in SUBSET S |->
                  IF U = {} THEN b ELSE CloseFile(first(U), iter[U \ {first(U)}])]
    BY <1>9
  <2>2. {} \in SUBSET S
    OBVIOUS
  <2> QED BY <2>1, <2>2, Zenon
<1>11. ASSUME NEW U \in SUBSET S, U # {}, iter[U \ {first(U)}] \in V, Rel(U \ {first(U)}, iter[U \ {first(U)}])
       PROVE  iter[U] \in V /\ Rel(U, iter[U])
  <2> DEFINE i == first(U)
             v == iter[U \ {i}]
             t == CloseFile(i, v)
  <2>1. i \in U /\ i \in Ino /\ Coherent(v, F) /\ v \in State
    BY <1>1, <1>3, <1>11 DEF V
  <2>2. iter[U] = t
    BY <1>10, <1>11
  <2> HIDE DEF i, v
  <2>3. /\ Coherent(t, F) /\ Calm(Tree(v), Tree(t)) /\ LikeBefore(v, t)
        /\ \A j \in Ino : t.files[j] \in {v.files[j], Nil}
        /\ FileRefs(v, i) > 0 \/ t.files[i] = Nil
        /\ \A j \in Ino : j # i \/ FileRefs(v, i) > 0 => t.files[j] = v.files[j]
    BY <2>1, CloseFileOK
  <2>4. Rel(U \ {i}, v)
    BY <1>11 DEF i, v
  <2> HIDE DEF t
  <2>5. \A j \in Ino : FileRefs(v, j) = FileRefs(s, j)
    BY <2>4, <1>1 DEF FileRefs, LikeBefore, b, State
  <2>6. Calm(Tree(s), Tree(t))
    BY <2>3, <2>4, CalmTrans, TreeType
  <2>7. LikeBefore(b, t)
    BY <2>3, <2>4 DEF LikeBefore
  <2>8. ASSUME NEW j \in Ino
        PROVE  /\ t.files[j] \in {s.files[j], Nil}
               /\ FileRefs(s, j) > 0 \/ j \notin U => t.files[j] = s.files[j]
               /\ FileRefs(s, j) > 0 \/ j \notin U \/ t.files[j] = Nil
    BY <2>1, <2>3, <2>4, <2>5
  <2>9. t \in State
    BY <2>3 DEF Coherent
  <2> QED BY <2>2, <2>3, <2>6, <2>7, <2>8, <2>9 DEF V
<1>12. iter[S] \in V /\ Rel(S, iter[S])
  <2> DEFINE Q == {U \in SUBSET S : iter[U] \in V /\ Rel(U, iter[U])}
  <2>1. {} \in Q
    BY <1>2, <1>10
  <2>2. \A U \in SUBSET S : U # {} => \E y \in U : U \ {y} \in Q => U \in Q
    <3> SUFFICES ASSUME NEW U \in SUBSET S, U # {}, U \ {first(U)} \in Q
                 PROVE  U \in Q
      BY <1>3
    <3> QED BY <1>11
  <2> HIDE DEF Q
  <2>3. \A U \in SUBSET S : U \in Q
    BY <2>1, <2>2, <1>1, SubsetInduction, Zenon
  <2>4. S \in Q
    BY <2>3
  <2> QED BY <2>4 DEF Q
<1>13. CloseFilesInList(s) = iter[S]
  BY DEF CloseFilesInList, FoldSet, MapThenFoldSet, iter, first, b
<1>14. Coherent(iter[S], F)
  BY <1>12 DEF V
<1>15. /\ b.closeF = {} /\ b.closeD = s.closeD /\ b.data = s.data
       /\ b.dirs = s.dirs /\ b.fh = s.fh /\ b.dh = s.dh
  BY <1>1 DEF State, b
<1> QED BY <1>12, <1>13, <1>14, <1>15 DEF LikeBefore

(* t is s with the cached inode f for i, and n free blocks.                *)
Edited(s, t, i, f, n) ==
    /\ t \in State /\ LikeBefore(s, t)
    /\ t.ifree = s.ifree /\ t.inode = s.inode /\ t.bfree = n
    /\ t.files = [s.files EXCEPT ![i] = f]

(* The node that results.                                                  *)
Refreshed(node, f) ==
    [kind |-> node.kind, nlink |-> f.nlink, suid |-> f.suid,
     size |-> IF node.kind = "dir" THEN 0 ELSE f.size, ents |-> node.ents]

(* Such a change, as a record.                                             *)
LEMMA EditState ==
    ASSUME NEW s \in State, NEW i \in Ino, NEW f \in DkFile, NEW n \in Nat,
           NEW t, t = [s EXCEPT !.bfree = n, !.files = [s.files EXCEPT ![i] = f]]
    PROVE  Edited(s, t, i, f, n)
<1>1. [s.files EXCEPT ![i] = f] \in [Ino -> DkFile \union {Nil}]
  BY DEF State
<1>2. t \in State
  BY <1>1 DEF State
<1>3. /\ LikeBefore(s, t) /\ t.ifree = s.ifree /\ t.inode = s.inode /\ t.bfree = n
      /\ t.files = [s.files EXCEPT ![i] = f]
  BY DEF State, LikeBefore
<1> QED BY <1>2, <1>3 DEF Edited

(* A change of a cached inode that marks it dirty keeps the state          *)
(* coherent.                                                               *)
LEMMA EditOK ==
    ASSUME NEW s, NEW F, Coherent(s, F), NEW i \in Ino, s.files[i] # Nil,
           NEW f \in DkFile, f.kind = s.files[i].kind, f.dirty,
           NEW n \in Nat, n = s.bfree + s.files[i].size - f.size,
           \/ f.size = s.files[i].size
           \/ f.kind = "file"
           \/ s.dirs[i] # Nil /\ s.dirs[i].dirty,
           NEW t, Edited(s, t, i, f, n)
    PROVE  /\ Coherent(t, F)
           /\ \A j \in Ino \ {i} : Tree(t)[j] = Tree(s)[j] /\ t.files[j] = s.files[j]
           /\ Tree(t)[i] = Refreshed(Tree(s)[i], f)
           /\ t.files[i] = f
<1>1. s \in State /\ Accounted(s) /\ \A j \in Ino : Sound(s, j, F)
  BY DEF Coherent
<1>2. \A j \in Ino \ {i} : Same(s, t, j) /\ t.fh[j] = s.fh[j] /\ t.dh[j] = s.dh[j]
  BY <1>1 DEF Same, Edited, LikeBefore, State
<1>3. t.files[i] = f /\ f # Nil
  BY <1>1, NilAssumption DEF Edited, State
<1>4. Inode(t, i) = f /\ Inode(s, i) = s.files[i]
  BY <1>3 DEF Inode
<1>5. i \notin F /\ i \notin s.ifree /\ i \notin t.ifree
  BY <1>1 DEF Sound, Edited
<1>6. s.files[i] \in DkFile
  BY <1>1, StateFields
<1>7. Sound(t, i, F)
  BY <1>1, <1>3, <1>5, <1>6 DEF Sound, Edited, LikeBefore, DkFile
<1>8. \A j \in Ino : Sound(t, j, F)
  BY <1>1, <1>2, <1>7, SameSound
<1>9. Accounted(t)
  <2>1. \A j \in Ino \ {i} : Inode(t, j) = Inode(s, j)
    BY <1>2, SameNode
  <2>2. f.size \in 0 .. 1 /\ s.files[i].size \in 0 .. 1 /\ s.bfree \in Nat /\ t.bfree = n
    BY <1>1, <1>6 DEF DkFile, Edited, State
  <2> QED BY <2>1, <2>2, <1>1, <1>4, FullChange
<1>10. Coherent(t, F)
  BY <1>8, <1>9 DEF Coherent, Edited
<1>11. \A j \in Ino \ {i} : Tree(t)[j] = Tree(s)[j] /\ t.files[j] = s.files[j]
  BY <1>2, SameNode DEF Same
<1>12. f.kind = "dir" => Ents(t, i) = Ents(s, i)
  BY <1>4, <1>3 DEF Ents, Edited, LikeBefore
<1>13. Tree(t)[i] = NodeOf(t, i) /\ Tree(s)[i] = NodeOf(s, i)
  BY <1>5 DEF Tree
<1>14. NodeOf(t, i) = Refreshed(NodeOf(s, i), f)
  BY <1>4, <1>12 DEF NodeOf, Refreshed
<1> QED BY <1>3, <1>10, <1>11, <1>13, <1>14

(* dk_write is such a change, whether or not a block is free.              *)
LEMMA WriteBlockEdits ==
    ASSUME NEW s \in State, NEW i \in Ino, s.files[i] # Nil
    PROVE  \E f \in DkFile, n \in Nat :
             /\ Edited(s, WriteBlock(s, i), i, f, n)
             /\ f.kind = s.files[i].kind /\ f.nlink = s.files[i].nlink /\ f.suid = s.files[i].suid
             /\ f.dirty /\ n = s.bfree + s.files[i].size - f.size
             /\ f.size = IF CanWrite(s, i) THEN 1 ELSE 0
             /\ ~CanWrite(s, i) => s.bfree = 0 /\ s.files[i].size = 0
<1>1. s.files[i] \in DkFile /\ s.files[i].size \in 0 .. 1 /\ s.bfree \in Nat
  BY FileType, StateFields
<1>2. CASE CanWrite(s, i)
  <2> DEFINE f == [s.files[i] EXCEPT !.size = 1, !.dirty = TRUE]
             n == s.bfree - (1 - s.files[i].size)
  <2>1. f \in DkFile
    <3>1. [s.files[i] EXCEPT !.size = 1] \in DkFile
      BY <1>1 DEF DkFile
    <3> QED BY <3>1 DEF DkFile
  <2>2. n \in Nat
    BY <1>1, <1>2 DEF CanWrite
  <2>3. WriteBlock(s, i) = [s EXCEPT !.bfree = n, !.files = [s.files EXCEPT ![i] = f]]
    BY <1>1, <1>2, ZenonT(60) DEF WriteBlock, State, DkFile
  <2>4. /\ f.kind = s.files[i].kind /\ f.nlink = s.files[i].nlink /\ f.suid = s.files[i].suid
        /\ f.dirty /\ f.size = 1
    BY <1>1 DEF DkFile
  <2>5. n = s.bfree + s.files[i].size - 1
    BY <1>1
  <2> HIDE DEF f, n
  <2>6. Edited(s, WriteBlock(s, i), i, f, n)
    BY <2>1, <2>2, <2>3, EditState
  <2> QED BY <2>1, <2>2, <2>4, <2>5, <2>6, <1>2
<1>3. CASE ~CanWrite(s, i)
  <2> DEFINE f == [s.files[i] EXCEPT !.dirty = TRUE]
             n == s.bfree
  <2>1. f \in DkFile
    BY <1>1 DEF DkFile
  <2>2. n \in Nat /\ s.bfree = 0 /\ s.files[i].size = 0
    BY <1>1, <1>3 DEF CanWrite
  <2>3. WriteBlock(s, i) = [s EXCEPT !.bfree = n, !.files = [s.files EXCEPT ![i] = f]]
    BY <1>1, <1>3 DEF WriteBlock, State, DkFile
  <2>4. /\ f.kind = s.files[i].kind /\ f.nlink = s.files[i].nlink /\ f.suid = s.files[i].suid
        /\ f.dirty /\ f.size = 0
    BY <1>1, <2>2 DEF DkFile
  <2>5. n = s.bfree + s.files[i].size - 0
    BY <1>1, <2>2
  <2> HIDE DEF f, n
  <2>6. Edited(s, WriteBlock(s, i), i, f, n)
    BY <2>1, <2>2, <2>3, EditState
  <2> QED BY <2>1, <2>2, <2>4, <2>5, <2>6, <1>3
<1> QED BY <1>2, <1>3

(* With enough blocks, a file without one can always be written.           *)
LEMMA RoomForAll ==
    ASSUME NEW s \in State, Accounted(s), EnoughBlocks, NEW i \in Ino, s.files[i] # Nil
    PROVE  CanWrite(s, i)
<1> SUFFICES ASSUME ~CanWrite(s, i) PROVE FALSE
  OBVIOUS
<1>1. s.bfree = 0 /\ s.files[i].size = 0
  BY FileType, StateFields DEF CanWrite
<1>2. i \notin Full(s) /\ Full(s) \subseteq Ino
  BY <1>1, FileType DEF Full
<1>3. Full(s) \subseteq Ino \ {i} /\ IsFiniteSet(Ino \ {i})
  BY <1>2, InoAssumption, FS_Subset
<1>4. Cardinality(Full(s)) <= Cardinality(Ino \ {i}) /\ Cardinality(Ino \ {i}) = Cardinality(Ino) - 1
  BY <1>3, InoAssumption, FS_Subset, FS_RemoveElement
<1>5. Cardinality(Ino) \in Nat /\ Cardinality(Full(s)) \in Nat
  BY <1>2, InoAssumption, FS_Subset, FS_CardinalityType
<1> QED BY <1>1, <1>4, <1>5, BlocksAssumption DEF Accounted, EnoughBlocks

(* flush of a directory leaves the tree as it is.                          *)
LEMMA FlushDirOK ==
    ASSUME NEW s, NEW F, Coherent(s, F), NEW i \in Ino, s.dirs[i] # Nil
    PROVE  LET t == FlushDir(s, i)
           IN  /\ Coherent(t, F) /\ \A j \in Ino : Tree(t)[j] = Tree(s)[j]
               /\ t.fh = s.fh /\ t.dh = s.dh /\ t.closeF = s.closeF /\ t.closeD = s.closeD
               /\ \A j \in Ino : t.files[j] = Nil <=> s.files[j] = Nil
               /\ \A j \in Ino \ {i} : t.dirs[j] = s.dirs[j]
               /\ t.dirs[i] # Nil /\ t.dirs[i].ents = s.dirs[i].ents /\ ~t.dirs[i].dirty
<1> DEFINE t == FlushDir(s, i)
           u == WriteBlock(s, i)
           e == s.dirs[i].ents
           new == [s.dirs[i] EXCEPT !.dirty = FALSE]
           d == IF CanWrite(s, i) THEN e ELSE u.data[i]
<1>1. s \in State /\ Accounted(s) /\ \A j \in Ino : Sound(s, j, F)
  BY DEF Coherent
<1>2. s.dirs[i] \in DkDir /\ s.files[i] # Nil /\ s.files[i].kind = "dir" /\ s.files[i] \in DkFile
  BY <1>1, StateFields DEF Sound
<1>3. CASE ~s.dirs[i].dirty
  <2>1. t = s
    BY <1>3 DEF FlushDir
  <2> QED BY <2>1, <1>3
<1>4. CASE s.dirs[i].dirty
  <2>1. PICK f \in DkFile, n \in Nat :
             /\ Edited(s, u, i, f, n)
             /\ f.kind = s.files[i].kind /\ f.nlink = s.files[i].nlink /\ f.suid = s.files[i].suid
             /\ f.dirty /\ n = s.bfree + s.files[i].size - f.size
             /\ f.size = IF CanWrite(s, i) THEN 1 ELSE 0
             /\ ~CanWrite(s, i) => s.bfree = 0 /\ s.files[i].size = 0
    BY <1>1, <1>2, WriteBlockEdits
  <2> HIDE DEF u
  <2>2. /\ Coherent(u, F)
        /\ \A j \in Ino \ {i} : Tree(u)[j] = Tree(s)[j] /\ u.files[j] = s.files[j]
        /\ Tree(u)[i] = Refreshed(Tree(s)[i], f)
        /\ u.files[i] = f
    BY <1>2, <1>4, <2>1, EditOK
  <2>3. u \in State /\ u.fh = s.fh /\ u.dh = s.dh /\ u.closeF = s.closeF /\ u.closeD = s.closeD
        /\ u.data = s.data /\ u.dirs = s.dirs /\ f # Nil
    BY <2>1, NilAssumption DEF Edited, LikeBefore
  <2>4. t = [u EXCEPT !.data[i] = d, !.dirs[i].dirty = FALSE]
    BY <1>4 DEF FlushDir, u
  <2>5. new \in DkDir /\ new.ents = e /\ ~new.dirty /\ new # Nil /\ e \in Entries
    BY <1>2, NilAssumption DEF DkDir
  <2>6. d \in Entries
    BY <2>3, <2>5, StateFields
  <2> HIDE DEF t, d, new, e
  <2>7. t = [u EXCEPT !.data = [u.data EXCEPT ![i] = d], !.dirs = [u.dirs EXCEPT ![i] = new]]
    <3>1. u.dirs[i] \in DkDir /\ new = [u.dirs[i] EXCEPT !.dirty = FALSE]
      BY <2>3, <1>2 DEF new
    <3> QED BY <2>3, <2>4, <3>1 DEF State
  <2>8. /\ t.fh = u.fh /\ t.dh = u.dh /\ t.closeF = u.closeF /\ t.closeD = u.closeD
        /\ t.files = u.files /\ t.inode = u.inode /\ t.ifree = u.ifree /\ t.bfree = u.bfree
        /\ t.data = [u.data EXCEPT ![i] = d] /\ t.dirs = [u.dirs EXCEPT ![i] = new]
    BY <2>3, <2>7 DEF State
  <2>9. t \in State
    <3>1. [u.data EXCEPT ![i] = d] \in [Ino -> Entries]
      BY <2>3, <2>6 DEF State
    <3>2. [u.dirs EXCEPT ![i] = new] \in [Ino -> DkDir \union {Nil}]
      BY <2>3, <2>5 DEF State
    <3> QED BY <2>3, <2>7, <3>1, <3>2 DEF State
  <2>10. t.data[i] = d /\ t.dirs[i] = new
    BY <2>3, <2>8 DEF State
  <2>11. \A j \in Ino \ {i} : Same(u, t, j) /\ t.fh[j] = u.fh[j] /\ t.dh[j] = u.dh[j]
    BY <2>3, <2>8 DEF Same, State
  <2>12. \/ f.size = 1 /\ d = e
         \/ f.size = 0 /\ ~EnoughBlocks
    BY <2>1, <1>1, <1>2, RoomForAll DEF d
  <2>13. Sound(t, i, F)
    <3>1. Sound(u, i, F)
      BY <2>2 DEF Coherent
    <3> QED BY <3>1, <2>1, <2>2, <2>3, <2>5, <2>8, <2>10, <2>12, <1>2 DEF Sound
  <2>14. \A j \in Ino : Sound(t, j, F)
    BY <2>2, <2>11, <2>13, SameSound DEF Coherent
  <2>15. \A j \in Ino : Inode(t, j) = Inode(u, j)
    BY <2>8 DEF Inode
  <2>16. Accounted(t)
    <3>1. Full(t) = Full(u)
      BY <2>15 DEF Full
    <3> QED BY <3>1, <2>2, <2>8 DEF Coherent, Accounted
  <2>17. Ents(t, i) = e /\ Ents(s, i) = e
    BY <2>10, <2>5 DEF Ents, e
  <2>18. Tree(t)[i] = Tree(s)[i]
    <3>1. i \notin s.ifree /\ i \notin t.ifree /\ Tree(t)[i] = NodeOf(t, i) /\ Tree(s)[i] = NodeOf(s, i)
      BY <1>1, <1>2, <2>1, <2>8 DEF Sound, Edited, Tree
    <3>2. Inode(t, i) = f /\ Inode(s, i) = s.files[i]
      BY <1>2, <2>2, <2>3, <2>8 DEF Inode
    <3> QED BY <3>1, <3>2, <2>17, <2>1, <1>2 DEF NodeOf
  <2>19. \A j \in Ino : Tree(t)[j] = Tree(s)[j]
    BY <2>2, <2>11, <2>18, SameNode
  <2>20. \A j \in Ino : t.files[j] = Nil <=> s.files[j] = Nil
    BY <2>2, <2>3, <2>8, <1>2
  <2>21. Coherent(t, F)
    BY <2>9, <2>14, <2>16 DEF Coherent
  <2>22. \A j \in Ino \ {i} : t.dirs[j] = s.dirs[j]
    BY <2>3, <2>8, <1>1 DEF State
  <2> QED BY <2>3, <2>5, <2>8, <2>10, <2>19, <2>20, <2>21, <2>22 DEF t, e
<1> QED BY <1>3, <1>4

(* close_dir keeps the state coherent, hands the directory's inode to      *)
(* close_file_list and changes the tree at most by the content that could  *)
(* not be written.                                                         *)
LEMMA CloseDirOK ==
    ASSUME NEW s, NEW F, Coherent(s, F), NEW i \in Ino
    PROVE  LET t == CloseDir(i, s)
           IN  /\ Coherent(t, F) /\ Calm(Tree(s), Tree(t))
               /\ t.fh = s.fh /\ t.dh = s.dh /\ t.closeD = s.closeD
               /\ \A j \in Ino : t.files[j] = Nil <=> s.files[j] = Nil
               /\ s.closeF \subseteq t.closeF
               /\ \A j \in Ino : s.dirs[j] # Nil => t.dirs[j] # Nil \/ j \in t.closeF
               /\ \A j \in Ino : s.dirs[j] = Nil => t.dirs[j] = Nil
               /\ s.dh[i] > 0 \/ t.dirs[i] = Nil
<1> DEFINE t == CloseDir(i, s)
           v == FlushDir(s, i)
<1>1. s \in State /\ Accounted(s) /\ \A j \in Ino : Sound(s, j, F)
  BY DEF Coherent
<1>2. CASE s.dirs[i] = Nil \/ s.dh[i] > 0
  <2>1. t = s
    BY <1>2 DEF CloseDir, DirRefs
  <2> QED BY <2>1, <1>2 DEF Calm
<1>3. CASE s.dirs[i] # Nil /\ ~(s.dh[i] > 0)
  <2>1. /\ Coherent(v, F) /\ \A j \in Ino : Tree(v)[j] = Tree(s)[j]
        /\ v.fh = s.fh /\ v.dh = s.dh /\ v.closeF = s.closeF /\ v.closeD = s.closeD
        /\ \A j \in Ino : v.files[j] = Nil <=> s.files[j] = Nil
        /\ \A j \in Ino \ {i} : v.dirs[j] = s.dirs[j]
        /\ v.dirs[i] # Nil /\ v.dirs[i].ents = s.dirs[i].ents /\ ~v.dirs[i].dirty
    BY <1>3, FlushDirOK
  <2>2. t = [v EXCEPT !.dirs[i] = Nil, !.closeF = v.closeF \union {i}]
    BY <1>3 DEF CloseDir, DirRefs
  <2>3. v \in State /\ Accounted(v) /\ \A j \in Ino : Sound(v, j, F)
    BY <2>1 DEF Coherent
  <2> HIDE DEF t, v
  <2>4. t \in State
    <3>1. v \in State
      BY <2>3
    <3> QED BY <3>1, <2>2 DEF State
  <2>5. /\ t.fh = v.fh /\ t.dh = v.dh /\ t.closeF = v.closeF \union {i} /\ t.closeD = v.closeD
        /\ t.files = v.files /\ t.inode = v.inode /\ t.ifree = v.ifree /\ t.bfree = v.bfree
        /\ t.data = v.data /\ t.dirs = [v.dirs EXCEPT ![i] = Nil]
    BY <2>2, <2>3 DEF State
  <2>6. t.dirs[i] = Nil /\ \A j \in Ino \ {i} : t.dirs[j] = v.dirs[j]
    BY <2>3, <2>5 DEF State
  <2>7. \A j \in Ino \ {i} : Same(v, t, j) /\ t.fh[j] = v.fh[j] /\ t.dh[j] = v.dh[j]
    BY <2>5, <2>6 DEF Same
  <2>8. Sound(t, i, F)
    BY <2>1, <2>3, <2>5, <2>6, <1>3 DEF Sound
  <2>9. \A j \in Ino : Sound(t, j, F)
    BY <2>3, <2>7, <2>8, SameSound
  <2>10. \A j \in Ino : Inode(t, j) = Inode(v, j)
    BY <2>5 DEF Inode
  <2>11. Accounted(t)
    <3>1. Full(t) = Full(v)
      BY <2>10 DEF Full
    <3> QED BY <3>1, <2>3, <2>5 DEF Accounted
  <2>12. \A j \in Ino \ {i} : Tree(t)[j] = Tree(s)[j]
    BY <2>1, <2>7, SameNode
  <2>13. Tree(t)[i] = Tree(s)[i] \/ (~EnoughBlocks /\ Tree(s)[i] # Nil
                                       /\ Tree(t)[i] = [Tree(s)[i] EXCEPT !.ents = NoEntries])
    <3>1. v.files[i] # Nil /\ v.files[i].kind = "dir" /\ i \notin v.ifree /\ Inode(v, i) = v.files[i]
      BY <2>1, <2>3 DEF Sound, Inode
    <3>2. Tree(t)[i] = NodeOf(t, i) /\ Tree(s)[i] = NodeOf(v, i)
      BY <3>1, <2>1, <2>5 DEF Tree
    <3>3. NodeOf(v, i) \in Nodes
      BY <3>1, <2>1, NodeType
    <3>4. Ents(v, i) = v.dirs[i].ents
      BY <2>1 DEF Ents
    <3>5. CASE Ents(t, i) = Ents(v, i)
      BY <3>5, <3>2, <2>10 DEF NodeOf
    <3>6. CASE Ents(t, i) # Ents(v, i)
      <4>1. Ents(t, i) = NoEntries /\ ~EnoughBlocks
        BY <3>1, <3>4, <3>6, <2>1, <2>3, <2>5, <2>6, <2>10 DEF Ents, Sound
      <4>2. NodeOf(t, i) = [kind |-> NodeOf(v, i).kind, nlink |-> NodeOf(v, i).nlink,
                            suid |-> NodeOf(v, i).suid, size |-> NodeOf(v, i).size,
                            ents |-> NoEntries]
        BY <4>1, <3>1, <2>10 DEF NodeOf
      <4>3. \A m \in Nodes : [m EXCEPT !.ents = NoEntries] =
              [kind |-> m.kind, nlink |-> m.nlink, suid |-> m.suid, size |-> m.size, ents |-> NoEntries]
        BY DEF Nodes
      <4>4. NodeOf(t, i) = [NodeOf(v, i) EXCEPT !.ents = NoEntries]
        BY <4>2, <4>3, <3>3
      <4> QED BY <4>1, <4>4, <3>2, <3>3, NodeAssumption
    <3> QED BY <3>5, <3>6
  <2>14. Calm(Tree(s), Tree(t))
    BY <2>12, <2>13 DEF Calm
  <2>15. Coherent(t, F)
    BY <2>4, <2>9, <2>11 DEF Coherent
  <2> QED BY <2>1, <2>5, <2>6, <2>14, <2>15 DEF t
<1> QED BY <1>2, <1>3

(* close_dirs_in_list, by induction over the list: the state stays         *)
(* coherent, and every directory on the list without handles is closed.    *)
LEMMA CloseDirsOK ==
    ASSUME NEW s, NEW F, Coherent(s, F)
    PROVE  LET t == CloseDirsInList(s)
           IN  /\ Coherent(t, F) /\ Calm(Tree(s), Tree(t))
               /\ t.fh = s.fh /\ t.dh = s.dh /\ t.closeD = <<>>
               /\ s.closeF \subseteq t.closeF
               /\ \A j \in Ino :
                    /\ t.files[j] = Nil <=> s.files[j] = Nil
                    /\ s.dirs[j] # Nil => t.dirs[j] # Nil \/ j \in t.closeF
                    /\ s.dirs[j] = Nil => t.dirs[j] = Nil
                    /\ j \in Range(s.closeD) => s.dh[j] > 0 \/ t.dirs[j] = Nil
<1> DEFINE c == s.closeD
           S == DOMAIN c
           b == [s EXCEPT !.closeD = <<>>]
           V == {t \in State : Coherent(t, F)}
           first(U) == Min(U)
           pick == [U \in (SUBSET S) \ {{}} |-> first(U)]
           G == [a \in S \X V |-> CloseDir(c[a[1]], a[2])]
           Eqn(g) == g = [U \in SUBSET S |->
                            IF U = {} THEN b ELSE CloseDir(c[first(U)], g[U \ {first(U)}])]
           iter == CHOOSE g : Eqn(g)
           Rel(U, t) ==
             /\ Calm(Tree(s), Tree(t))
             /\ t.fh = s.fh /\ t.dh = s.dh /\ t.closeD = <<>>
             /\ s.closeF \subseteq t.closeF
             /\ \A j \in Ino :
                  /\ t.files[j] = Nil <=> s.files[j] = Nil
                  /\ s.dirs[j] # Nil => t.dirs[j] # Nil \/ j \in t.closeF
                  /\ s.dirs[j] = Nil => t.dirs[j] = Nil
             /\ \A k \in U : s.dh[c[k]] > 0 \/ t.dirs[c[k]] = Nil
<1>1. s \in State /\ c \in Seq(Ino) /\ S \in SUBSET Nat /\ IsFiniteSet(S) /\ \A k \in S : c[k] \in Ino
  <2>1. s \in State
    BY DEF Coherent
  <2>2. c \in Seq(Ino)
    BY <2>1 DEF State
  <2>3. S = 1 .. Len(c) /\ Len(c) \in Nat
    BY <2>2
  <2>4. IsFiniteSet(S)
    BY <2>3, FS_Interval
  <2> QED BY <2>1, <2>2, <2>3, <2>4
<1>2. b \in V /\ Rel({}, b)
  <2>1. /\ b \in State /\ b.closeF = s.closeF /\ b.closeD = <<>> /\ b.data = s.data
        /\ b.dirs = s.dirs /\ b.fh = s.fh /\ b.dh = s.dh /\ b.files = s.files
        /\ b.inode = s.inode /\ b.ifree = s.ifree /\ b.bfree = s.bfree
    <3>1. <<>> \in Seq(Ino) /\ s \in State
      BY <1>1
    <3>2. b \in State
      BY <3>1 DEF State
    <3> QED BY <3>1, <3>2 DEF State
  <2> HIDE DEF b
  <2>2. \A j \in Ino : Same(s, b, j) /\ b.fh[j] = s.fh[j] /\ b.dh[j] = s.dh[j]
    BY <2>1 DEF Same
  <2>3. \A j \in Ino : Sound(b, j, F)
    BY <2>2, SameSound DEF Coherent
  <2>4. \A j \in Ino : Tree(b)[j] = Tree(s)[j] /\ Inode(b, j) = Inode(s, j)
    BY <2>2, SameNode
  <2>5. Full(b) = Full(s)
    BY <2>4 DEF Full
  <2>6. Accounted(b)
    BY <2>1, <2>5 DEF Accounted, Coherent
  <2> QED BY <2>1, <2>3, <2>4, <2>6 DEF Coherent, Calm
<1>3. ASSUME NEW U \in SUBSET S, U # {} PROVE first(U) \in U
  <2>1. \E y \in U : \A z \in U : y <= z
    BY <1>1, <1>3, Least
  <2> QED BY <2>1, Zenon DEF Min
<1> HIDE DEF first
<1>4. IsPick(pick, S) /\ \A U \in (SUBSET S) \ {{}} : pick[U] = first(U)
  BY <1>3 DEF IsPick
<1>5. \A k \in S, v \in V : CloseDir(c[k], v) \in V
  BY <1>1, CloseDirOK DEF Coherent
<1>6. G \in [S \X V -> V] /\ \A k \in S, v \in V : G[<<k, v>>] = CloseDir(c[k], v)
  BY <1>5
<1> HIDE DEF V, b, G, pick
<1>7. PICK g : IsFold(g, S, V, b, G, pick)
  BY <1>1, <1>2, <1>4, <1>6, FoldExists
<1>8. Eqn(g)
  <2>0. /\ g \in [SUBSET S -> V]
        /\ \A U \in SUBSET S : g[U] = IF U = {} THEN b ELSE G[<<pick[U], g[U \ {pick[U]}]>>]
    BY <1>7 DEF IsFold
  <2>1. ASSUME NEW U \in SUBSET S, U # {}
        PROVE  g[U] = CloseDir(c[first(U)], g[U \ {first(U)}])
    <3>1. pick[U] = first(U) /\ first(U) \in S /\ g[U \ {first(U)}] \in V
      BY <2>0, <2>1, <1>3, <1>4
    <3> QED BY <3>1, <2>0, <2>1, <1>6
  <2> QED BY <2>0, <2>1
<1>9. Eqn(iter)
  BY <1>8
<1> HIDE DEF iter
<1>10. iter[{}] = b /\ \A U \in (SUBSET S) \ {{}} : iter[U] = CloseDir(c[first(U)], iter[U \ {first(U)}])
  <2>1. iter = [U \in SUBSET S |->
                  IF U = {} THEN b ELSE CloseDir(c[first(U)], iter[U \ {first(U)}])]
    BY <1>9
  <2>2. {} \in SUBSET S
    OBVIOUS
  <2> QED BY <2>1, <2>2, Zenon
<1>11. ASSUME NEW U \in SUBSET S, U # {},
              iter[U \ {first(U)}] \in V, Rel(U \ {first(U)}, iter[U \ {first(U)}])
       PROVE  iter[U] \in V /\ Rel(U, iter[U])
  <2> DEFINE k == first(U)
             i == c[k]
             v == iter[U \ {k}]
             t == CloseDir(i, v)
  <2>1. k \in U /\ i \in Ino /\ Coherent(v, F) /\ v \in State
    BY <1>1, <1>3, <1>11 DEF V
  <2>2. iter[U] = t
    BY <1>10, <1>11
  <2> HIDE DEF k, v
  <2>3. /\ Coherent(t, F) /\ Calm(Tree(v), Tree(t))
        /\ t.fh = v.fh /\ t.dh = v.dh /\ t.closeD = v.closeD
        /\ \A j \in Ino : t.files[j] = Nil <=> v.files[j] = Nil
        /\ v.closeF \subseteq t.closeF
        /\ \A j \in Ino : v.dirs[j] # Nil => t.dirs[j] # Nil \/ j \in t.closeF
        /\ \A j \in Ino : v.dirs[j] = Nil => t.dirs[j] = Nil
        /\ v.dh[i] > 0 \/ t.dirs[i] = Nil
    BY <2>1, CloseDirOK
  <2>4. Rel(U \ {k}, v)
    BY <1>11 DEF k, v
  <2> HIDE DEF t
  <2>6. Calm(Tree(s), Tree(t))
    BY <2>3, <2>4, CalmTrans, TreeType
  <2>7. t.fh = s.fh /\ t.dh = s.dh /\ t.closeD = <<>> /\ s.closeF \subseteq t.closeF
    BY <2>3, <2>4
  <2>8. ASSUME NEW j \in Ino
        PROVE  /\ t.files[j] = Nil <=> s.files[j] = Nil
               /\ s.dirs[j] # Nil => t.dirs[j] # Nil \/ j \in t.closeF
               /\ s.dirs[j] = Nil => t.dirs[j] = Nil
    BY <2>3, <2>4
  <2>9. \A l \in U : s.dh[c[l]] > 0 \/ t.dirs[c[l]] = Nil
    BY <2>3, <2>4, <1>1
  <2>10. t \in State
    BY <2>3 DEF Coherent
  <2> QED BY <2>2, <2>3, <2>6, <2>7, <2>8, <2>9, <2>10 DEF V
<1>12. iter[S] \in V /\ Rel(S, iter[S])
  <2> DEFINE Q == {U \in SUBSET S : iter[U] \in V /\ Rel(U, iter[U])}
  <2>1. {} \in Q
    BY <1>2, <1>10
  <2>2. \A U \in SUBSET S : U # {} => \E y \in U : U \ {y} \in Q => U \in Q
    <3> SUFFICES ASSUME NEW U \in SUBSET S, U # {}, U \ {first(U)} \in Q
                 PROVE  U \in Q
      BY <1>3
    <3> QED BY <1>11
  <2> HIDE DEF Q
  <2>3. \A U \in SUBSET S : U \in Q
    BY <2>1, <2>2, <1>1, SubsetInduction, Zenon
  <2>4. S \in Q
    BY <2>3
  <2> QED BY <2>4 DEF Q
<1>13. CloseDirsInList(s) = iter[S]
  BY DEF CloseDirsInList, FoldRight, MapThenFoldSet, iter, first, b
<1>14. Coherent(iter[S], F)
  BY <1>12 DEF V
<1>15. \A j \in Ino : j \in Range(s.closeD) => s.dh[j] > 0 \/ iter[S].dirs[j] = Nil
  <2>1. \A j \in Range(s.closeD) : \E k \in S : c[k] = j
    BY DEF Range
  <2> QED BY <2>1, <1>12
<1> QED BY <1>12, <1>13, <1>14, <1>15

-----------------------------------------------------------------------------
(* The second part of the invariant: what is cached has a handle or waits  *)
(* on a list.                                                              *)
Kept(s) ==
    \A i \in Ino :
        /\ s.dirs[i] # Nil => s.dh[i] > 0 \/ i \in Range(s.closeD)
        /\ s.files[i] # Nil => FileRefs(s, i) > 0 \/ i \in s.closeF

(* The invariant of states, within a call.                                 *)
Good(s, F) == Coherent(s, F) /\ Kept(s)

(* The caches and the device are the same, only handles and lists are not. *)
Still(s, t) ==
    /\ t.ifree = s.ifree /\ t.bfree = s.bfree /\ t.inode = s.inode /\ t.data = s.data
    /\ t.files = s.files /\ t.dirs = s.dirs

(* A state that differs in handles and lists only is as coherent.          *)
LEMMA StillOK ==
    ASSUME NEW s, NEW F, Coherent(s, F), NEW t \in State, Still(s, t),
           \A i \in Ino : /\ t.fh[i] > 0 => t.files[i] # Nil
                          /\ t.dh[i] > 0 => t.dirs[i] # Nil
    PROVE  Coherent(t, F) /\ Tree(t) = Tree(s)
<1>1. \A j \in Ino : Sound(s, j, F)
  BY DEF Coherent
<1>2. \A j \in Ino : Sound(t, j, F)
  BY <1>1 DEF Sound, Still
<1>3. \A j \in Ino : Inode(t, j) = Inode(s, j) /\ Ents(t, j) = Ents(s, j)
  BY DEF Inode, Ents, Still
<1>4. Full(t) = Full(s) /\ Tree(t) = Tree(s)
  BY <1>3 DEF Full, Tree, NodeOf, Still
<1> QED BY <1>2, <1>4 DEF Coherent, Accounted, Still

(* The clone of a file handle.                                             *)
LEMMA CloneFileOK ==
    ASSUME NEW s, NEW F, Good(s, F), NEW i \in Ino, s.files[i] # Nil
    PROVE  LET t == CloneFile(s, i)
           IN  /\ Good(t, F) /\ Tree(t) = Tree(s) /\ Still(s, t)
               /\ t.fh = [s.fh EXCEPT ![i] = @ + 1] /\ t.dh = s.dh
               /\ t.closeF = s.closeF /\ t.closeD = s.closeD
<1> DEFINE t == CloneFile(s, i)
<1>1. s \in State /\ Coherent(s, F) /\ Kept(s) /\ \A j \in Ino : Sound(s, j, F)
  BY DEF Good, Coherent
<1>2. /\ Still(s, t) /\ t.fh = [s.fh EXCEPT ![i] = @ + 1] /\ t.dh = s.dh
      /\ t.closeF = s.closeF /\ t.closeD = s.closeD
  BY <1>1 DEF CloneFile, Still, State
<1>3. t \in State
  <2>1. s.fh[i] + 1 \in Nat
    BY <1>1, StateFields
  <2> QED BY <2>1, <1>1 DEF CloneFile, State
<1> HIDE DEF t
<1>4. \A j \in Ino : t.fh[j] \in Nat /\ s.fh[j] \in Nat /\ (j # i => t.fh[j] = s.fh[j]) /\ (j = i => t.fh[j] = s.fh[j] + 1)
  BY <1>1, <1>2, <1>3 DEF State
<1>5. Coherent(t, F) /\ Tree(t) = Tree(s)
  <2>1. \A j \in Ino : t.fh[j] > 0 => t.files[j] # Nil
    BY <1>1, <1>2, <1>4 DEF Still, Sound
  <2>2. \A j \in Ino : t.dh[j] > 0 => t.dirs[j] # Nil
    BY <1>1, <1>2 DEF Still, Sound
  <2> QED BY <2>1, <2>2, <1>1, <1>2, <1>3, StillOK
<1>6. Kept(t)
  BY <1>1, <1>2, <1>4 DEF Kept, FileRefs, Still
<1> QED BY <1>2, <1>5, <1>6 DEF Good, t

(* The clone of a directory handle.                                        *)
LEMMA CloneDirOK ==
    ASSUME NEW s, NEW F, Good(s, F), NEW i \in Ino, s.dirs[i] # Nil
    PROVE  LET t == CloneDir(s, i)
           IN  /\ Good(t, F) /\ Tree(t) = Tree(s) /\ Still(s, t)
               /\ t.dh = [s.dh EXCEPT ![i] = @ + 1] /\ t.fh = s.fh
               /\ t.closeF = s.closeF /\ t.closeD = s.closeD
<1> DEFINE t == CloneDir(s, i)
<1>1. s \in State /\ Coherent(s, F) /\ Kept(s) /\ \A j \in Ino : Sound(s, j, F)
  BY DEF Good, Coherent
<1>2. /\ Still(s, t) /\ t.dh = [s.dh EXCEPT ![i] = @ + 1] /\ t.fh = s.fh
      /\ t.closeF = s.closeF /\ t.closeD = s.closeD
  BY <1>1 DEF CloneDir, Still, State
<1>3. t \in State
  <2>1. s.dh[i] + 1 \in Nat
    BY <1>1, StateFields
  <2> QED BY <2>1, <1>1 DEF CloneDir, State
<1> HIDE DEF t
<1>4. \A j \in Ino : t.dh[j] \in Nat /\ s.dh[j] \in Nat /\ (j # i => t.dh[j] = s.dh[j]) /\ (j = i => t.dh[j] = s.dh[j] + 1)
  BY <1>1, <1>2, <1>3 DEF State
<1>5. Coherent(t, F) /\ Tree(t) = Tree(s)
  <2>1. \A j \in Ino : t.fh[j] > 0 => t.files[j] # Nil
    BY <1>1, <1>2 DEF Still, Sound
  <2>2. \A j \in Ino : t.dh[j] > 0 => t.dirs[j] # Nil
    BY <1>1, <1>2, <1>4 DEF Still, Sound
  <2> QED BY <2>1, <2>2, <1>1, <1>2, <1>3, StillOK
<1>6. Kept(t)
  BY <1>1, <1>2, <1>4 DEF Kept, FileRefs, Still
<1> QED BY <1>2, <1>5, <1>6 DEF Good, t

(* The drop of a file handle puts the file on its list.                    *)
LEMMA DropFileOK ==
    ASSUME NEW s, NEW F, Good(s, F), NEW i \in Ino, s.fh[i] > 0
    PROVE  LET t == DropFileHandle(s, i)
           IN  /\ Good(t, F) /\ Tree(t) = Tree(s) /\ Still(s, t)
               /\ t.fh = [s.fh EXCEPT ![i] = @ - 1] /\ t.dh = s.dh
               /\ t.closeF = s.closeF \union {i} /\ t.closeD = s.closeD
<1> DEFINE t == DropFileHandle(s, i)
<1>1. s \in State /\ Coherent(s, F) /\ Kept(s) /\ \A j \in Ino : Sound(s, j, F)
  BY DEF Good, Coherent
<1>2. /\ Still(s, t) /\ t.fh = [s.fh EXCEPT ![i] = @ - 1] /\ t.dh = s.dh
      /\ t.closeF = s.closeF \union {i} /\ t.closeD = s.closeD
  BY <1>1 DEF DropFileHandle, Still, State
<1>3. t \in State
  <2>1. s.fh[i] - 1 \in Nat
    BY <1>1, StateFields
  <2> QED BY <2>1, <1>1 DEF DropFileHandle, State
<1> HIDE DEF t
<1>4. \A j \in Ino : t.fh[j] \in Nat /\ s.fh[j] \in Nat /\ (j # i => t.fh[j] = s.fh[j]) /\ (j = i => t.fh[j] = s.fh[j] - 1)
  BY <1>1, <1>2, <1>3 DEF State
<1>5. Coherent(t, F) /\ Tree(t) = Tree(s)
  <2>1. \A j \in Ino : t.fh[j] > 0 => t.files[j] # Nil
    BY <1>1, <1>2, <1>4 DEF Still, Sound
  <2>2. \A j \in Ino : t.dh[j] > 0 => t.dirs[j] # Nil
    BY <1>1, <1>2 DEF Still, Sound
  <2> QED BY <2>1, <2>2, <1>1, <1>2, <1>3, StillOK
<1>6. Kept(t)
  BY <1>1, <1>2, <1>4 DEF Kept, FileRefs, Still
<1> QED BY <1>2, <1>5, <1>6 DEF Good, t

(* An inode pushed on a list is on it, with those that were.               *)
LEMMA PushOnOK ==
    ASSUME NEW c \in Seq(Ino), NEW i \in Ino
    PROVE  /\ PushOn(c, i) \in Seq(Ino)
           /\ Range(c) \subseteq Range(PushOn(c, i)) /\ i \in Range(PushOn(c, i))
<1> DEFINE k == CHOOSE k \in DOMAIN c : c[k] = i
           r == IF i \in Range(c) THEN RemoveAt(c, k) ELSE c
<1>1. PushOn(c, i) = Append(r, i)
  BY DEF PushOn
<1>2. r \in Seq(Ino) /\ \A j \in Range(c) : j = i \/ j \in Range(r)
  <2>1. CASE i \notin Range(c)
    BY <2>1
  <2>2. CASE i \in Range(c)
    <3>1. k \in 1 .. Len(c) /\ c[k] = i
      <4>1. \E l \in DOMAIN c : c[l] = i
        BY <2>2 DEF Range
      <4> QED BY <4>1
    <3>2. r = SubSeq(c, 1, k - 1) \o SubSeq(c, k + 1, Len(c))
      BY <2>2 DEF RemoveAt
    <3> HIDE DEF k
    <3> DEFINE p == SubSeq(c, 1, k - 1)
               q == SubSeq(c, k + 1, Len(c))
    <3>3. /\ p \in Seq(Ino) /\ Len(p) = k - 1 /\ \A l \in 1 .. k - 1 : p[l] = c[l]
      BY <3>1
    <3>4. /\ q \in Seq(Ino) /\ Len(q) = Len(c) - k /\ \A l \in 1 .. Len(c) - k : q[l] = c[k + l]
      BY <3>1
    <3>5. r = p \o q
      BY <3>2
    <3> HIDE DEF p, q, r
    <3>a. Len(c) \in Nat /\ k \in Nat /\ k >= 1 /\ k <= Len(c)
      BY <3>1
    <3>b. r \in Seq(Ino) /\ Len(r) = Len(p) + Len(q)
      <4>1. p \in Seq(Ino) /\ q \in Seq(Ino)
        BY <3>3, <3>4
      <4>2. p \o q \in Seq(Ino) /\ Len(p \o q) = Len(p) + Len(q)
        BY <4>1
      <4> QED BY <4>2, <3>5
    <3>6. r \in Seq(Ino) /\ Len(r) = Len(c) - 1
      BY <3>a, <3>b, <3>3, <3>4
    <3>7. \A l \in 1 .. Len(p) + Len(q) : r[l] = IF l <= Len(p) THEN p[l] ELSE q[l - Len(p)]
      BY <3>3, <3>4, <3>5
    <3>8. ASSUME NEW j \in Range(c), j # i PROVE j \in Range(r)
      <4>1. PICK l \in 1 .. Len(c) : c[l] = j
        BY DEF Range
      <4>2. CASE l < k
        <5>1. r[l] = j /\ l \in 1 .. Len(r)
          <6>1. l \in 1 .. Len(p) + Len(q) /\ l <= Len(p) /\ l \in 1 .. k - 1 /\ l \in 1 .. Len(r)
            BY <4>2, <3>a, <3>b, <3>3, <3>4
          <6> QED BY <6>1, <4>1, <3>3, <3>7
        <5> QED BY <5>1, <3>6 DEF Range
      <4>3. CASE l > k
        <5>1. r[l - 1] = q[l - k] /\ l - 1 \in 1 .. Len(r)
          <6>1. /\ l - 1 \in 1 .. Len(p) + Len(q) /\ ~(l - 1 <= Len(p)) /\ l - 1 \in 1 .. Len(r)
                /\ l - 1 - Len(p) = l - k
            BY <4>3, <3>a, <3>b, <3>3, <3>4
          <6> QED BY <6>1, <3>7
        <5>2. q[l - k] = j
          BY <4>1, <4>3, <3>1, <3>4
        <5> QED BY <5>1, <5>2, <3>6 DEF Range
      <4> QED BY <4>1, <4>2, <4>3, <3>1, <3>8
    <3> QED BY <3>6, <3>8
  <2> QED BY <2>1, <2>2
<1> HIDE DEF r
<1>3. /\ Append(r, i) \in Seq(Ino) /\ Len(Append(r, i)) = Len(r) + 1
      /\ Append(r, i)[Len(r) + 1] = i /\ \A l \in 1 .. Len(r) : Append(r, i)[l] = r[l]
  BY <1>2
<1>4. \A j \in Range(r) : j \in Range(Append(r, i))
  BY <1>2, <1>3 DEF Range
<1>5. i \in Range(Append(r, i))
  BY <1>2, <1>3 DEF Range
<1> QED BY <1>1, <1>2, <1>3, <1>4, <1>5

(* The drop of a directory handle puts the directory on its list.          *)
LEMMA DropDirOK ==
    ASSUME NEW s, NEW F, Good(s, F), NEW i \in Ino, s.dh[i] > 0
    PROVE  LET t == DropDirHandle(s, i)
           IN  /\ Good(t, F) /\ Tree(t) = Tree(s) /\ Still(s, t)
               /\ t.dh = [s.dh EXCEPT ![i] = @ - 1] /\ t.fh = s.fh
               /\ t.closeF = s.closeF
<1> DEFINE t == DropDirHandle(s, i)
<1>1. s \in State /\ Coherent(s, F) /\ Kept(s) /\ \A j \in Ino : Sound(s, j, F)
  BY DEF Good, Coherent
<1>2. /\ Still(s, t) /\ t.dh = [s.dh EXCEPT ![i] = @ - 1] /\ t.fh = s.fh
      /\ t.closeF = s.closeF /\ t.closeD = PushOn(s.closeD, i)
  BY <1>1 DEF DropDirHandle, Still, State
<1>p. /\ PushOn(s.closeD, i) \in Seq(Ino)
      /\ Range(s.closeD) \subseteq Range(PushOn(s.closeD, i)) /\ i \in Range(PushOn(s.closeD, i))
  BY <1>1, StateFields, PushOnOK
<1>3. t \in State
  <2>1. s.dh[i] - 1 \in Nat
    BY <1>1, StateFields
  <2>2. PushOn(s.closeD, i) \in Seq(Ino)
    BY <1>p
  <2> QED BY <2>1, <2>2, <1>1 DEF DropDirHandle, State
<1> HIDE DEF t
<1>4. \A j \in Ino : t.dh[j] \in Nat /\ s.dh[j] \in Nat /\ (j # i => t.dh[j] = s.dh[j]) /\ (j = i => t.dh[j] = s.dh[j] - 1)
  BY <1>1, <1>2, <1>3 DEF State
<1>5. Coherent(t, F) /\ Tree(t) = Tree(s)
  <2>1. \A j \in Ino : t.fh[j] > 0 => t.files[j] # Nil
    BY <1>1, <1>2 DEF Still, Sound
  <2>2. \A j \in Ino : t.dh[j] > 0 => t.dirs[j] # Nil
    BY <1>1, <1>2, <1>4 DEF Still, Sound
  <2> QED BY <2>1, <2>2, <1>1, <1>2, <1>3, StillOK
<1>6. Kept(t)
  BY <1>1, <1>2, <1>4, <1>p DEF Kept, FileRefs, Still
<1> QED BY <1>2, <1>5, <1>6 DEF Good, t

-----------------------------------------------------------------------------
(* Inode i may be opened: it is allocated, and linked, in use, or new.     *)
Pinned(s, i, F) ==
    /\ i \notin s.ifree
    /\ Inode(s, i).nlink > 0 \/ s.fh[i] > 0 \/ s.dh[i] > 0 \/ i \in F

(* What the tree shows of an inode.                                        *)
LEMMA TreeFacts ==
    ASSUME NEW s, NEW F, Coherent(s, F), NEW i \in Ino
    PROVE  /\ Tree(s)[i] = Nil <=> i \in s.ifree
           /\ Tree(s)[i] # Nil =>
                /\ Tree(s)[i] \in Nodes
                /\ Tree(s)[i].kind = Inode(s, i).kind
                /\ Tree(s)[i].nlink = Inode(s, i).nlink
                /\ Tree(s)[i].kind = "dir" => Tree(s)[i].ents = Ents(s, i)
<1>1. CASE i \in s.ifree
  BY <1>1 DEF Tree
<1>2. CASE i \notin s.ifree
  <2>1. Tree(s)[i] = NodeOf(s, i) /\ NodeOf(s, i) \in Nodes
    BY <1>2, NodeType DEF Tree
  <2> QED BY <1>2, <2>1, NodeAssumption DEF NodeOf
<1> QED BY <1>1, <1>2

(* Working off a close list leaves what is pinned as it is.                *)
LEMMA CalmPinned ==
    ASSUME NEW s, NEW t, NEW F, Coherent(s, F), Coherent(t, F), Calm(Tree(s), Tree(t)),
           t.fh = s.fh, t.dh = s.dh, NEW i \in Ino, Pinned(s, i, F)
    PROVE  Pinned(t, i, F) /\ Inode(t, i).kind = Inode(s, i).kind /\ Inode(t, i).nlink = Inode(s, i).nlink
<1>1. Sound(t, i, F) /\ t \in State /\ s \in State
  BY DEF Coherent
<1>2. i \notin t.ifree
  <2>1. CASE t.fh[i] > 0 \/ t.dh[i] > 0 \/ i \in F
    BY <2>1, <1>1 DEF Sound
  <2>2. CASE Inode(s, i).nlink > 0
    <3>1. Tree(s)[i] # Nil /\ Tree(s)[i].nlink > 0
      BY <2>2, TreeFacts DEF Pinned
    <3>2. Tree(t)[i] # Nil
      <4>1. Tree(s)[i] \in Nodes /\ \A m \in Nodes : [m EXCEPT !.ents = NoEntries] \in Nodes
        BY <3>1, TreeFacts DEF Nodes, NoEntries, Entries
      <4>2. [Tree(s)[i] EXCEPT !.ents = NoEntries] # Nil
        BY <4>1, NodeAssumption
      <4>3. \/ Tree(t)[i] = Tree(s)[i]
            \/ Tree(s)[i].nlink = 0
            \/ Tree(t)[i] = [Tree(s)[i] EXCEPT !.ents = NoEntries]
        BY DEF Calm
      <4> QED BY <3>1, <4>2, <4>3
    <3> QED BY <3>2, TreeFacts
  <2> QED BY <2>1, <2>2 DEF Pinned
<1>3. Tree(s)[i] # Nil /\ Tree(t)[i] # Nil
  BY <1>2, TreeFacts DEF Pinned
<1>4. Tree(s)[i] \in Nodes /\ \A m \in Nodes : /\ [m EXCEPT !.ents = NoEntries].kind = m.kind
                                               /\ [m EXCEPT !.ents = NoEntries].nlink = m.nlink
  BY <1>3, TreeFacts DEF Nodes
<1>5. Tree(t)[i].kind = Tree(s)[i].kind /\ Tree(t)[i].nlink = Tree(s)[i].nlink
  BY <1>3, <1>4 DEF Calm
<1>6. Inode(t, i).kind = Inode(s, i).kind /\ Inode(t, i).nlink = Inode(s, i).nlink
  BY <1>3, <1>5, TreeFacts
<1> QED BY <1>2, <1>6 DEF Pinned

(* Donkey::open keeps the invariant; the inode is cached, and new no       *)
(* longer.                                                                 *)
LEMMA OpenOK ==
    ASSUME NEW s, NEW F, Good(s, F), NEW i \in Ino, Pinned(s, i, F)
    PROVE  LET t == Open(s, i)
           IN  /\ Good(t, F \ {i}) /\ Calm(Tree(s), Tree(t))
               /\ t.fh = [s.fh EXCEPT ![i] = @ + 1] /\ t.dh = s.dh
               /\ t.dirs = s.dirs /\ t.closeD = s.closeD
<1> DEFINE u == CloseFilesInList(s)
           v == LoadFile(u, i)
           t == Open(s, i)
           f == IF u.files[i] # Nil THEN u.files[i] ELSE Cached(u.inode[i])
<1>1. Coherent(s, F) /\ Kept(s) /\ s \in State
  BY DEF Good, Coherent
<1>2. /\ Coherent(u, F) /\ Calm(Tree(s), Tree(u))
      /\ u.data = s.data /\ u.dirs = s.dirs /\ u.fh = s.fh /\ u.dh = s.dh
      /\ u.closeF = {} /\ u.closeD = s.closeD
      /\ \A j \in Ino :
           /\ u.files[j] \in {s.files[j], Nil}
           /\ FileRefs(s, j) > 0 \/ j \notin s.closeF \/ u.files[j] = Nil
  BY <1>1, CloseFilesOK
<1> HIDE DEF u
<1>3. u \in State /\ Accounted(u) /\ \A j \in Ino : Sound(u, j, F)
  BY <1>2 DEF Coherent
<1>4. Pinned(u, i, F) /\ i \notin u.ifree
  BY <1>1, <1>2, CalmPinned DEF Pinned
<1>5. u.inode[i] \in DiskInode /\ u.inode[i].kind # "free" /\ (u.files[i] # Nil => u.files[i] \in DkFile)
  BY <1>3, <1>4, StateFields DEF Sound
<1>6. Cached(u.inode[i]) \in DkFile
  BY <1>5 DEF Cached, DkFile, DiskInode
<1>7. f \in DkFile /\ f # Nil
  BY <1>5, <1>6, NilAssumption
<1>8. t = [u EXCEPT !.files = [u.files EXCEPT ![i] = f], !.fh = [u.fh EXCEPT ![i] = @ + 1]]
  <2>1. CASE u.files[i] # Nil
    <3>1. v = u /\ [u.files EXCEPT ![i] = f] = u.files
      BY <2>1, <1>3 DEF LoadFile, State
    <3> QED BY <3>1, <1>3 DEF Open, CloneFile, u, State
  <2>2. CASE u.files[i] = Nil
    <3>1. v = [u EXCEPT !.files[i] = f]
      BY <2>2 DEF LoadFile
    <3> HIDE DEF f, v
    <3> QED BY <3>1, <1>3 DEF Open, CloneFile, u, State, v
  <2> QED BY <2>1, <2>2
<1> HIDE DEF t, f, v
<1>9. /\ t.ifree = u.ifree /\ t.bfree = u.bfree /\ t.inode = u.inode /\ t.data = u.data
      /\ t.dirs = u.dirs /\ t.dh = u.dh /\ t.closeF = u.closeF /\ t.closeD = u.closeD
      /\ t.files = [u.files EXCEPT ![i] = f] /\ t.fh = [u.fh EXCEPT ![i] = @ + 1]
  BY <1>3, <1>8 DEF State
<1>10. t \in State
  <2>1. u.fh[i] + 1 \in Nat /\ u \in State
    BY <1>3, StateFields
  <2>2. [u.fh EXCEPT ![i] = @ + 1] \in [Ino -> Nat]
    BY <2>1 DEF State
  <2>3. [u.files EXCEPT ![i] = f] \in [Ino -> DkFile \union {Nil}]
    BY <2>1, <1>7 DEF State
  <2> QED BY <2>1, <2>2, <2>3, <1>8 DEF State
<1>11. /\ t.files[i] = f /\ t.fh[i] = u.fh[i] + 1 /\ u.fh[i] \in Nat
       /\ \A j \in Ino \ {i} : t.files[j] = u.files[j] /\ t.fh[j] = u.fh[j]
  BY <1>3, <1>9 DEF State
<1>12. \A j \in Ino \ {i} : Same(u, t, j) /\ t.fh[j] = u.fh[j] /\ t.dh[j] = u.dh[j]
  BY <1>9, <1>11 DEF Same
<1>13. Sound(t, i, F \ {i})
  <2>1. CASE u.files[i] # Nil
    <3>1. f = u.files[i] /\ i \notin F
      BY <2>1, <1>3 DEF f, Sound
    <3> QED BY <3>1, <1>3, <1>7, <1>9, <1>11 DEF Sound
  <2>2. CASE u.files[i] = Nil
    <3>1. f = Cached(u.inode[i]) /\ u.dirs[i] = Nil
      BY <2>2, <1>3 DEF f, Sound
    <3>2. f.kind = u.inode[i].kind /\ Written(f) = u.inode[i]
      BY <3>1, <1>5 DEF Cached, Written, DiskInode
    <3> QED BY <3>1, <3>2, <1>3, <1>4, <1>7, <1>9, <1>11 DEF Sound
  <2> QED BY <2>1, <2>2
<1>14. \A j \in Ino : Sound(t, j, F \ {i})
  <2>1. \A j \in Ino \ {i} : Sound(t, j, F)
    BY <1>3, <1>12, SameSound
  <2>2. \A j \in Ino \ {i} : Sound(t, j, F \ {i})
    BY <2>1 DEF Sound
  <2> QED BY <2>2, <1>13
<1>15. /\ Inode(t, i).kind = Inode(u, i).kind /\ Inode(t, i).nlink = Inode(u, i).nlink
       /\ Inode(t, i).suid = Inode(u, i).suid /\ Inode(t, i).size = Inode(u, i).size
  BY <1>7, <1>9, <1>11 DEF Inode, Cached, f
<1>16. Tree(t) = Tree(u)
  <2>1. \A j \in Ino \ {i} : Tree(t)[j] = Tree(u)[j]
    BY <1>12, SameNode
  <2>2. Ents(t, i) = Ents(u, i)
    BY <1>9, <1>15 DEF Ents
  <2>3. NodeOf(t, i) = NodeOf(u, i)
    BY <1>15, <2>2 DEF NodeOf
  <2> QED BY <2>1, <2>3, <1>9 DEF Tree
<1>17. Accounted(t)
  <2>1. \A j \in Ino \ {i} : Inode(t, j) = Inode(u, j)
    BY <1>12, SameNode
  <2>2. Full(t) = Full(u)
    BY <2>1, <1>15 DEF Full
  <2> QED BY <2>2, <1>3, <1>9 DEF Accounted
<1>18. Coherent(t, F \ {i})
  BY <1>10, <1>14, <1>17 DEF Coherent
<1>19. Kept(t)
  <2> SUFFICES ASSUME NEW j \in Ino
               PROVE  /\ t.dirs[j] # Nil => t.dh[j] > 0 \/ j \in Range(t.closeD)
                      /\ t.files[j] # Nil => FileRefs(t, j) > 0 \/ j \in t.closeF
    BY DEF Kept
  <2>1. t.dirs[j] # Nil => t.dh[j] > 0 \/ j \in Range(t.closeD)
    BY <1>1, <1>2, <1>9 DEF Kept
  <2>2. CASE j = i
    BY <2>1, <2>2, <1>11 DEF FileRefs
  <2>3. CASE j # i
    <3>1. FileRefs(t, j) = FileRefs(s, j)
      BY <2>3, <1>2, <1>9, <1>11 DEF FileRefs
    <3> QED BY <3>1, <2>1, <2>3, <1>1, <1>2, <1>11 DEF Kept
  <2> QED BY <2>2, <2>3
<1> QED BY <1>2, <1>9, <1>16, <1>18, <1>19 DEF Good, t

(* close_dirs_in_list keeps the invariant; only directories with handles   *)
(* stay cached.                                                            *)
LEMMA CloseDirsGood ==
    ASSUME NEW s, NEW F, Good(s, F)
    PROVE  LET t == CloseDirsInList(s)
           IN  /\ Good(t, F) /\ Calm(Tree(s), Tree(t))
               /\ t.fh = s.fh /\ t.dh = s.dh /\ t.closeD = <<>>
               /\ \A j \in Ino : t.dirs[j] # Nil => t.dh[j] > 0
<1> DEFINE t == CloseDirsInList(s)
<1>1. Coherent(s, F) /\ Kept(s) /\ s \in State
  BY DEF Good, Coherent
<1>2. /\ Coherent(t, F) /\ Calm(Tree(s), Tree(t))
      /\ t.fh = s.fh /\ t.dh = s.dh /\ t.closeD = <<>>
      /\ s.closeF \subseteq t.closeF
      /\ \A j \in Ino :
           /\ t.files[j] = Nil <=> s.files[j] = Nil
           /\ s.dirs[j] # Nil => t.dirs[j] # Nil \/ j \in t.closeF
           /\ s.dirs[j] = Nil => t.dirs[j] = Nil
           /\ j \in Range(s.closeD) => s.dh[j] > 0 \/ t.dirs[j] = Nil
  BY <1>1, CloseDirsOK
<1> HIDE DEF t
<1>3. \A j \in Ino : t.dirs[j] # Nil => t.dh[j] > 0
  BY <1>1, <1>2 DEF Kept
<1>4. \A j \in Ino : t.files[j] # Nil => FileRefs(t, j) > 0 \/ j \in t.closeF
  <2> SUFFICES ASSUME NEW j \in Ino, t.files[j] # Nil
               PROVE  FileRefs(t, j) > 0 \/ j \in t.closeF
    OBVIOUS
  <2>1. s.fh[j] \in Nat
    BY <1>1, StateFields
  <2>2. FileRefs(s, j) > 0 \/ j \in s.closeF
    BY <1>1, <1>2 DEF Kept
  <2> QED BY <2>1, <2>2, <1>2 DEF FileRefs
<1>5. Kept(t)
  BY <1>3, <1>4 DEF Kept
<1> QED BY <1>2, <1>3, <1>5 DEF Good, t

(* Donkey::open_dir keeps the invariant; the directory is cached.          *)
LEMMA OpenDirOK ==
    ASSUME NEW s, NEW F, Good(s, F), NEW i \in Ino, Pinned(s, i, F), Inode(s, i).kind = "dir"
    PROVE  LET t == OpenDir(s, i)
           IN  /\ Good(t, F \ {i}) /\ Calm(Tree(s), Tree(t))
               /\ t.dh = [s.dh EXCEPT ![i] = @ + 1] /\ t.fh = s.fh
<1> DEFINE c == CloseDirsInList(s)
           t == OpenDir(s, i)
<1>1. Coherent(s, F) /\ Kept(s) /\ s \in State
  BY DEF Good, Coherent
<1>2. /\ Good(c, F) /\ Calm(Tree(s), Tree(c)) /\ c.fh = s.fh /\ c.dh = s.dh
  BY CloseDirsGood
<1> HIDE DEF c
<1>3. Coherent(c, F) /\ Kept(c) /\ c \in State /\ \A j \in Ino : Sound(c, j, F)
  BY <1>2 DEF Good, Coherent
<1>4. Pinned(c, i, F) /\ Inode(c, i).kind = "dir"
  BY <1>1, <1>2, <1>3, CalmPinned
<1>5. CASE c.dirs[i] # Nil
  <2>1. t = CloneDir(c, i)
    BY <1>5 DEF OpenDir, LoadDir, c
  <2>2. Good(t, F) /\ Tree(t) = Tree(c) /\ t.dh = [c.dh EXCEPT ![i] = @ + 1] /\ t.fh = c.fh
    BY <2>1, <1>2, <1>5, CloneDirOK
  <2>3. F \ {i} = F
    BY <1>5, <1>3 DEF Sound
  <2> QED BY <2>2, <2>3, <1>2
<1>6. CASE c.dirs[i] = Nil
  <2> DEFINE u == Open(c, i)
             e == IF u.files[i].size = 0 THEN NoEntries ELSE u.data[i]
             new == [ents |-> e, dirty |-> FALSE]
             E == F \ {i}
  <2>1. /\ Good(u, E) /\ Calm(Tree(c), Tree(u))
        /\ u.fh = [c.fh EXCEPT ![i] = @ + 1] /\ u.dh = c.dh
        /\ u.dirs = c.dirs /\ u.closeD = c.closeD
    BY <1>2, <1>4, OpenOK
  <2> HIDE DEF u, E
  <2>2. Coherent(u, E) /\ Kept(u) /\ u \in State /\ Accounted(u) /\ \A j \in Ino : Sound(u, j, E)
    BY <2>1 DEF Good, Coherent
  <2>3. c.fh[i] \in Nat /\ u.fh[i] = c.fh[i] + 1 /\ u.dh[i] \in Nat
    BY <1>3, <2>1, <2>2, StateFields DEF State
  <2>4. /\ u.files[i] # Nil /\ u.files[i] \in DkFile /\ i \notin u.ifree /\ Inode(u, i) = u.files[i]
        /\ u.dirs[i] = Nil
    BY <2>1, <2>2, <2>3, <1>6, StateFields DEF Sound, Inode
  <2>5. u.files[i].kind = "dir"
    <3>1. Tree(c)[i] # Nil /\ Tree(u)[i] # Nil
      BY <1>3, <1>4, <2>2, <2>4, TreeFacts DEF Pinned
    <3>2. Tree(c)[i] \in Nodes /\ \A m \in Nodes : [m EXCEPT !.ents = NoEntries].kind = m.kind
      BY <3>1, <1>3, TreeFacts DEF Nodes
    <3>3. Tree(u)[i].kind = Tree(c)[i].kind
      BY <3>1, <3>2, <2>1 DEF Calm
    <3> QED BY <3>1, <3>3, <1>3, <1>4, <2>2, <2>4, TreeFacts
  <2>6. e \in Entries /\ new \in DkDir /\ new # Nil /\ new.ents = e /\ ~new.dirty
    <3>1. e \in Entries
      BY <2>2, StateFields DEF NoEntries, Entries
    <3> HIDE DEF e
    <3>2. new \in DkDir
      BY <3>1 DEF DkDir
    <3>3. new.ents = e /\ ~new.dirty
      OBVIOUS
    <3> HIDE DEF new
    <3> QED BY <3>1, <3>2, <3>3, NilAssumption
  <2> HIDE DEF new
  <2>7. t = [u EXCEPT !.fh = c.fh, !.dirs = [u.dirs EXCEPT ![i] = new],
                      !.dh = [u.dh EXCEPT ![i] = @ + 1]]
    <3>1. t = CloneDir(ReadFully(u, i), i)
      BY <1>6 DEF OpenDir, LoadDir, c, u
    <3>2. [u.fh EXCEPT ![i] = @ - 1] = c.fh
      <4>1. u.fh \in [Ino -> Nat] /\ c.fh \in [Ino -> Nat]
        BY <2>2, <1>3 DEF State
      <4>2. \A j \in Ino \ {i} : u.fh[j] = c.fh[j]
        BY <4>1, <2>1
      <4>3. u.fh[i] - 1 = c.fh[i]
        BY <2>3
      <4> QED BY <4>1, <4>2, <4>3
    <3>3. ReadFully(u, i) = [u EXCEPT !.fh = [u.fh EXCEPT ![i] = @ - 1],
                                      !.dirs = [u.dirs EXCEPT ![i] = new]]
      BY <2>2 DEF ReadFully, new, State
    <3>4. ReadFully(u, i) = [u EXCEPT !.fh = c.fh, !.dirs = [u.dirs EXCEPT ![i] = new]]
      BY <3>2, <3>3
    <3> HIDE DEF e, t
    <3> QED BY <3>1, <3>4, <2>2 DEF CloneDir, State
  <2> HIDE DEF t, e
  <2>8. /\ t.ifree = u.ifree /\ t.bfree = u.bfree /\ t.inode = u.inode /\ t.data = u.data
        /\ t.files = u.files /\ t.closeF = u.closeF /\ t.closeD = u.closeD
        /\ t.fh = c.fh /\ t.dirs = [u.dirs EXCEPT ![i] = new] /\ t.dh = [u.dh EXCEPT ![i] = @ + 1]
    BY <2>2, <2>7 DEF State
  <2>9. t \in State
    <3>1. u \in State /\ c.fh \in [Ino -> Nat]
      BY <2>2, <1>3 DEF State
    <3>2. [u.dirs EXCEPT ![i] = new] \in [Ino -> DkDir \union {Nil}]
      BY <3>1, <2>6 DEF State
    <3>3. [u.dh EXCEPT ![i] = @ + 1] \in [Ino -> Nat]
      BY <3>1, <2>3 DEF State
    <3> QED BY <3>1, <3>2, <3>3, <2>7 DEF State
  <2>10. /\ t.dirs[i] = new /\ t.dh[i] = u.dh[i] + 1
         /\ \A j \in Ino \ {i} : t.dirs[j] = u.dirs[j] /\ t.dh[j] = u.dh[j] /\ t.fh[j] = u.fh[j]
    BY <2>1, <2>2, <2>8, <1>3 DEF State
  <2>11. \A j \in Ino \ {i} : Same(u, t, j) /\ t.fh[j] = u.fh[j] /\ t.dh[j] = u.dh[j]
    BY <2>8, <2>10 DEF Same
  <2>12. Sound(t, i, E)
    <3>1. u.files[i].size \in 0 .. 1
      BY <2>4 DEF DkFile
    <3> QED BY <3>1, <2>2, <2>4, <2>5, <2>6, <2>8, <2>10 DEF Sound, e
  <2>13. \A j \in Ino : Sound(t, j, E)
    BY <2>2, <2>11, <2>12, SameSound
  <2>14. \A j \in Ino : Inode(t, j) = Inode(u, j)
    BY <2>8 DEF Inode
  <2>15. Full(t) = Full(u)
    BY <2>14 DEF Full
  <2>16. Coherent(t, E)
    BY <2>2, <2>8, <2>9, <2>13, <2>15 DEF Coherent, Accounted
  <2>17. Ents(t, i) = Ents(u, i)
    BY <2>4, <2>6, <2>10 DEF Ents, e
  <2>18. Tree(t) = Tree(u)
    <3>1. NodeOf(t, i) = NodeOf(u, i)
      BY <2>14, <2>17 DEF NodeOf
    <3>2. \A j \in Ino \ {i} : Tree(t)[j] = Tree(u)[j]
      BY <2>11, SameNode
    <3> QED BY <3>1, <3>2, <2>8 DEF Tree
  <2>19. Calm(Tree(s), Tree(t))
    <3>1. Tree(s) \in Trees /\ Tree(c) \in Trees
      BY <1>1, <1>3, TreeType
    <3> QED BY <3>1, <2>1, <2>18, <1>2, CalmTrans
  <2>20. Kept(t)
    <3> SUFFICES ASSUME NEW j \in Ino
                 PROVE  /\ t.dirs[j] # Nil => t.dh[j] > 0 \/ j \in Range(t.closeD)
                        /\ t.files[j] # Nil => FileRefs(t, j) > 0 \/ j \in t.closeF
      BY DEF Kept
    <3>1. CASE j = i
      BY <3>1, <2>3, <2>6, <2>8, <2>10 DEF FileRefs
    <3>2. CASE j # i
      BY <3>2, <2>2, <2>8, <2>10 DEF Kept, FileRefs
    <3> QED BY <3>1, <3>2
  <2> QED BY <2>1, <2>8, <2>16, <2>19, <2>20, <1>2 DEF Good, E, t
<1> QED BY <1>5, <1>6

(* A cached directory with other entries.                                  *)
LEMMA DirEdits ==
    ASSUME NEW d \in DkDir, NEW e \in Entries, NEW b \in BOOLEAN
    PROVE  [d EXCEPT !.ents = e, !.dirty = b] = [ents |-> e, dirty |-> b]
<1> DEFINE c == [d EXCEPT !.ents = e]
           r == [ents |-> e, dirty |-> b]
<1>1. c \in DkDir /\ c.ents = e
  BY DEF DkDir
<1>2. [d EXCEPT !.ents = e, !.dirty = b] = [c EXCEPT !.dirty = b]
  BY DEF DkDir
<1> HIDE DEF c
<1>3. [c EXCEPT !.dirty = b] = r
  BY <1>1 DEF DkDir
<1> QED BY <1>2, <1>3

(* An entry set in the cache is set in the tree.                           *)
LEMMA SetEntryOK ==
    ASSUME NEW s, NEW F, Good(s, F), NEW p \in Ino, s.dirs[p] # Nil, NEW n \in Name,
           NEW i \in Ino \union {Nil}
    PROVE  LET t == SetEntry(s, p, n, i)
           IN  /\ Good(t, F) /\ Tree(t) = SetName(Tree(s), p, n, i) /\ Tree(s)[p] # Nil
               /\ t.fh = s.fh /\ t.dh = s.dh /\ t.files = s.files /\ t.ifree = s.ifree
               /\ t.inode = s.inode
<1> DEFINE t == SetEntry(s, p, n, i)
           e == [s.dirs[p].ents EXCEPT ![n] = i]
           new == [ents |-> e, dirty |-> TRUE]
<1>1. Coherent(s, F) /\ Kept(s) /\ s \in State /\ Accounted(s) /\ \A j \in Ino : Sound(s, j, F)
  BY DEF Good, Coherent
<1>2. s.dirs[p] \in DkDir /\ s.files[p] # Nil /\ s.files[p].kind = "dir" /\ p \notin s.ifree
  BY <1>1, StateFields DEF Sound
<1>3. e \in Entries
  BY <1>2 DEF DkDir, Entries
<1>4. new \in DkDir /\ new.ents = e /\ new.dirty
  BY <1>3 DEF DkDir
<1>5. t = [s EXCEPT !.dirs = [s.dirs EXCEPT ![p] = new]]
  <2> DEFINE d == [s.dirs[p] EXCEPT !.ents = e, !.dirty = TRUE]
  <2>1. d = new
    <3> HIDE DEF e
    <3>1. TRUE \in BOOLEAN
      OBVIOUS
    <3> QED BY <3>1, <1>2, <1>3, DirEdits
  <2>2. t = [s EXCEPT !.dirs = [s.dirs EXCEPT ![p] = d]]
    BY <1>1, <1>2 DEF SetEntry, State, DkDir
  <2> QED BY <2>1, <2>2
<1> HIDE DEF t, new, e
<1>6. new # Nil
  BY <1>4, NilAssumption
<1>7. /\ t.ifree = s.ifree /\ t.bfree = s.bfree /\ t.inode = s.inode /\ t.data = s.data
      /\ t.files = s.files /\ t.closeF = s.closeF /\ t.closeD = s.closeD
      /\ t.fh = s.fh /\ t.dh = s.dh /\ t.dirs = [s.dirs EXCEPT ![p] = new]
  BY <1>1, <1>5 DEF State
<1>8. t \in State
  <2>1. [s.dirs EXCEPT ![p] = new] \in [Ino -> DkDir \union {Nil}]
    BY <1>1, <1>4 DEF State
  <2> QED BY <2>1, <1>1, <1>5 DEF State
<1>9. t.dirs[p] = new /\ \A j \in Ino \ {p} : t.dirs[j] = s.dirs[j]
  BY <1>1, <1>7 DEF State
<1>10. \A j \in Ino \ {p} : Same(s, t, j) /\ t.fh[j] = s.fh[j] /\ t.dh[j] = s.dh[j]
  BY <1>7, <1>9 DEF Same
<1>11. Sound(t, p, F)
  BY <1>1, <1>2, <1>4, <1>6, <1>7, <1>9 DEF Sound
<1>12. \A j \in Ino : Sound(t, j, F)
  BY <1>1, <1>10, <1>11, SameSound
<1>13. \A j \in Ino : Inode(t, j) = Inode(s, j)
  BY <1>7 DEF Inode
<1>14. Full(t) = Full(s)
  BY <1>13 DEF Full
<1>15. Coherent(t, F)
  BY <1>1, <1>7, <1>8, <1>12, <1>14 DEF Coherent, Accounted
<1>16. Kept(t)
  BY <1>1, <1>2, <1>6, <1>7, <1>9 DEF Kept, FileRefs
<1>17. Tree(t) = SetName(Tree(s), p, n, i)
  <2> DEFINE f == Tree(s)
             g == SetName(f, p, n, i)
  <2>1. f \in Trees /\ f[p] # Nil /\ f[p] \in Nodes /\ f[p].ents = s.dirs[p].ents
    <3>1. Ents(s, p) = s.dirs[p].ents /\ Inode(s, p).kind = "dir"
      BY <1>2 DEF Ents, Inode
    <3> QED BY <3>1, <1>1, <1>2, TreeFacts, TreeType
  <2>2. /\ g \in Trees /\ g[p] = [f[p] EXCEPT !.ents = e]
        /\ \A j \in Ino \ {p} : g[j] = f[j]
    <3> DEFINE a == [f[p].ents EXCEPT ![n] = i]
    <3>1. a = e
      BY <2>1 DEF e
    <3> HIDE DEF f
    <3>2. /\ g \in Trees /\ g[p] = [f[p] EXCEPT !.ents = a]
          /\ \A j \in Ino \ {p} : g[j] = f[j]
      BY <2>1, SetNameOK
    <3> HIDE DEF a, g
    <3> QED BY <3>1, <3>2
  <2>3. Ents(t, p) = e
    BY <1>4, <1>6, <1>9 DEF Ents
  <2>4. f[p] = NodeOf(s, p) /\ Tree(t)[p] = NodeOf(t, p)
    BY <1>2, <1>7 DEF Tree
  <2>5. NodeOf(t, p) = [kind |-> NodeOf(s, p).kind, nlink |-> NodeOf(s, p).nlink,
                        suid |-> NodeOf(s, p).suid, size |-> NodeOf(s, p).size, ents |-> e]
    BY <2>3, <1>2, <1>13 DEF NodeOf, Inode
  <2>6. NodeOf(t, p) = [f[p] EXCEPT !.ents = e]
    BY <2>1, <2>4, <2>5, <1>3, NodeEdits
  <2>7. \A j \in Ino \ {p} : Tree(t)[j] = f[j]
    BY <1>10, SameNode
  <2>8. Tree(t) \in Trees
    BY <1>15, TreeType
  <2>9. \A j \in Ino : Tree(t)[j] = g[j]
    BY <2>2, <2>4, <2>6, <2>7
  <2> HIDE DEF g
  <2> QED BY <2>2, <2>8, <2>9 DEF Trees, g
<1>18. Tree(s)[p] # Nil
  BY <1>1, <1>2, TreeFacts
<1> QED BY <1>7, <1>15, <1>16, <1>17, <1>18 DEF Good, t

(* A link count changed in the cache is changed in the tree.               *)
LEMMA AddNlinkOK ==
    ASSUME NEW s, NEW F, Good(s, F), NEW i \in Ino, s.files[i] # Nil, NEW k \in Int,
           s.files[i].nlink + k \in Nat
    PROVE  LET t == AddNlink(s, i, k)
           IN  /\ Good(t, F) /\ Tree(t) = AddLinks(Tree(s), i, k) /\ Tree(s)[i] # Nil
               /\ t.fh = s.fh /\ t.dh = s.dh /\ t.dirs = s.dirs /\ t.closeD = s.closeD
               /\ t.files[i] # Nil
<1> DEFINE t == AddNlink(s, i, k)
           m == s.files[i].nlink + k
           f == [s.files[i] EXCEPT !.nlink = m, !.dirty = TRUE]
<1>1. Coherent(s, F) /\ Kept(s) /\ s \in State /\ \A j \in Ino : Sound(s, j, F)
  BY DEF Good, Coherent
<1>2. s.files[i] \in DkFile /\ s.bfree \in Nat /\ s.files[i].size \in 0 .. 1 /\ i \notin s.ifree
  BY <1>1, StateFields, FileType DEF Sound
<1>3. f \in DkFile
  BY <1>2, FileEdits
<1>4. /\ f.nlink = m /\ f.kind = s.files[i].kind /\ f.size = s.files[i].size
      /\ f.suid = s.files[i].suid /\ f.dirty
  BY <1>2 DEF DkFile
<1>5. t = [s EXCEPT !.bfree = s.bfree, !.files = [s.files EXCEPT ![i] = f]]
  BY <1>1, <1>2 DEF AddNlink, State, DkFile
<1> HIDE DEF t, f
<1>6. Edited(s, t, i, f, s.bfree)
  BY <1>1, <1>2, <1>3, <1>5, EditState
<1>7. s.bfree = s.bfree + s.files[i].size - f.size
  BY <1>2, <1>4
<1>8. /\ Coherent(t, F)
      /\ \A j \in Ino \ {i} : Tree(t)[j] = Tree(s)[j] /\ t.files[j] = s.files[j]
      /\ Tree(t)[i] = Refreshed(Tree(s)[i], f)
      /\ t.files[i] = f
  BY <1>1, <1>2, <1>3, <1>4, <1>6, <1>7, EditOK
<1>9. /\ t.fh = s.fh /\ t.dh = s.dh /\ t.dirs = s.dirs /\ t.closeD = s.closeD /\ t.closeF = s.closeF
  BY <1>6 DEF Edited, LikeBefore
<1>10. f # Nil
  BY <1>3, NilAssumption
<1>11. Kept(t)
  BY <1>1, <1>8, <1>9 DEF Kept, FileRefs
<1>12. Tree(t) = AddLinks(Tree(s), i, k)
  <2> DEFINE g == AddLinks(Tree(s), i, k)
             w == Tree(s)[i]
  <2>1. Tree(s) \in Trees /\ w # Nil /\ w \in Nodes /\ w.nlink + k = m /\ w = NodeOf(s, i)
    <3>1. Inode(s, i).nlink = s.files[i].nlink
      BY DEF Inode
    <3> QED BY <3>1, <1>1, <1>2, TreeFacts, TreeType DEF Tree
  <2>2. /\ g \in Trees /\ g[i] = [w EXCEPT !.nlink = m] /\ \A j \in Ino \ {i} : g[j] = Tree(s)[j]
    <3> HIDE DEF m
    <3> QED BY <2>1, AddLinksOK DEF m
  <2>3. Refreshed(w, f) = [kind |-> w.kind, nlink |-> m, suid |-> w.suid, size |-> w.size, ents |-> w.ents]
    <3>1. w.suid = s.files[i].suid /\ w.size = (IF w.kind = "dir" THEN 0 ELSE s.files[i].size)
      BY <2>1 DEF NodeOf, Inode
    <3> HIDE DEF m, w
    <3> QED BY <3>1, <1>4 DEF Refreshed
  <2>4. Refreshed(w, f) = [w EXCEPT !.nlink = m]
    <3> HIDE DEF w
    <3> QED BY <2>1, <2>3, NodeEdits
  <2>5. Tree(t) \in Trees
    BY <1>8, TreeType
  <2>6. \A j \in Ino : Tree(t)[j] = g[j]
    BY <2>2, <2>4, <1>8
  <2> HIDE DEF g
  <2> QED BY <2>2, <2>5, <2>6 DEF Trees, g
<1>13. Tree(s)[i] # Nil
  BY <1>1, <1>2, TreeFacts
<1> QED BY <1>8, <1>9, <1>10, <1>11, <1>12, <1>13 DEF Good, t

(* The change of a link count through a handle opened and dropped for it.  *)
LEMMA ChangeNlinkOK ==
    ASSUME NEW s, NEW F, Good(s, F), NEW i \in Ino, Pinned(s, i, F), NEW k \in Int,
           Inode(s, i).nlink + k \in Nat
    PROVE  LET t == ChangeNlink(s, i, k)
           IN  /\ Good(t, F \ {i}) /\ Tree(s)[i] # Nil
               /\ Calm(AddLinks(Tree(s), i, k), Tree(t))
               /\ t.fh = s.fh /\ t.dh = s.dh /\ t.dirs = s.dirs /\ t.files[i] # Nil
<1> DEFINE u == Open(s, i)
           v == AddNlink(u, i, k)
           t == ChangeNlink(s, i, k)
           E == F \ {i}
<1>1. /\ Good(u, E) /\ Calm(Tree(s), Tree(u)) /\ u.fh = [s.fh EXCEPT ![i] = @ + 1]
      /\ u.dh = s.dh /\ u.dirs = s.dirs
  BY OpenOK
<1>2. t = DropFileHandle(v, i)
  BY DEF ChangeNlink
<1> HIDE DEF u, t, E
<1>3. Coherent(s, F) /\ s \in State /\ Coherent(u, E) /\ u \in State /\ Sound(u, i, E)
  BY <1>1 DEF Good, Coherent
<1>4. s.fh[i] \in Nat /\ u.fh[i] = s.fh[i] + 1 /\ s.fh \in [Ino -> Nat]
  BY <1>1, <1>3, StateFields DEF State
<1>5. u.files[i] # Nil /\ Inode(u, i) = u.files[i] /\ i \notin u.ifree /\ i \notin s.ifree
  BY <1>3, <1>4 DEF Sound, Inode, Pinned
<1>6. /\ Tree(s) \in Trees /\ Tree(u) \in Trees /\ Tree(u)[i] # Nil /\ Tree(s)[i] # Nil
      /\ Tree(s)[i].nlink = Inode(s, i).nlink /\ Tree(u)[i].nlink = u.files[i].nlink
  BY <1>3, <1>5, TreeType, TreeFacts
<1>7. /\ Tree(u)[i].nlink = Tree(s)[i].nlink
      /\ Calm(AddLinks(Tree(s), i, k), AddLinks(Tree(u), i, k))
  BY <1>1, <1>6, CalmAdd
<1>8. u.files[i].nlink + k \in Nat
  BY <1>6, <1>7
<1>9. /\ Good(v, E) /\ Tree(v) = AddLinks(Tree(u), i, k)
      /\ v.fh = u.fh /\ v.dh = u.dh /\ v.dirs = u.dirs /\ v.files[i] # Nil
  BY <1>1, <1>5, <1>8, AddNlinkOK
<1> HIDE DEF v
<1>10. v.fh[i] > 0
  BY <1>4, <1>9
<1>11. /\ Good(t, E) /\ Tree(t) = Tree(v) /\ Still(v, t)
       /\ t.fh = [v.fh EXCEPT ![i] = @ - 1] /\ t.dh = v.dh
  BY <1>2, <1>9, <1>10, DropFileOK
<1>12. t.fh = s.fh
  <2>1. t.fh = [[s.fh EXCEPT ![i] = @ + 1] EXCEPT ![i] = @ - 1]
    BY <1>1, <1>9, <1>11
  <2>2. s.fh[i] + 1 - 1 = s.fh[i]
    BY <1>4
  <2> QED BY <2>1, <2>2, <1>4
<1>13. t.dirs = s.dirs /\ t.files[i] # Nil
  BY <1>1, <1>9, <1>11 DEF Still
<1> QED BY <1>1, <1>6, <1>7, <1>9, <1>11, <1>12, <1>13 DEF t, E

(* Donkey::link: the tree gets the name.                                   *)
LEMMA LinkOK ==
    ASSUME NEW s, NEW F, Good(s, F), NEW p \in Ino, s.dh[p] > 0, NEW n \in Name,
           NEW i \in Ino, Pinned(s, i, F)
    PROVE  LET t == Link(s, i, p, n)
           IN  /\ Good(t, F \ {i}) /\ Tree(s)[p] # Nil /\ Tree(s)[i] # Nil
               /\ Calm(WithName(Tree(s), p, n, i), Tree(t))
               /\ t.fh = s.fh /\ t.dh = [s.dh EXCEPT ![p] = @ - 1] /\ t.files[i] # Nil
<1> DEFINE u == SetEntry(s, p, n, i)
           v == ChangeNlink(u, i, 1)
           t == Link(s, i, p, n)
           E == F \ {i}
<1>1. Coherent(s, F) /\ s \in State /\ \A j \in Ino : Sound(s, j, F)
  BY DEF Good, Coherent
<1>2. s.dirs[p] # Nil
  BY <1>1 DEF Sound
<1>3. /\ Good(u, F) /\ Tree(u) = SetName(Tree(s), p, n, i) /\ Tree(s)[p] # Nil
      /\ u.fh = s.fh /\ u.dh = s.dh /\ u.files = s.files /\ u.ifree = s.ifree /\ u.inode = s.inode
  BY <1>2, SetEntryOK
<1>4. t = DropDirHandle(v, p)
  BY DEF Link
<1> HIDE DEF u, t, E
<1>5. Pinned(u, i, F) /\ Inode(u, i) = Inode(s, i)
  BY <1>3 DEF Pinned, Inode
<1>6. Inode(u, i).nlink \in Nat /\ Inode(u, i).nlink + 1 \in Nat /\ 1 \in Int
  BY <1>1, <1>5, StateFields
<1>7. /\ Good(v, F \ {i}) /\ Tree(u)[i] # Nil
      /\ Calm(AddLinks(Tree(u), i, 1), Tree(v))
      /\ v.fh = u.fh /\ v.dh = u.dh /\ v.files[i] # Nil
  BY <1>3, <1>5, <1>6, ChangeNlinkOK, SMTT(30)
<1> HIDE DEF v
<1>8. Calm(WithName(Tree(s), p, n, i), Tree(v))
  BY <1>3, <1>7 DEF WithName
<1>9. /\ Good(t, E) /\ Tree(t) = Tree(v) /\ Still(v, t)
      /\ t.dh = [v.dh EXCEPT ![p] = @ - 1] /\ t.fh = v.fh
  BY <1>3, <1>4, <1>7, DropDirOK DEF E
<1>10. Tree(s)[i] # Nil
  BY <1>1, TreeFacts DEF Pinned
<1>11. t.files[i] # Nil
  BY <1>7, <1>9 DEF Still
<1>12. t.fh = s.fh /\ t.dh = [s.dh EXCEPT ![p] = @ - 1]
  BY <1>3, <1>7, <1>9
<1> QED BY <1>3, <1>8, <1>9, <1>10, <1>11, <1>12 DEF t, E

(* Donkey::unlink: the tree loses the name, if there is one.               *)
LEMMA UnlinkOK ==
    ASSUME NEW s, Good(s, {}), NEW p \in Ino, s.dh[p] > 0, NEW n \in Name,
           NEW i, i = s.dirs[p].ents[n], i # Nil => Tree(s)[i] # Nil /\ Tree(s)[i].nlink > 0
    PROVE  LET t == Unlink(s, p, n)
           IN  /\ Good(t, {}) /\ Tree(s)[p] # Nil /\ i = Tree(s)[p].ents[n]
               /\ i = Nil => Tree(t) = Tree(s)
               /\ i # Nil => Calm(WithoutName(Tree(s), p, n), Tree(t))
               /\ t.fh = s.fh /\ t.dh = [s.dh EXCEPT ![p] = @ - 1]
<1> DEFINE u == SetEntry(s, p, n, Nil)
           v == ChangeNlink(u, i, -1)
           t == Unlink(s, p, n)
<1>1. Coherent(s, {}) /\ s \in State /\ \A j \in Ino : Sound(s, j, {})
  BY DEF Good, Coherent
<1>2. s.dirs[p] # Nil /\ s.dirs[p] \in DkDir /\ p \notin s.ifree
  BY <1>1, StateFields DEF Sound
<1>3. i \in Ino \union {Nil}
  BY <1>2 DEF DkDir, Entries
<1>4. Tree(s)[p] # Nil /\ Tree(s)[p].ents[n] = i
  <2>1. Inode(s, p).kind = "dir" /\ Ents(s, p) = s.dirs[p].ents
    BY <1>1, <1>2 DEF Sound, Inode, Ents
  <2>2. Tree(s)[p] # Nil /\ Tree(s)[p].kind = "dir" /\ Tree(s)[p].ents = Ents(s, p)
    BY <2>1, <1>1, <1>2, TreeFacts
  <2> QED BY <2>1, <2>2
<1>5. CASE i = Nil
  <2>1. t = DropDirHandle(s, p)
    BY <1>5 DEF Unlink
  <2>2. /\ Good(t, {}) /\ Tree(t) = Tree(s)
        /\ t.dh = [s.dh EXCEPT ![p] = @ - 1] /\ t.fh = s.fh
    BY <2>1, DropDirOK
  <2> HIDE DEF t
  <2> QED BY <2>2, <1>4, <1>5 DEF t
<1>6. CASE i # Nil
  <2>1. i \in Ino /\ Tree(s)[i] # Nil /\ Tree(s)[i].nlink > 0
    BY <1>3, <1>6
  <2>2. /\ Good(u, {}) /\ Tree(u) = SetName(Tree(s), p, n, Nil)
        /\ u.fh = s.fh /\ u.dh = s.dh /\ u.files = s.files /\ u.ifree = s.ifree /\ u.inode = s.inode
    BY <1>2, SetEntryOK
  <2>3. t = DropDirHandle(v, p)
    BY <1>6 DEF Unlink
  <2> HIDE DEF u, t
  <2>4. i \notin s.ifree /\ Inode(s, i).nlink > 0 /\ Inode(s, i).nlink \in Nat
    BY <2>1, <1>1, TreeFacts, StateFields
  <2>5. Pinned(u, i, {}) /\ Inode(u, i) = Inode(s, i)
    BY <2>2, <2>4 DEF Pinned, Inode
  <2>6. Inode(u, i).nlink + (-1) \in Nat /\ -1 \in Int
    BY <2>4, <2>5
  <2>7. /\ Good(v, {} \ {i}) /\ Calm(AddLinks(Tree(u), i, -1), Tree(v))
        /\ v.fh = u.fh /\ v.dh = u.dh
    BY <2>1, <2>2, <2>5, <2>6, ChangeNlinkOK
  <2> HIDE DEF v
  <2>8. {} \ {i} = {}
    OBVIOUS
  <2>9. /\ Good(t, {}) /\ Tree(t) = Tree(v)
        /\ t.dh = [v.dh EXCEPT ![p] = @ - 1] /\ t.fh = v.fh
    BY <2>2, <2>3, <2>7, <2>8, DropDirOK
  <2>10. Calm(WithoutName(Tree(s), p, n), Tree(t))
    BY <2>2, <2>7, <2>9, <1>4 DEF WithoutName
  <2> QED BY <2>2, <2>7, <2>9, <2>10, <1>4, <1>6 DEF t
<1> HIDE DEF t
<1> QED BY <1>5, <1>6 DEF t

-----------------------------------------------------------------------------
(* A change of attributes in the cache keeps the invariant.                *)
LEMMA EditGood ==
    ASSUME NEW s, NEW F, Good(s, F), NEW i \in Ino, s.files[i] # Nil,
           NEW f \in DkFile, f.kind = s.files[i].kind, f.nlink = s.files[i].nlink, f.dirty,
           NEW n \in Nat, n = s.bfree + s.files[i].size - f.size,
           f.size = s.files[i].size \/ f.kind = "file",
           NEW t, Edited(s, t, i, f, n)
    PROVE  /\ Good(t, F) /\ Alike(Tree(s), Tree(t))
           /\ \A j \in Ino \ {i} : Tree(t)[j] = Tree(s)[j]
           /\ Tree(t)[i] = Refreshed(Tree(s)[i], f)
           /\ t.fh = s.fh /\ t.dh = s.dh /\ t.dirs = s.dirs /\ t.files[i] = f /\ t.files[i] # Nil
<1>1. Coherent(s, F) /\ Kept(s) /\ s \in State /\ Sound(s, i, F)
  BY DEF Good, Coherent
<1>2. /\ Coherent(t, F)
      /\ \A j \in Ino \ {i} : Tree(t)[j] = Tree(s)[j] /\ t.files[j] = s.files[j]
      /\ Tree(t)[i] = Refreshed(Tree(s)[i], f)
      /\ t.files[i] = f
  BY <1>1, EditOK
<1>3. f # Nil
  BY NilAssumption
<1>4. /\ t.fh = s.fh /\ t.dh = s.dh /\ t.dirs = s.dirs /\ t.closeD = s.closeD /\ t.closeF = s.closeF
      /\ t.ifree = s.ifree
  BY DEF Edited, LikeBefore
<1>5. Kept(t)
  BY <1>1, <1>2, <1>4 DEF Kept, FileRefs
<1>6. i \notin s.ifree /\ Tree(s)[i] # Nil /\ Tree(t)[i] # Nil /\ Inode(s, i) = s.files[i]
  BY <1>1, <1>2, <1>4, TreeFacts DEF Sound, Inode
<1>7. Tree(s)[i].nlink = f.nlink
  BY <1>1, <1>6, TreeFacts
<1>8. LET m == Refreshed(Tree(s)[i], f)
      IN  m.kind = Tree(s)[i].kind /\ m.nlink = f.nlink /\ m.ents = Tree(s)[i].ents
  BY DEF Refreshed
<1>9. Alike(Tree(s), Tree(t))
  BY <1>2, <1>6, <1>7, <1>8 DEF Alike
<1> QED BY <1>2, <1>3, <1>4, <1>5, <1>9 DEF Good

(* The assignments of setattr and clear_set_bits are such changes.         *)
LEMMA FieldEdits ==
    ASSUME NEW s \in State, NEW i \in Ino, s.files[i] # Nil, NEW b \in BOOLEAN
    PROVE  /\ Edited(s, [s EXCEPT !.files[i].dirty = b], i, [s.files[i] EXCEPT !.dirty = b], s.bfree)
           /\ Edited(s, [s EXCEPT !.files[i].suid = b], i, [s.files[i] EXCEPT !.suid = b], s.bfree)
<1> DEFINE f == [s.files[i] EXCEPT !.dirty = b]
           g == [s.files[i] EXCEPT !.suid = b]
<1>1. s.files[i] \in DkFile /\ s.bfree \in Nat
  BY StateFields
<1>2. f \in DkFile /\ g \in DkFile
  BY <1>1, FileEdits
<1>3. /\ [s EXCEPT !.files[i].dirty = b]
             = [s EXCEPT !.bfree = s.bfree, !.files = [s.files EXCEPT ![i] = f]]
      /\ [s EXCEPT !.files[i].suid = b]
             = [s EXCEPT !.bfree = s.bfree, !.files = [s.files EXCEPT ![i] = g]]
  BY DEF State
<1> HIDE DEF f, g
<1>4. /\ Edited(s, [s EXCEPT !.files[i].dirty = b], i, f, s.bfree)
      /\ Edited(s, [s EXCEPT !.files[i].suid = b], i, g, s.bfree)
  BY <1>1, <1>2, <1>3, EditState
<1> QED BY <1>4 DEF f, g

(* Two changes of one inode are one.                                       *)
LEMMA EditTwice ==
    ASSUME NEW s \in State, NEW i \in Ino, NEW u, NEW t, NEW f, NEW g, NEW n, NEW m,
           Edited(s, u, i, f, n), Edited(u, t, i, g, m)
    PROVE  Edited(s, t, i, g, m)
<1>1. t.files = [[s.files EXCEPT ![i] = f] EXCEPT ![i] = g]
  BY DEF Edited
<1>2. t.files = [s.files EXCEPT ![i] = g]
  BY <1>1 DEF State
<1> QED BY <1>2 DEF Edited, LikeBefore

(* New set-id bits, marked dirty.                                          *)
LEMMA SetSuidOK ==
    ASSUME NEW s, NEW F, Good(s, F), NEW i \in Ino, s.files[i] # Nil, NEW b \in BOOLEAN,
           NEW t, t = [[s EXCEPT !.files[i].dirty = TRUE] EXCEPT !.files[i].suid = b]
    PROVE  \E f \in DkFile :
             /\ f.kind = s.files[i].kind /\ f.nlink = s.files[i].nlink /\ f.size = s.files[i].size
             /\ f.suid = b /\ f.dirty /\ Edited(s, t, i, f, s.bfree)
<1> DEFINE u == [s EXCEPT !.files[i].dirty = TRUE]
           e == [s.files[i] EXCEPT !.dirty = TRUE]
           f == [e EXCEPT !.suid = b]
<1>1. s \in State /\ s.files[i] \in DkFile
  BY StateFields DEF Good, Coherent
<1>2. Edited(s, u, i, e, s.bfree)
  BY <1>1, FieldEdits
<1>3. e \in DkFile /\ f \in DkFile
  BY <1>1, FileEdits
<1>4. e.kind = s.files[i].kind /\ e.nlink = s.files[i].nlink /\ e.size = s.files[i].size /\ e.dirty
  BY <1>1 DEF DkFile
<1>5. t = [u EXCEPT !.files[i].suid = b]
  OBVIOUS
<1> HIDE DEF u, e
<1>6. f.kind = e.kind /\ f.nlink = e.nlink /\ f.size = e.size /\ f.dirty = e.dirty /\ f.suid = b
  BY <1>3 DEF DkFile
<1>7. u \in State /\ u.files[i] = e /\ e # Nil /\ u.bfree = s.bfree
  BY <1>1, <1>2, <1>3, NilAssumption DEF Edited, State
<1>8. Edited(u, t, i, f, s.bfree)
  <2> DEFINE a == [u.files[i] EXCEPT !.suid = b]
  <2>1. Edited(u, [u EXCEPT !.files[i].suid = b], i, a, u.bfree)
    BY <1>7, FieldEdits
  <2>2. a = f
    BY <1>7
  <2> HIDE DEF a, f
  <2> QED BY <2>1, <2>2, <1>5, <1>7
<1> HIDE DEF f
<1>9. Edited(s, t, i, f, s.bfree)
  BY <1>1, <1>2, <1>8, EditTwice
<1> QED BY <1>3, <1>4, <1>6, <1>9

(* What setattr assigns: new set-id bits, or the size 0.                   *)
LEMMA SetAttrsEdits ==
    ASSUME NEW s, NEW F, Good(s, F), NEW i \in Ino, s.files[i] # Nil,
           NEW suid, NEW size,
           (suid \in BOOLEAN /\ size = Nil) \/ (suid = Nil /\ size = 0),
           NEW t, t = SetAttrs([s EXCEPT !.files[i].dirty = TRUE], i, suid, size)
    PROVE  \E f \in DkFile, n \in Nat :
             /\ f.kind = s.files[i].kind /\ f.nlink = s.files[i].nlink
             /\ f.suid = IF suid = Nil THEN s.files[i].suid ELSE suid
             /\ f.size = IF size = Nil THEN s.files[i].size ELSE 0
             /\ f.dirty /\ n = s.bfree + s.files[i].size - f.size /\ Edited(s, t, i, f, n)
<1> DEFINE d == [s EXCEPT !.files[i].dirty = TRUE]
           b == IF suid = Nil THEN s.files[i].suid ELSE suid
           u == [d EXCEPT !.files[i].suid = b]
<1>1. s \in State /\ s.files[i] \in DkFile /\ s.bfree \in Nat
  BY StateFields DEF Good, Coherent
<1>2. b \in BOOLEAN /\ s.files[i].size \in 0 .. 1
  BY <1>1 DEF DkFile
<1>3. d.files[i].suid = s.files[i].suid
  BY <1>1 DEF State, DkFile
<1>4. [d EXCEPT !.files[i].suid = IF suid = Nil THEN @ ELSE suid] = u
  BY <1>3
<1>5. t = IF size = Nil THEN u ELSE UpdateSize(u, i, size)
  BY <1>4 DEF SetAttrs
<1>6. PICK f \in DkFile :
        /\ f.kind = s.files[i].kind /\ f.nlink = s.files[i].nlink /\ f.size = s.files[i].size
        /\ f.suid = b /\ f.dirty /\ Edited(s, u, i, f, s.bfree)
  BY <1>2, SetSuidOK
<1> HIDE DEF d, b, u
<1>7. CASE size = Nil
  <2>1. t = u /\ s.bfree = s.bfree + s.files[i].size - f.size
    BY <1>1, <1>2, <1>5, <1>6, <1>7
  <2> QED BY <2>1, <1>1, <1>6, <1>7 DEF b
<1>8. CASE size # Nil
  <2> DEFINE g == [f EXCEPT !.size = 0, !.dirty = TRUE]
             n == s.bfree + s.files[i].size
  <2>1. size = 0 /\ t = UpdateSize(u, i, 0)
    BY <1>5, <1>8
  <2>2. u \in State /\ u.files[i] = f /\ f # Nil /\ u.bfree = s.bfree
    BY <1>1, <1>6, NilAssumption DEF Edited, State
  <2>3. /\ t \in State /\ LikeBefore(u, t) /\ t.ifree = u.ifree /\ t.inode = u.inode
        /\ t.bfree = u.bfree + u.files[i].size
        /\ t.files = [u.files EXCEPT ![i] = [@ EXCEPT !.size = 0, !.dirty = TRUE]]
    <3> DEFINE w == UpdateSize(u, i, 0)
    <3>1. /\ w \in State /\ LikeBefore(u, w) /\ w.ifree = u.ifree /\ w.inode = u.inode
          /\ w.bfree = u.bfree + u.files[i].size
          /\ w.files = [u.files EXCEPT ![i] = [@ EXCEPT !.size = 0, !.dirty = TRUE]]
      BY <2>2, UpdateSizeEffect
    <3> HIDE DEF w
    <3>2. t = w
      BY <2>1 DEF w
    <3> QED BY <3>1, <3>2
  <2>4. t.files = [u.files EXCEPT ![i] = g] /\ t.bfree = n
    BY <2>2, <2>3, <1>6
  <2>5. g \in DkFile
    <3>1. [f EXCEPT !.size = 0] \in DkFile
      BY DEF DkFile
    <3> QED BY <3>1 DEF DkFile
  <2>6. /\ g.kind = f.kind /\ g.nlink = f.nlink /\ g.suid = f.suid /\ g.size = 0 /\ g.dirty
    BY DEF DkFile
  <2>7. n \in Nat /\ n = s.bfree + s.files[i].size - 0
    BY <1>1, <1>2
  <2> HIDE DEF g, n
  <2>8. Edited(u, t, i, g, n)
    BY <2>3, <2>4 DEF Edited
  <2>9. Edited(s, t, i, g, n)
    BY <1>1, <1>6, <2>8, EditTwice
  <2> QED BY <2>5, <2>6, <2>7, <2>9, <1>6, <1>8 DEF b
<1> QED BY <1>7, <1>8

(* flush keeps the invariant and the tree.                                 *)
LEMMA FlushFileOK ==
    ASSUME NEW s, NEW F, Good(s, F), NEW i \in Ino, s.files[i] # Nil
    PROVE  LET t == FlushFile(s, i)
           IN  /\ Good(t, F) /\ Tree(t) = Tree(s) /\ t.fh = s.fh /\ t.dh = s.dh /\ t.dirs = s.dirs
               /\ t.files[i] # Nil
<1> DEFINE t == FlushFile(s, i)
           f == [s.files[i] EXCEPT !.dirty = FALSE]
<1>1. Coherent(s, F) /\ Kept(s) /\ s \in State /\ Accounted(s) /\ \A j \in Ino : Sound(s, j, F)
  BY DEF Good, Coherent
<1>2. /\ t \in State /\ LikeBefore(s, t) /\ t.ifree = s.ifree /\ t.bfree = s.bfree
      /\ \/ t = s /\ (~s.files[i].dirty \/ s.files[i].nlink = 0)
         \/ /\ t.inode = [s.inode EXCEPT ![i] = Written(s.files[i])]
            /\ t.files = [s.files EXCEPT ![i] = [@ EXCEPT !.dirty = FALSE]]
            /\ s.files[i].nlink > 0
  BY <1>1, FlushFileEffect
<1> HIDE DEF t
<1>3. CASE t = s
  BY <1>3 DEF t
<1>4. CASE /\ t.inode = [s.inode EXCEPT ![i] = Written(s.files[i])]
           /\ t.files = [s.files EXCEPT ![i] = [@ EXCEPT !.dirty = FALSE]]
           /\ s.files[i].nlink > 0
  <2>1. s.files[i] \in DkFile /\ i \notin s.ifree
    BY <1>1, StateFields DEF Sound
  <2>2. /\ f \in DkFile /\ ~f.dirty
        /\ f.kind = s.files[i].kind /\ f.nlink = s.files[i].nlink
        /\ f.suid = s.files[i].suid /\ f.size = s.files[i].size
    BY <2>1, FileEdits DEF DkFile
  <2>3. t.files[i] = f /\ \A j \in Ino \ {i} : t.files[j] = s.files[j]
    BY <1>1, <1>4 DEF State
  <2>4. t.inode[i] = Written(s.files[i]) /\ \A j \in Ino \ {i} : t.inode[j] = s.inode[j]
    BY <1>1, <1>4 DEF State
  <2> HIDE DEF f
  <2>5. f # Nil /\ Written(f) = Written(s.files[i])
    BY <2>2, NilAssumption DEF Written
  <2>6. \A j \in Ino \ {i} : Same(s, t, j) /\ t.fh[j] = s.fh[j] /\ t.dh[j] = s.dh[j]
    BY <1>2, <2>3, <2>4 DEF Same, LikeBefore
  <2>7. Written(s.files[i]).kind = s.files[i].kind /\ s.files[i].kind # "free"
    BY <2>1 DEF Written, DkFile
  <2>8. Sound(t, i, F)
    BY <1>1, <1>2, <2>1, <2>2, <2>3, <2>4, <2>5, <2>7 DEF Sound, LikeBefore
  <2>9. \A j \in Ino : Sound(t, j, F)
    BY <1>1, <2>6, <2>8, SameSound
  <2>10. Inode(t, i) = f /\ Inode(s, i) = s.files[i] /\ \A j \in Ino \ {i} : Inode(t, j) = Inode(s, j)
    BY <2>3, <2>5, <2>6, SameNode DEF Inode
  <2>11. Full(t) = Full(s)
    <3>1. \A j \in Ino : Inode(t, j).size = Inode(s, j).size
      BY <2>2, <2>10
    <3> QED BY <3>1 DEF Full
  <2>12. Coherent(t, F)
    BY <1>1, <1>2, <2>9, <2>11 DEF Coherent, Accounted
  <2>13. Kept(t)
    BY <1>1, <1>2, <2>3 DEF Kept, FileRefs, LikeBefore
  <2>14. Tree(t) = Tree(s)
    <3>1. Ents(t, i) = Ents(s, i)
      BY <1>2, <2>2, <2>10 DEF Ents, LikeBefore
    <3>2. NodeOf(t, i) = NodeOf(s, i)
      BY <3>1, <2>2, <2>10 DEF NodeOf
    <3>3. \A j \in Ino : Tree(t)[j] = Tree(s)[j]
      BY <3>2, <2>6, <1>2, SameNode DEF Tree
    <3> QED BY <3>3 DEF Tree
  <2> QED BY <1>2, <2>3, <2>5, <2>12, <2>13, <2>14 DEF Good, LikeBefore, t
<1> QED BY <1>2, <1>3, <1>4

(* dk_write to a file keeps the invariant and changes the size at most.    *)
LEMMA WriteBlockOK ==
    ASSUME NEW s, NEW F, Good(s, F), NEW i \in Ino, s.files[i] # Nil, s.files[i].kind = "file"
    PROVE  LET t == WriteBlock(s, i)
           IN  /\ Good(t, F) /\ Alike(Tree(s), Tree(t))
               /\ \A j \in Ino \ {i} : Tree(t)[j] = Tree(s)[j]
               /\ \E size \in 0 .. 1 : Tree(t)[i] = Refreshed(Tree(s)[i], [s.files[i] EXCEPT !.size = size])
               /\ t.fh = s.fh /\ t.dh = s.dh /\ t.files[i] # Nil
<1> DEFINE t == WriteBlock(s, i)
<1>1. s \in State /\ s.files[i] \in DkFile
  BY StateFields DEF Good, Coherent
<1>2. PICK f \in DkFile, n \in Nat :
        /\ Edited(s, t, i, f, n)
        /\ f.kind = s.files[i].kind /\ f.nlink = s.files[i].nlink /\ f.suid = s.files[i].suid
        /\ f.dirty /\ n = s.bfree + s.files[i].size - f.size
  BY <1>1, WriteBlockEdits
<1> HIDE DEF t
<1>3. /\ Good(t, F) /\ Alike(Tree(s), Tree(t))
      /\ \A j \in Ino \ {i} : Tree(t)[j] = Tree(s)[j]
      /\ Tree(t)[i] = Refreshed(Tree(s)[i], f)
      /\ t.fh = s.fh /\ t.dh = s.dh /\ t.files[i] # Nil
  BY <1>2, EditGood
<1>4. f.size \in 0 .. 1
  BY DEF DkFile
<1>5. Refreshed(Tree(s)[i], f) = Refreshed(Tree(s)[i], [s.files[i] EXCEPT !.size = f.size])
  <2> DEFINE g == [s.files[i] EXCEPT !.size = f.size]
  <2>1. g.nlink = f.nlink /\ g.suid = f.suid /\ g.size = f.size
    BY <1>1, <1>2 DEF DkFile
  <2> HIDE DEF g
  <2> QED BY <2>1 DEF Refreshed, g
<1> QED BY <1>3, <1>4, <1>5 DEF t

(* A new inode as users would see it.                                      *)
NewNode(kind) == [kind |-> kind, nlink |-> 0, suid |-> FALSE, size |-> 0, ents |-> NoEntries]

(* Its type.                                                               *)
LEMMA NewNodeType ==
    ASSUME NEW kind \in {"file", "dir"}
    PROVE  /\ NewNode(kind) \in Nodes /\ NewNode(kind).ents = NoEntries /\ NewNode(kind).nlink = 0
           /\ NewNode(kind).kind = kind
  BY DEF NewNode, Nodes, NoEntries, Entries

(* Donkey::mknod: the free inode becomes a new node without a link.        *)
LEMMA MknodOK ==
    ASSUME NEW s, Good(s, {}), NEW i \in s.ifree, NEW kind \in {"file", "dir"}
    PROVE  LET t == Mknod(s, i, kind)
           IN  /\ Good(t, {i}) /\ Pinned(t, i, {i}) /\ Inode(t, i).kind = kind /\ Inode(t, i).nlink = 0
               /\ i \in Ino /\ Tree(s)[i] = Nil
               /\ Tree(t) = [Tree(s) EXCEPT ![i] = NewNode(kind)]
               /\ t.fh = s.fh /\ t.dh = s.dh /\ t.dirs = s.dirs
               /\ s.fh[i] = 0 /\ s.dh[i] = 0
<1> DEFINE t == Mknod(s, i, kind)
           m == [FreeSlot EXCEPT !.kind = kind]
<1>1. Coherent(s, {}) /\ Kept(s) /\ s \in State /\ Accounted(s) /\ \A j \in Ino : Sound(s, j, {})
  BY DEF Good, Coherent
<1>2. i \in Ino
  BY <1>1 DEF State
<1>3. /\ FreeSlot \in DiskInode /\ FreeSlot.nlink = 0 /\ FreeSlot.suid = FALSE /\ FreeSlot.size = 0
  BY DEF FreeSlot, DiskInode
<1>4. m \in DiskInode /\ m.kind = kind /\ m.nlink = 0 /\ m.suid = FALSE /\ m.size = 0
  BY <1>3 DEF DiskInode
<1> HIDE DEF m
<1>5. t = [s EXCEPT !.ifree = s.ifree \ {i}, !.inode = [s.inode EXCEPT ![i] = m]]
  BY <1>1 DEF Mknod, m, State
<1> HIDE DEF t
<1>6. /\ t.ifree = s.ifree \ {i} /\ t.bfree = s.bfree /\ t.data = s.data
      /\ t.inode = [s.inode EXCEPT ![i] = m]
      /\ t.files = s.files /\ t.dirs = s.dirs /\ t.closeF = s.closeF /\ t.closeD = s.closeD
      /\ t.fh = s.fh /\ t.dh = s.dh
  BY <1>1, <1>5 DEF State
<1>7. t \in State
  <2>1. [s.inode EXCEPT ![i] = m] \in [Ino -> DiskInode] /\ s.ifree \ {i} \in SUBSET Ino
    BY <1>1, <1>4 DEF State
  <2> QED BY <2>1, <1>1, <1>5 DEF State
<1>8. t.inode[i] = m /\ \A j \in Ino \ {i} : t.inode[j] = s.inode[j]
  BY <1>1, <1>2, <1>6 DEF State
<1>9. s.files[i] = Nil /\ s.dirs[i] = Nil /\ s.inode[i] = FreeSlot /\ s.fh[i] = 0 /\ s.dh[i] = 0
  <2>1. s.fh[i] \in Nat /\ s.dh[i] \in Nat
    BY <1>1, <1>2, StateFields
  <2>2. ~(s.fh[i] > 0) /\ ~(s.dh[i] > 0) /\ s.files[i] = Nil /\ s.dirs[i] = Nil /\ s.inode[i] = FreeSlot
    BY <1>1, <1>2 DEF Sound
  <2> QED BY <2>1, <2>2
<1>10. \A j \in Ino \ {i} : Same(s, t, j) /\ t.fh[j] = s.fh[j] /\ t.dh[j] = s.dh[j]
  BY <1>6, <1>8 DEF Same
<1>11. \A j \in Ino \ {i} : Sound(t, j, {i})
  <2>1. \A j \in Ino \ {i} : Sound(t, j, {})
    BY <1>1, <1>10, SameSound
  <2> QED BY <2>1 DEF Sound
<1>12. Sound(t, i, {i})
  BY <1>4, <1>6, <1>8, <1>9 DEF Sound
<1>13. \A j \in Ino : Sound(t, j, {i})
  BY <1>11, <1>12
<1>14. Inode(t, i) = m /\ Inode(s, i) = FreeSlot /\ \A j \in Ino \ {i} : Inode(t, j) = Inode(s, j)
  BY <1>6, <1>8, <1>9, <1>10, SameNode DEF Inode
<1>15. Full(t) = Full(s)
  <2>1. \A j \in Ino : Inode(t, j).size = Inode(s, j).size
    BY <1>4, <1>14 DEF FreeSlot
  <2> QED BY <2>1 DEF Full
<1>16. Coherent(t, {i})
  BY <1>1, <1>6, <1>7, <1>13, <1>15 DEF Coherent, Accounted
<1>17. Kept(t)
  BY <1>1, <1>6 DEF Kept, FileRefs
<1>18. Tree(t) = [Tree(s) EXCEPT ![i] = NewNode(kind)]
  <2>1. Ents(t, i) = NoEntries
    BY <1>4, <1>6, <1>9, <1>14 DEF Ents
  <2>2. NodeOf(t, i) = NewNode(kind)
    BY <2>1, <1>4, <1>14 DEF NodeOf, NewNode
  <2>3. Tree(t)[i] = NewNode(kind)
    BY <2>2, <1>2, <1>6 DEF Tree
  <2>4. \A j \in Ino \ {i} : Tree(t)[j] = Tree(s)[j]
    BY <1>10, SameNode
  <2>5. Tree(t) \in Trees /\ Tree(s) \in Trees
    BY <1>1, <1>16, TreeType
  <2> HIDE DEF Tree
  <2> QED BY <2>3, <2>4, <2>5, <1>2 DEF Trees
<1>19. Tree(s)[i] = Nil
  BY <1>2 DEF Tree
<1>20. Pinned(t, i, {i}) /\ Inode(t, i).kind = kind /\ Inode(t, i).nlink = 0
  BY <1>4, <1>6, <1>14 DEF Pinned
<1> QED BY <1>2, <1>6, <1>9, <1>16, <1>17, <1>18, <1>19, <1>20 DEF Good, t

(* apply_releases: what is still cached has a handle.                      *)
LEMMA ApplyReleasesOK ==
    ASSUME NEW s, NEW F, Good(s, F)
    PROVE  LET t == ApplyReleases(s)
           IN  /\ Good(t, F) /\ Calm(Tree(s), Tree(t)) /\ t.fh = s.fh /\ t.dh = s.dh
               /\ \A j \in Ino : /\ t.dirs[j] # Nil => t.dh[j] > 0
                                 /\ t.files[j] # Nil => t.fh[j] > 0 \/ t.dh[j] > 0
<1> DEFINE u == CloseDirsInList(s)
           t == ApplyReleases(s)
<1>1. /\ Good(u, F) /\ Calm(Tree(s), Tree(u)) /\ u.fh = s.fh /\ u.dh = s.dh
      /\ \A j \in Ino : u.dirs[j] # Nil => u.dh[j] > 0
  BY CloseDirsGood
<1>2. t = CloseFilesInList(u)
  BY DEF ApplyReleases
<1> HIDE DEF u, t
<1>3. Coherent(s, F) /\ Coherent(u, F) /\ Kept(u) /\ u \in State
  BY <1>1 DEF Good, Coherent
<1>4. /\ Coherent(t, F) /\ Calm(Tree(u), Tree(t))
      /\ t.dirs = u.dirs /\ t.fh = u.fh /\ t.dh = u.dh /\ t.closeD = u.closeD
      /\ \A j \in Ino :
           /\ t.files[j] \in {u.files[j], Nil}
           /\ FileRefs(u, j) > 0 \/ j \notin u.closeF \/ t.files[j] = Nil
  BY <1>2, <1>3, CloseFilesOK
<1>5. ASSUME NEW j \in Ino, t.files[j] # Nil
      PROVE  FileRefs(t, j) > 0 /\ (t.fh[j] > 0 \/ t.dh[j] > 0)
  <2>1. u.fh[j] \in Nat /\ u.dh[j] \in Nat
    BY <1>3, StateFields
  <2>2. u.files[j] # Nil
    BY <1>4, <1>5
  <2>3. FileRefs(u, j) > 0
    BY <2>2, <1>3, <1>4, <1>5 DEF Kept
  <2> QED BY <2>1, <2>3, <1>1, <1>4 DEF FileRefs
<1>6. Kept(t)
  BY <1>1, <1>4, <1>5 DEF Kept
<1>7. Calm(Tree(s), Tree(t))
  <2>1. Tree(s) \in Trees
    BY <1>3, TreeType
  <2> QED BY <2>1, <1>1, <1>4, CalmTrans
<1> QED BY <1>1, <1>4, <1>5, <1>6, <1>7 DEF Good, t

(* The end of the mount keeps the invariant, and the tree as a close list  *)
(* does.                                                                   *)
LEMMA UnmountOK ==
    ASSUME NEW s, Good(s, {}), \A i \in Ino : s.fh[i] = 0 /\ s.dh[i] = 0
    PROVE  LET t == Unmount(s)
           IN  Good(t, {}) /\ Calm(Tree(s), Tree(t)) /\ t.fh = s.fh /\ t.dh = s.dh
<1> DEFINE u == ApplyReleases(s)
           t == Unmount(s)
<1>1. /\ Good(u, {}) /\ Calm(Tree(s), Tree(u)) /\ u.fh = s.fh /\ u.dh = s.dh
      /\ \A j \in Ino : /\ u.dirs[j] # Nil => u.dh[j] > 0
                        /\ u.files[j] # Nil => u.fh[j] > 0 \/ u.dh[j] > 0
  BY ApplyReleasesOK
<1>2. t = Unmounted(u)
  BY DEF Unmount
<1> HIDE DEF u, t
<1>3. Coherent(u, {}) /\ u \in State /\ s \in State
  BY <1>1 DEF Good, Coherent
<1>4. u.dirs = [i \in Ino |-> Nil] /\ u.files = [i \in Ino |-> Nil]
  <2>1. \A j \in Ino : u.dirs[j] = Nil /\ u.files[j] = Nil
    BY <1>1
  <2> QED BY <2>1, <1>3 DEF State
<1>5. u.fh = [i \in Ino |-> 0] /\ u.dh = [i \in Ino |-> 0]
  BY <1>1, <1>3 DEF State
<1>6. t = [u EXCEPT !.closeF = {}, !.closeD = <<>>]
  BY <1>2, <1>3, <1>4, <1>5 DEF Unmounted, State
<1>7. t \in State
  <2>1. {} \in SUBSET Ino /\ <<>> \in Seq(Ino)
    OBVIOUS
  <2> QED BY <2>1, <1>3, <1>6 DEF State
<1>8. Still(u, t) /\ t.fh = u.fh /\ t.dh = u.dh
  BY <1>3, <1>6 DEF Still, State
<1>9. \A i \in Ino : t.fh[i] = 0 /\ t.dh[i] = 0 /\ t.files[i] = Nil /\ t.dirs[i] = Nil
  BY <1>4, <1>5, <1>8 DEF Still
<1>10. Coherent(t, {}) /\ Tree(t) = Tree(u)
  BY <1>3, <1>7, <1>8, <1>9, StillOK
<1>11. Kept(t)
  BY <1>9 DEF Kept
<1> QED BY <1>1, <1>8, <1>10, <1>11 DEF Good, t
=============================================================================
