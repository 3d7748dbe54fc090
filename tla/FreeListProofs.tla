--------------------------- MODULE FreeListProofs ---------------------------
(***************************************************************************)
(* Proofs about the allocator of module FreeList, for a region of any      *)
(* size: whatever interleaving of calls, crashes and failed reads or       *)
(* super-block writes of an allocation, both free lists stay well formed   *)
(* and account for every unit, and the abstract Allocator is implemented.  *)
(*                                                                         *)
(* The first half are lemmas about lists, with the content of the free     *)
(* space as a parameter; the second half are the steps of the allocator.   *)
(***************************************************************************)
EXTENDS FreeList, FiniteSetTheorems, TLAPS

NodeMap == [Units -> Node \union {Data}]

-----------------------------------------------------------------------------
(* The sequence without its last element.                                  *)
LEMMA PrefixFacts ==
    ASSUME NEW S, NEW c \in Seq(S), Len(c) > 0, NEW n \in Nat, n = Len(c) - 1
    PROVE  /\ SubSeq(c, 1, n) \in Seq(S)
           /\ Len(SubSeq(c, 1, n)) = n
           /\ \A k \in 1 .. n : SubSeq(c, 1, n)[k] = c[k]
<1>1. SubSeq(c, 1, n) \in Seq(S)
  OBVIOUS
<1>2. Len(SubSeq(c, 1, n)) = n
  OBVIOUS
<1>3. \A k \in 1 .. n : SubSeq(c, 1, n)[k] = c[k]
  OBVIOUS
<1>4. QED
  BY <1>1, <1>2, <1>3

(* What Pop, SetTop and Append do to a sequence of units.                  *)
LEMMA ChainOps ==
    ASSUME NEW c \in Seq(Units), NEW u \in Units
    PROVE  /\ Len(c) > 0 =>
                /\ Pop(c) \in Seq(Units)
                /\ Len(Pop(c)) = Len(c) - 1
                /\ \A k \in 1 .. Len(c) - 1 : Pop(c)[k] = c[k]
                /\ SetTop(c, u) \in Seq(Units)
                /\ Len(SetTop(c, u)) = Len(c)
                /\ \A k \in 1 .. Len(c) - 1 : SetTop(c, u)[k] = c[k]
                /\ SetTop(c, u)[Len(c)] = u
           /\ Append(c, u) \in Seq(Units)
           /\ Len(Append(c, u)) = Len(c) + 1
           /\ \A k \in 1 .. Len(c) : Append(c, u)[k] = c[k]
           /\ Append(c, u)[Len(c) + 1] = u
<1>1. ASSUME Len(c) > 0
      PROVE  /\ Pop(c) \in Seq(Units)
             /\ Len(Pop(c)) = Len(c) - 1
             /\ \A k \in 1 .. Len(c) - 1 : Pop(c)[k] = c[k]
  <2>1. Len(c) - 1 \in Nat
    BY <1>1
  <2>2. QED
    BY <1>1, <2>1, PrefixFacts DEF Pop
<1>2. ASSUME Len(c) > 0
      PROVE  /\ SetTop(c, u) \in Seq(Units)
             /\ Len(SetTop(c, u)) = Len(c)
             /\ \A k \in 1 .. Len(c) - 1 : SetTop(c, u)[k] = c[k]
             /\ SetTop(c, u)[Len(c)] = u
  BY <1>1, <1>2 DEF SetTop
<1>3. QED
  BY <1>1, <1>2

(* The elements of a free list are different free units of the region.     *)
LEMMA ListFacts ==
    ASSUME NEW nd \in NodeMap, NEW c \in Seq(Units), NEW h, IsList(nd, h, c)
    PROVE  /\ FreeUnits(nd, c) \subseteq Units
           /\ \A k \in 1 .. Len(c) : c[k] \in Units /\ c[k] \in FreeUnits(nd, c)
           /\ \A k \in 1 .. Len(c) : c[k] \in Extent(nd, c[k])
           /\ h \in 0 .. Count
           /\ h # 0 => /\ Len(c) > 0
                       /\ h = c[Len(c)]
                       /\ h \in FreeUnits(nd, c)
           /\ h = 0 => Len(c) = 0 /\ FreeUnits(nd, c) = {}
<1>1. \A k \in 1 .. Len(c) : c[k] \in Units
  OBVIOUS
<1>2. \A k \in 1 .. Len(c) : nd[c[k]] \in Node /\ nd[c[k]].size \in Nat
                              /\ nd[c[k]].size >= 1
  BY CountAssumption DEF IsList, Node
<1>3. \A k \in 1 .. Len(c) : c[k] \in Extent(nd, c[k])
  BY <1>1, <1>2, CountAssumption DEF Extent, Units
<1>4. FreeUnits(nd, c) \subseteq Units
  BY DEF FreeUnits, IsList
<1>5. \A k \in 1 .. Len(c) : c[k] \in FreeUnits(nd, c)
  BY <1>3 DEF FreeUnits
<1>6. h \in 0 .. Count /\ (h # 0 => Len(c) > 0 /\ h = c[Len(c)])
  BY <1>1, CountAssumption DEF IsList, Units
<1>7. h = 0 => Len(c) = 0
  BY <1>1, CountAssumption DEF IsList, Units
<1>8. Len(c) = 0 => FreeUnits(nd, c) = {}
  BY DEF FreeUnits
<1>9. QED
  BY <1>1, <1>3, <1>4, <1>5, <1>6, <1>7, <1>8

(* The extents of two elements of a free list do not overlap.              *)
LEMMA Disjoint ==
    ASSUME NEW nd, NEW h, NEW c, IsList(nd, h, c),
           NEW j \in 1 .. Len(c), NEW k \in 1 .. Len(c), j # k
    PROVE  Extent(nd, c[j]) \cap Extent(nd, c[k]) = {}
  BY DEF IsList

(* Each element is a node that leads to the one below it.                  *)
LEMMA Linked ==
    ASSUME NEW nd, NEW h, NEW c, IsList(nd, h, c), NEW k \in 1 .. Len(c)
    PROVE  /\ nd[c[k]] \in Node
           /\ nd[c[k]].next_ptr = IF k = 1 THEN 0 ELSE c[k - 1]
           /\ nd[c[k]].size >= 1
           /\ Extent(nd, c[k]) \subseteq Units
  BY DEF IsList

(* Writing a unit that is no element of the list leaves the list alone.    *)
LEMMA Untouched ==
    ASSUME NEW nd \in NodeMap, NEW c \in Seq(Units), NEW h, IsList(nd, h, c),
           NEW u \in Units, NEW x,
           \A k \in 1 .. Len(c) : c[k] # u
    PROVE  /\ IsList([nd EXCEPT ![u] = x], h, c)
           /\ FreeUnits([nd EXCEPT ![u] = x], c) = FreeUnits(nd, c)
<1> DEFINE nd2 == [nd EXCEPT ![u] = x]
<1>1. \A k \in 1 .. Len(c) : nd2[c[k]] = nd[c[k]]
  BY DEF NodeMap
<1>2. \A k \in 1 .. Len(c) : Extent(nd2, c[k]) = Extent(nd, c[k])
  BY <1>1 DEF Extent
<1> HIDE DEF nd2
<1>3. FreeUnits(nd2, c) = FreeUnits(nd, c)
  BY <1>2 DEF FreeUnits
<1>4. IsList(nd2, h, c)
  BY <1>1, <1>2 DEF IsList
<1>5. QED
  BY <1>3, <1>4 DEF nd2

(* An extent of one unit is taken: its successor becomes the head.         *)
LEMMA TakeWhole ==
    ASSUME NEW nd \in NodeMap, NEW c \in Seq(Units), NEW h, IsList(nd, h, c),
           h # 0, nd[h].size = 1
    PROVE  /\ IsList(nd, nd[h].next_ptr, Pop(c))
           /\ FreeUnits(nd, Pop(c)) = FreeUnits(nd, c) \ {h}
<1>1. Len(c) > 0 /\ h = c[Len(c)] /\ h \in Units /\ Len(c) \in Nat
  BY ListFacts
<1>2. /\ Pop(c) \in Seq(Units)
      /\ Len(Pop(c)) = Len(c) - 1
      /\ \A k \in 1 .. Len(c) - 1 : Pop(c)[k] = c[k]
  BY <1>1, ChainOps
<1>3. Extent(nd, h) = {h}
  BY <1>1, CountAssumption DEF Extent, Units
<1>4. \A k \in 1 .. Len(c) - 1 : h \notin Extent(nd, c[k])
  <2>1. \A k \in 1 .. Len(c) - 1 : Extent(nd, c[k]) \cap Extent(nd, c[Len(c)]) = {}
    BY <1>1, Disjoint
  <2>2. QED
    BY <1>1, <1>3, <2>1
<1>5. FreeUnits(nd, Pop(c)) = FreeUnits(nd, c) \ {h}
  <2>1. FreeUnits(nd, c) = FreeUnits(nd, Pop(c)) \union {h}
    <3>1. 1 .. Len(c) = (1 .. Len(c) - 1) \union {Len(c)}
      BY <1>1
    <3>2. \A x : x \in FreeUnits(nd, c) <=> \E k \in 1 .. Len(c) : x \in Extent(nd, c[k])
      BY DEF FreeUnits
    <3>3. \A x : x \in FreeUnits(nd, Pop(c)) <=> \E k \in 1 .. Len(c) - 1 : x \in Extent(nd, c[k])
      BY <1>1, <1>2 DEF FreeUnits
    <3>4. QED
      BY <1>1, <1>3, <3>1, <3>2, <3>3
  <2>2. h \notin FreeUnits(nd, Pop(c))
    BY <1>1, <1>2, <1>4 DEF FreeUnits
  <2>3. QED
    BY <2>1, <2>2
<1>6. nd[h].next_ptr = IF Len(Pop(c)) = 0 THEN 0 ELSE Pop(c)[Len(Pop(c))]
  BY <1>1, <1>2 DEF IsList
<1>7. IsList(nd, nd[h].next_ptr, Pop(c))
  <2>1. \A k \in 1 .. Len(Pop(c)) : k \in 1 .. Len(c) /\ Pop(c)[k] = c[k]
                                    /\ (k # 1 => Pop(c)[k - 1] = c[k - 1])
    BY <1>1, <1>2
  <2>2. \A k \in 1 .. Len(Pop(c)) :
           /\ nd[Pop(c)[k]] \in Node
           /\ nd[Pop(c)[k]].next_ptr = IF k = 1 THEN 0 ELSE Pop(c)[k - 1]
           /\ nd[Pop(c)[k]].size >= 1
           /\ Extent(nd, Pop(c)[k]) \subseteq Units
    BY <2>1, Linked
  <2>3. \A j, k \in 1 .. Len(Pop(c)) :
           j # k => Extent(nd, Pop(c)[j]) \cap Extent(nd, Pop(c)[k]) = {}
    BY <2>1, Disjoint
  <2>4. QED
    BY <1>6, <2>2, <2>3 DEF IsList
<1>8. QED
  BY <1>5, <1>7

Split(nd, h) == [nd EXCEPT ![h + 1] = [nd[h] EXCEPT !.size = nd[h].size - 1]]
Push(nd, u, h) == [nd EXCEPT ![u] = [next_ptr |-> h, size |-> 1]]

(* A larger extent is split: the node written at its second unit describes *)
(* the rest and replaces the old head.                                     *)
LEMMA TakeFront ==
    ASSUME NEW nd \in NodeMap, NEW c \in Seq(Units), NEW h, IsList(nd, h, c),
           h # 0, nd[h].size > 1
    PROVE  /\ h + 1 \in FreeUnits(nd, c)
           /\ \A k \in 1 .. Len(c) : c[k] # h + 1
           /\ Split(nd, h) \in NodeMap
           /\ IsList(Split(nd, h), h + 1, SetTop(c, h + 1))
           /\ FreeUnits(Split(nd, h), SetTop(c, h + 1)) = FreeUnits(nd, c) \ {h}
<1> DEFINE d == SetTop(c, h + 1)
           nd2 == Split(nd, h)
<1>1. Len(c) > 0 /\ h = c[Len(c)] /\ h \in Units /\ Len(c) \in Nat
  BY ListFacts
<1>2. nd[h] \in Node /\ nd[h].size \in Nat /\ Extent(nd, h) \subseteq Units
  BY <1>1, CountAssumption DEF IsList, Node
<1>3. h + 1 \in Extent(nd, h) /\ h + 1 \in Units
  BY <1>1, <1>2, CountAssumption DEF Extent, Units
<1>4. \A k \in 1 .. Len(c) - 1 : Extent(nd, c[k]) \cap Extent(nd, h) = {}
  <2> TAKE k \in 1 .. Len(c) - 1
  <2>1. Len(c) \in 1 .. Len(c) /\ k \in 1 .. Len(c) /\ k # Len(c)
    BY <1>1
  <2>2. QED
    BY <1>1, <2>1, Disjoint
<1>5. \A k \in 1 .. Len(c) : c[k] # h + 1
  <2>1. \A k \in 1 .. Len(c) - 1 : c[k] # h + 1
    BY <1>3, <1>4, ListFacts
  <2>2. c[Len(c)] # h + 1
    BY <1>1 DEF Units
  <2>3. QED
    BY <1>1, <2>1, <2>2
<1>6. /\ d \in Seq(Units)
      /\ Len(d) = Len(c)
      /\ \A k \in 1 .. Len(c) - 1 : d[k] = c[k]
      /\ d[Len(c)] = h + 1
  BY <1>1, <1>3, ChainOps
<1>7. /\ nd2[h + 1] = [nd[h] EXCEPT !.size = nd[h].size - 1]
      /\ \A k \in 1 .. Len(c) - 1 : nd2[c[k]] = nd[c[k]]
      /\ nd2[h + 1] \in Node
      /\ nd2[h + 1].size = nd[h].size - 1
      /\ nd2[h + 1].next_ptr = nd[h].next_ptr
  BY <1>2, <1>3, <1>5, CountAssumption DEF NodeMap, Node, Split
<1>8. nd2 \in NodeMap
  BY <1>3, <1>7 DEF NodeMap, Split
<1> HIDE DEF nd2
<1>9. /\ Extent(nd2, h + 1) = Extent(nd, h) \ {h}
      /\ \A k \in 1 .. Len(c) - 1 : Extent(nd2, c[k]) = Extent(nd, c[k])
  <2>1. \A k \in 1 .. Len(c) - 1 : Extent(nd2, c[k]) = Extent(nd, c[k])
    BY <1>7 DEF Extent
  <2>2. Extent(nd2, h + 1) = (h + 1) .. (h + nd[h].size - 1)
    <3>1. h \in Int /\ nd[h].size \in Int
      BY <1>1, <1>2 DEF Units
    <3>2. h + 1 + (nd[h].size - 1) - 1 = h + nd[h].size - 1
      BY <3>1
    <3>3. QED
      BY <1>7, <3>2 DEF Extent
  <2>3. Extent(nd, h) = h .. (h + nd[h].size - 1)
    BY DEF Extent
  <2>4. (h + 1) .. (h + nd[h].size - 1) = (h .. (h + nd[h].size - 1)) \ {h}
    BY <1>1, <1>2 DEF Units
  <2>5. QED
    BY <2>1, <2>2, <2>3, <2>4
<1> HIDE DEF d
<1>10. FreeUnits(nd2, d) = FreeUnits(nd, c) \ {h}
  <2>1. \A x : x \in FreeUnits(nd, c) <=>
               \/ \E k \in 1 .. Len(c) - 1 : x \in Extent(nd, c[k])
               \/ x \in Extent(nd, h)
    <3>1. 1 .. Len(c) = (1 .. Len(c) - 1) \union {Len(c)}
      BY <1>1
    <3>2. \A x : x \in FreeUnits(nd, c) <=> \E k \in 1 .. Len(c) : x \in Extent(nd, c[k])
      BY DEF FreeUnits
    <3>3. QED
      BY <1>1, <3>1, <3>2
  <2>2. \A x : x \in FreeUnits(nd2, d) <=>
               \/ \E k \in 1 .. Len(c) - 1 : x \in Extent(nd, c[k])
               \/ x \in Extent(nd, h) \ {h}
    <3>1. 1 .. Len(c) = (1 .. Len(c) - 1) \union {Len(c)}
      BY <1>1
    <3>2. \A x : x \in FreeUnits(nd2, d) <=> \E k \in 1 .. Len(c) : x \in Extent(nd2, d[k])
      BY <1>6 DEF FreeUnits
    <3>3. QED
      BY <1>6, <1>9, <3>1, <3>2
  <2>3. h \in Extent(nd, h) /\ \A k \in 1 .. Len(c) - 1 : h \notin Extent(nd, c[k])
    BY <1>1, <1>4, ListFacts
  <2>4. QED
    BY <2>1, <2>2, <2>3
<1>11. IsList(nd2, h + 1, d)
  <2>1. h + 1 = IF Len(d) = 0 THEN 0 ELSE d[Len(d)]
    BY <1>1, <1>6
  <2>2. ASSUME NEW k \in 1 .. Len(d)
        PROVE  /\ nd2[d[k]] \in Node
               /\ nd2[d[k]].next_ptr = IF k = 1 THEN 0 ELSE d[k - 1]
               /\ nd2[d[k]].size >= 1
               /\ Extent(nd2, d[k]) \subseteq Units
    <3> k \in 1 .. Len(c) /\ (k # 1 => d[k - 1] = c[k - 1])
      BY <1>1, <1>6
    <3>1. CASE k = Len(c)
      <4>1. d[k] = h + 1 /\ nd[h].next_ptr = IF k = 1 THEN 0 ELSE d[k - 1]
        BY <1>1, <1>6, <3>1, Linked
      <4>2. nd[h].size - 1 >= 1
        BY <1>2
      <4>3. Extent(nd2, h + 1) \subseteq Units
        BY <1>2, <1>9
      <4>4. QED
        BY <1>7, <4>1, <4>2, <4>3
    <3>2. CASE k # Len(c)
      <4>1. k \in 1 .. Len(c) - 1
        BY <1>1, <3>2
      <4>2. d[k] = c[k] /\ nd2[d[k]] = nd[c[k]] /\ Extent(nd2, d[k]) = Extent(nd, c[k])
        BY <1>6, <1>7, <1>9, <4>1
      <4>3. (k # 1 => d[k - 1] = c[k - 1]) /\ k \in 1 .. Len(c)
        BY <1>1, <1>6, <4>1
      <4>4. /\ nd[c[k]] \in Node
            /\ nd[c[k]].next_ptr = IF k = 1 THEN 0 ELSE c[k - 1]
            /\ nd[c[k]].size >= 1
            /\ Extent(nd, c[k]) \subseteq Units
        BY <4>3, Linked
      <4>5. QED
        BY <4>2, <4>3, <4>4
    <3>3. QED
      BY <3>1, <3>2
  <2>3. ASSUME NEW j \in 1 .. Len(d), NEW k \in 1 .. Len(d), j # k
        PROVE  Extent(nd2, d[j]) \cap Extent(nd2, d[k]) = {}
    <3>1. \A i \in 1 .. Len(d) : Extent(nd2, d[i]) \subseteq Extent(nd, c[i])
      <4> TAKE i \in 1 .. Len(d)
      <4>1. CASE i = Len(c)
        BY <1>1, <1>6, <1>9, <4>1
      <4>2. CASE i # Len(c)
        <5>1. i \in 1 .. Len(c) - 1
          BY <1>1, <1>6, <4>2
        <5>2. QED
          BY <1>6, <1>9, <5>1
      <4>3. QED
        BY <4>1, <4>2
    <3>2. Extent(nd, c[j]) \cap Extent(nd, c[k]) = {}
      BY <1>6, <2>3, Disjoint
    <3>3. QED
      BY <2>3, <3>1, <3>2
  <2>4. QED
    BY <2>1, <2>2, <2>3 DEF IsList
<1>12. h + 1 \in FreeUnits(nd, c)
  BY <1>1, <1>3 DEF FreeUnits
<1>13. QED
  BY <1>5, <1>8, <1>10, <1>11, <1>12 DEF d, nd2

(* A unit outside the list is put in front of it.                          *)
LEMMA PutFront ==
    ASSUME NEW nd \in NodeMap, NEW c \in Seq(Units), NEW h, IsList(nd, h, c),
           NEW u \in Units, u \notin FreeUnits(nd, c)
    PROVE  /\ Push(nd, u, h) \in NodeMap
           /\ IsList(Push(nd, u, h), u, Append(c, u))
           /\ FreeUnits(Push(nd, u, h), Append(c, u)) = FreeUnits(nd, c) \union {u}
<1> DEFINE d == Append(c, u)
           nd2 == Push(nd, u, h)
<1>1. /\ d \in Seq(Units)
      /\ Len(d) = Len(c) + 1
      /\ \A k \in 1 .. Len(c) : d[k] = c[k]
      /\ d[Len(c) + 1] = u
      /\ Len(c) \in Nat
  BY ChainOps
<1>2. \A k \in 1 .. Len(c) : c[k] # u
  BY ListFacts
<1>3. h \in 0 .. Count
  BY ListFacts
<1>4. /\ nd2[u] = [next_ptr |-> h, size |-> 1]
      /\ nd2[u] \in Node
      /\ \A k \in 1 .. Len(c) : nd2[c[k]] = nd[c[k]]
  BY <1>2, <1>3, CountAssumption DEF NodeMap, Node, Push
<1>5. nd2 \in NodeMap
  BY <1>4 DEF NodeMap, Push
<1> HIDE DEF nd2
<1>6. /\ Extent(nd2, u) = {u}
      /\ \A k \in 1 .. Len(c) : Extent(nd2, c[k]) = Extent(nd, c[k])
  BY <1>4, CountAssumption DEF Extent, Units
<1>7. \A k \in 1 .. Len(c) : u \notin Extent(nd, c[k])
  BY DEF FreeUnits
<1> HIDE DEF d
<1>8. FreeUnits(nd2, d) = FreeUnits(nd, c) \union {u}
  <2>1. 1 .. Len(d) = (1 .. Len(c)) \union {Len(c) + 1}
    BY <1>1
  <2>2. \A x : x \in FreeUnits(nd2, d) <=> \E k \in 1 .. Len(d) : x \in Extent(nd2, d[k])
    BY DEF FreeUnits
  <2>3. \A x : x \in FreeUnits(nd, c) <=> \E k \in 1 .. Len(c) : x \in Extent(nd, c[k])
    BY DEF FreeUnits
  <2>4. \A k \in 1 .. Len(c) : Extent(nd2, d[k]) = Extent(nd, c[k])
    BY <1>1, <1>6
  <2>5. Extent(nd2, d[Len(c) + 1]) = {u}
    BY <1>1, <1>6
  <2>6. ASSUME NEW x
        PROVE  x \in FreeUnits(nd2, d) <=> x \in FreeUnits(nd, c) \/ x = u
    BY <2>1, <2>2, <2>3, <2>4, <2>5
  <2>7. QED
    BY <2>6
<1>9. IsList(nd2, u, d)
  <2>1. u = IF Len(d) = 0 THEN 0 ELSE d[Len(d)]
    BY <1>1
  <2>2. ASSUME NEW k \in 1 .. Len(d)
        PROVE  /\ nd2[d[k]] \in Node
               /\ nd2[d[k]].next_ptr = IF k = 1 THEN 0 ELSE d[k - 1]
               /\ nd2[d[k]].size >= 1
               /\ Extent(nd2, d[k]) \subseteq Units
    <3>1. CASE k = Len(c) + 1
      <4>1. d[k] = u /\ h = IF k = 1 THEN 0 ELSE d[k - 1]
        BY <1>1, <3>1 DEF IsList
      <4>2. nd2[u].next_ptr = h /\ nd2[u].size >= 1
        BY <1>4
      <4>3. QED
        BY <1>4, <1>6, <4>1, <4>2
    <3>2. CASE k # Len(c) + 1
      <4>1. k \in 1 .. Len(c)
        BY <1>1, <3>2
      <4>2. d[k] = c[k] /\ nd2[d[k]] = nd[c[k]] /\ Extent(nd2, d[k]) = Extent(nd, c[k])
        BY <1>1, <1>4, <1>6, <4>1
      <4>3. k # 1 => d[k - 1] = c[k - 1]
        BY <1>1, <4>1
      <4>4. QED
        BY <4>1, <4>2, <4>3, Linked
    <3>3. QED
      BY <3>1, <3>2
  <2>3. ASSUME NEW j \in 1 .. Len(d), NEW k \in 1 .. Len(d), j # k
        PROVE  Extent(nd2, d[j]) \cap Extent(nd2, d[k]) = {}
    <3> DEFINE E(i) == IF i = Len(c) + 1 THEN {u} ELSE Extent(nd, c[i])
    <3>0. \A i \in 1 .. Len(d) : Extent(nd2, d[i]) = E(i)
      <4> TAKE i \in 1 .. Len(d)
      <4>1. CASE i = Len(c) + 1
        BY <1>1, <1>6, <4>1
      <4>2. CASE i # Len(c) + 1
        <5>1. i \in 1 .. Len(c)
          BY <1>1, <4>2
        <5>2. QED
          BY <1>1, <1>6, <4>2, <5>1
      <4>3. QED
        BY <4>1, <4>2
    <3>1. CASE j = Len(c) + 1
      <4>1. k \in 1 .. Len(c)
        BY <1>1, <2>3, <3>1
      <4>2. QED
        BY <1>7, <2>3, <3>0, <3>1, <4>1
    <3>2. CASE k = Len(c) + 1
      <4>1. j \in 1 .. Len(c)
        BY <1>1, <2>3, <3>2
      <4>2. QED
        BY <1>7, <2>3, <3>0, <3>2, <4>1
    <3>3. CASE j # Len(c) + 1 /\ k # Len(c) + 1
      <4>1. j \in 1 .. Len(c) /\ k \in 1 .. Len(c)
        BY <1>1, <3>3
      <4>2. Extent(nd, c[j]) \cap Extent(nd, c[k]) = {}
        BY <2>3, <4>1, Disjoint
      <4>3. Extent(nd2, d[j]) = Extent(nd, c[j]) /\ Extent(nd2, d[k]) = Extent(nd, c[k])
        BY <3>0, <3>3
      <4>4. QED
        BY <4>2, <4>3
    <3>4. QED
      BY <3>1, <3>2, <3>3
  <2>4. QED
    BY <2>1, <2>2, <2>3 DEF IsList
<1>10. QED
  BY <1>5, <1>8, <1>9 DEF d, nd2

(* Counting units.                                                         *)
LEMMA Counting ==
    ASSUME NEW S \in SUBSET Units
    PROVE  /\ IsFiniteSet(S)
           /\ Cardinality(S) \in 0 .. Count
           /\ \A u \in S : Cardinality(S \ {u}) = Cardinality(S) - 1
           /\ \A u \in Units \ S : /\ Cardinality(S \union {u}) = Cardinality(S) + 1
                                   /\ Cardinality(S) < Count
           /\ Cardinality(S) > 0 => S # {}
<1>1. IsFiniteSet(Units) /\ Cardinality(Units) = Count
  BY CountAssumption, FS_Interval DEF Units
<1>2. \A T \in SUBSET Units : /\ IsFiniteSet(T)
                              /\ Cardinality(T) \in Nat
                              /\ Cardinality(T) <= Count
  BY <1>1, FS_Subset, FS_CardinalityType
<1>3. \A u \in S : Cardinality(S \ {u}) = Cardinality(S) - 1
  BY <1>2, FS_RemoveElement
<1>4. ASSUME NEW u \in Units \ S
      PROVE  Cardinality(S \union {u}) = Cardinality(S) + 1 /\ Cardinality(S) < Count
  <2>1. Cardinality(S \union {u}) = Cardinality(S) + 1
    BY <1>2, FS_AddElement
  <2>2. Cardinality(S \union {u}) <= Count
    BY <1>2
  <2>3. QED
    BY <1>2, <2>1, <2>2, CountAssumption
<1>5. Cardinality(S) > 0 => S # {}
  BY FS_EmptySet
<1>6. QED
  BY <1>2, <1>3, <1>4, <1>5, CountAssumption

-----------------------------------------------------------------------------
(***************************************************************************)
(* The inductive invariant.  The super block in memory can run ahead of    *)
(* the one on the device (a flush_sb that failed), while the two lists     *)
(* share the nodes in the free space; what protects the older list is that *)
(* a node of it that is still inside the newer free space is also a node   *)
(* of the newer list, so a split never writes on it.                       *)
(***************************************************************************)
SharedNodes ==
    \A i \in 1 .. Len(dchain) :
        \/ \E k \in 1 .. Len(chain) : dchain[i] = chain[k]
        \/ dchain[i] \notin InMemory

CallInProgress ==
    /\ op.pc = "push" => op.unit \in owned /\ sb.fl_ptr = op.unit
    /\ op.pc = "freeFlush" => op.unit \in owned /\ op.unit \in InMemory
    /\ op.pc = "allocFlush" => op.unit \in Units

Inv ==
    /\ TypeOK
    /\ ListsWellFormed
    /\ SpaceAccounted
    /\ NoDoubleUse
    /\ HeadHasRoom
    /\ SharedNodes
    /\ CallInProgress

(* A freshly formatted region satisfies the invariant.                     *)
LEMMA InitInv == Init => Inv
<1> SUFFICES ASSUME Init PROVE Inv
  OBVIOUS
<1>1. /\ chain = <<1>> /\ dchain = <<1>> /\ op = Idle /\ owned = {}
      /\ sb = [fl_ptr |-> 1, used |-> 0] /\ disk = sb
      /\ Len(chain) = 1 /\ chain[1] = 1 /\ 1 \in Units
  BY CountAssumption DEF Init, Units
<1>2. /\ node \in NodeMap
      /\ node[1] = [next_ptr |-> 0, size |-> Count]
      /\ node[1] \in Node
  BY CountAssumption DEF Init, Units, NodeMap, Node
<1>3. Extent(node, 1) = Units
  BY <1>2, CountAssumption DEF Extent, Units
<1>4. FreeUnits(node, chain) = Units
  <2>1. \A k \in 1 .. Len(chain) : k = 1
    BY <1>1
  <2>2. QED
    BY <1>1, <1>3, <2>1 DEF FreeUnits
<1>5. IsList(node, 1, chain)
  <2>1. \A k \in 1 .. Len(chain) : k = 1
    BY <1>1
  <2>2. QED
    BY <1>1, <1>2, <1>3, <2>1, CountAssumption DEF IsList
<1>6. TypeOK
  <2>1. sb \in SuperBlock /\ disk \in SuperBlock
    BY <1>1, CountAssumption DEF SuperBlock
  <2>2. op \in Call
    BY <1>1, CountAssumption DEF Idle, Call
  <2>3. chain \in Seq(Units) /\ dchain \in Seq(Units)
    BY <1>1
  <2>4. QED
    BY <1>1, <1>2, <2>1, <2>2, <2>3 DEF TypeOK, NodeMap
<1>7. ListsWellFormed
  BY <1>1, <1>5 DEF ListsWellFormed, MemoryHead, Idle
<1>8. SpaceAccounted
  BY <1>1, <1>4, CountAssumption, FS_Interval DEF SpaceAccounted, InMemory, OnDevice, Units
<1>9. NoDoubleUse /\ HeadHasRoom /\ SharedNodes /\ CallInProgress
  BY <1>1 DEF NoDoubleUse, HeadHasRoom, SharedNodes, CallInProgress, Idle, Freeing, Allocated
<1>10. QED
  BY <1>6, <1>7, <1>8, <1>9 DEF Inv

(* What the invariant says of the free units, for use in the steps.        *)
LEMMA InvFacts ==
    ASSUME Inv
    PROVE  /\ node \in NodeMap /\ chain \in Seq(Units) /\ dchain \in Seq(Units)
           /\ InMemory \subseteq Units /\ OnDevice \subseteq Units
           /\ sb.fl_ptr \in 0 .. Count /\ sb.used \in 0 .. Count
           /\ op.unit \in 0 .. Count /\ op.next_ptr \in 0 .. Count
  BY ListFacts DEF Inv, TypeOK, ListsWellFormed, InMemory, OnDevice, NodeMap, SuperBlock, Call

(* Searching starts at a node with room.                                   *)
LEMMA AllocateStep ==
    ASSUME Inv, Allocate
    PROVE  Inv' /\ InMemory' = InMemory /\ OnDevice' = OnDevice
<1> USE DEF Allocate
<1>1. InMemory' = InMemory /\ OnDevice' = OnDevice
  BY DEF InMemory, OnDevice
<1>2. sb.fl_ptr \in InMemory
  <2>1. Cardinality(InMemory) > 0
    BY InvFacts, Counting, CountAssumption DEF Inv, SpaceAccounted
  <2>2. InMemory # {}
    BY <2>1, InvFacts, Counting
  <2>3. IsList(node, sb.fl_ptr, chain)
    BY DEF Inv, ListsWellFormed, MemoryHead
  <2>4. QED
    BY <2>2, <2>3, InvFacts, ListFacts DEF InMemory
<1>3. TypeOK'
  <2>1. op' \in Call
    BY InvFacts, CountAssumption DEF Call, Steps
  <2>2. QED
    BY <2>1 DEF Inv, TypeOK
<1>4. ListsWellFormed'
  BY DEF Inv, ListsWellFormed, MemoryHead
<1>5. SpaceAccounted' /\ SharedNodes'
  BY <1>1 DEF Inv, SpaceAccounted, SharedNodes
<1>6. NoDoubleUse' /\ CallInProgress'
  BY <1>1 DEF Inv, NoDoubleUse, Freeing, Allocated, CallInProgress
<1>7. HeadHasRoom'
  BY <1>1, <1>2 DEF HeadHasRoom
<1>8. QED
  BY <1>1, <1>3, <1>4, <1>5, <1>6, <1>7 DEF Inv

(* The front unit of the head extent leaves the list in memory; the list   *)
(* on the device is untouched.                                             *)
LEMMA AllocateFromFreeStep ==
    ASSUME Inv, AllocateFromFree
    PROVE  /\ Inv'
           /\ op' = [op EXCEPT !.pc = "allocFlush"]
           /\ op.unit \in InMemory
           /\ InMemory' = InMemory \ {op.unit}
           /\ OnDevice' = OnDevice
<1> DEFINE p == op.unit
           fl == node[p]
<1>1. /\ op.pc = "walk" /\ p = sb.fl_ptr /\ p \in InMemory
      /\ UNCHANGED <<disk, owned, dchain>>
  BY DEF AllocateFromFree, Inv, HeadHasRoom
<1>2. /\ node \in NodeMap /\ chain \in Seq(Units) /\ dchain \in Seq(Units)
      /\ InMemory \subseteq Units /\ OnDevice \subseteq Units
      /\ sb.used \in 0 .. Count
  BY InvFacts
<1>3. IsList(node, p, chain) /\ IsList(node, disk.fl_ptr, dchain) /\ p # 0 /\ p \in Units
  <2>1. IsList(node, p, chain) /\ IsList(node, disk.fl_ptr, dchain)
    BY <1>1 DEF Inv, ListsWellFormed, MemoryHead
  <2>2. p \in Units
    BY <1>1, <1>2
  <2>3. p # 0
    BY <2>2 DEF Units
  <2>4. QED
    BY <2>1, <2>2, <2>3
<1>4. Len(chain) > 0 /\ p = chain[Len(chain)] /\ Len(chain) \in Nat
  BY <1>2, <1>3, ListFacts
<1>5. fl \in Node /\ fl.size \in Nat /\ fl.size >= 1 /\ fl.next_ptr \in 0 .. Count
  <2>1. Len(chain) \in 1 .. Len(chain)
    BY <1>4
  <2>2. node[chain[Len(chain)]] \in Node /\ node[chain[Len(chain)]].size >= 1
    BY <1>3, <2>1, Linked
  <2>3. QED
    BY <1>4, <2>2, CountAssumption DEF Node
<1>6. ReadNode(p) = {fl}
  BY <1>3, <1>5, DataAssumption DEF ReadNode
<1>7. TakeFrom(p, fl) /\ op' = [op EXCEPT !.pc = "allocFlush"]
  BY <1>5, <1>6 DEF AllocateFromFree
<1>8. op'.pc = "allocFlush" /\ op'.unit = p /\ op' \in Call
  BY <1>7 DEF Inv, TypeOK, Call, Steps
<1>9. sb'.used = sb.used + 1
  BY <1>7 DEF TakeFrom
<1>10. /\ node' \in NodeMap
       /\ chain' \in Seq(Units)
       /\ IsList(node', sb'.fl_ptr, chain')
       /\ InMemory' = InMemory \ {p}
       /\ IsList(node', disk.fl_ptr, dchain)
       /\ OnDevice' = OnDevice
       /\ Len(chain') >= Len(chain) - 1
       /\ Len(chain') \in Nat
       /\ \A k \in 1 .. Len(chain) - 1 : chain'[k] = chain[k]
       /\ sb'.fl_ptr \in 0 .. Count
  <2>1. CASE fl.size > 1
    <3>1. /\ node' = [node EXCEPT ![p + 1] = [node[p] EXCEPT !.size = node[p].size - 1]]
          /\ sb'.fl_ptr = p + 1
          /\ chain' = SetTop(chain, p + 1)
          /\ p + 1 \in Units
      BY <1>7, <2>1 DEF TakeFrom
    <3>2. /\ p + 1 \in InMemory
          /\ \A k \in 1 .. Len(chain) : chain[k] # p + 1
          /\ node' \in NodeMap
          /\ IsList(node', p + 1, chain')
          /\ FreeUnits(node', chain') = InMemory \ {p}
      <4>1. /\ p + 1 \in FreeUnits(node, chain)
            /\ \A k \in 1 .. Len(chain) : chain[k] # p + 1
            /\ Split(node, p) \in NodeMap
            /\ IsList(Split(node, p), p + 1, SetTop(chain, p + 1))
            /\ FreeUnits(Split(node, p), SetTop(chain, p + 1)) = FreeUnits(node, chain) \ {p}
        BY <1>2, <1>3, <2>1, TakeFront
      <4>2. QED
        BY <3>1, <4>1 DEF InMemory, Split
    <3>3. \A i \in 1 .. Len(dchain) : dchain[i] # p + 1
      BY <3>2 DEF Inv, SharedNodes
    <3>4. IsList(node', disk.fl_ptr, dchain) /\ FreeUnits(node', dchain) = OnDevice
      BY <1>2, <1>3, <3>1, <3>3, Untouched DEF OnDevice
    <3>5. chain' \in Seq(Units) /\ Len(chain') = Len(chain)
          /\ \A k \in 1 .. Len(chain) - 1 : chain'[k] = chain[k]
      BY <1>2, <1>4, <3>1, ChainOps
    <3>6. InMemory' = InMemory \ {p} /\ OnDevice' = OnDevice
      BY <1>1, <3>2, <3>4 DEF InMemory, OnDevice
    <3>7. QED
      BY <1>4, <3>1, <3>2, <3>4, <3>5, <3>6 DEF Units
  <2>2. CASE ~(fl.size > 1)
    <3>1. /\ node' = node
          /\ sb'.fl_ptr = fl.next_ptr
          /\ chain' = Pop(chain)
          /\ fl.size = 1
      BY <1>5, <1>7, <2>2 DEF TakeFrom
    <3>2. /\ IsList(node, fl.next_ptr, Pop(chain))
          /\ FreeUnits(node, Pop(chain)) = InMemory \ {p}
      BY <1>2, <1>3, <3>1, TakeWhole DEF InMemory
    <3>3. chain' \in Seq(Units) /\ Len(chain') = Len(chain) - 1
          /\ \A k \in 1 .. Len(chain) - 1 : chain'[k] = chain[k]
      BY <1>2, <1>3, <1>4, <3>1, ChainOps
    <3>4. FreeUnits(node', chain') = InMemory \ {p} /\ FreeUnits(node', dchain') = OnDevice
      BY <1>1, <3>1, <3>2 DEF OnDevice
    <3>5. IsList(node', sb'.fl_ptr, chain') /\ IsList(node', disk.fl_ptr, dchain)
      BY <1>3, <3>1, <3>2
    <3>6. QED
      BY <1>2, <1>4, <1>5, <3>1, <3>3, <3>4, <3>5 DEF InMemory, OnDevice
  <2>3. QED
    BY <2>1, <2>2
<1>11. Cardinality(InMemory') = Cardinality(InMemory) - 1
       /\ Cardinality(InMemory) \in 0 .. Count /\ Cardinality(InMemory) >= 1
  <2>1. Cardinality(InMemory') = Cardinality(InMemory) - 1 /\ Cardinality(InMemory) \in 0 .. Count
    BY <1>1, <1>2, <1>10, Counting
  <2>2. Cardinality(InMemory') \in 0 .. Count
    BY <1>2, <1>10, Counting
  <2>3. QED
    BY <2>1, <2>2, CountAssumption
<1>12. SpaceAccounted'
  <2>1. sb.used + Cardinality(InMemory) = Count /\ disk.used + Cardinality(OnDevice) = Count
    BY DEF Inv, SpaceAccounted
  <2>2. disk'.used + Cardinality(OnDevice') = Count
    BY <1>1, <1>10, <2>1
  <2>3. sb'.used + Cardinality(InMemory') = Count
    BY <1>2, <1>9, <1>11, <2>1, CountAssumption
  <2>4. QED
    BY <2>2, <2>3 DEF SpaceAccounted
<1>13. TypeOK'
  <2>1. sb' \in SuperBlock
    <3>1. sb.used + 1 \in 0 .. Count
      BY <1>2, <1>11, CountAssumption DEF Inv, SpaceAccounted
    <3>2. sb' = [fl_ptr |-> sb'.fl_ptr, used |-> sb'.used]
      BY <1>7 DEF TakeFrom
    <3>3. QED
      BY <1>9, <1>10, <3>1, <3>2 DEF SuperBlock
  <2>2. QED
    BY <1>1, <1>8, <1>10, <2>1 DEF Inv, TypeOK, NodeMap
<1>14. ListsWellFormed'
  BY <1>1, <1>8, <1>10 DEF ListsWellFormed, MemoryHead
<1>15. NoDoubleUse'
  <2>1. owned \cap InMemory = {} /\ owned \cap OnDevice = {}
    BY <1>1 DEF Inv, NoDoubleUse, Freeing
  <2>2. Freeing' = {} /\ Allocated' = {p}
    BY <1>8 DEF Freeing, Allocated
  <2>3. QED
    BY <1>1, <1>10, <2>1, <2>2 DEF NoDoubleUse
<1>16. SharedNodes'
  <2> SUFFICES ASSUME NEW i \in 1 .. Len(dchain)
               PROVE  \/ \E k \in 1 .. Len(chain') : dchain[i] = chain'[k]
                      \/ dchain[i] \notin InMemory'
    BY <1>1 DEF SharedNodes
  <2>1. CASE dchain[i] \notin InMemory
    BY <1>10, <2>1
  <2>2. CASE \E k \in 1 .. Len(chain) : dchain[i] = chain[k]
    <3>1. PICK k \in 1 .. Len(chain) : dchain[i] = chain[k]
      BY <2>2
    <3>2. CASE k = Len(chain)
      BY <1>4, <1>10, <3>1, <3>2
    <3>3. CASE k # Len(chain)
      <4>1. k \in 1 .. Len(chain) - 1 /\ k \in 1 .. Len(chain')
        BY <1>4, <1>10, <3>3
      <4>2. QED
        BY <1>10, <3>1, <4>1
    <3>4. QED
      BY <3>2, <3>3
  <2>3. QED
    BY <2>1, <2>2 DEF Inv, SharedNodes
<1>17. HeadHasRoom' /\ CallInProgress'
  BY <1>3, <1>8 DEF HeadHasRoom, CallInProgress
<1>18. QED
  BY <1>1, <1>7, <1>10, <1>12, <1>13, <1>14, <1>15, <1>16, <1>17 DEF Inv

(* The unit is returned and the super block on the device catches up.      *)
LEMMA FinishAllocateStep ==
    ASSUME Inv, FinishAllocate
    PROVE  Inv' /\ InMemory' = InMemory /\ OnDevice' = InMemory
<1> USE DEF FinishAllocate
<1>1. InMemory' = InMemory /\ OnDevice' = InMemory
  BY DEF InMemory, OnDevice
<1>2. op'.pc = "idle" /\ op' \in Call
  BY CountAssumption DEF Idle, Call
<1>3. op.unit \in Units /\ op.unit \notin InMemory /\ owned \cap InMemory = {}
  BY DEF Inv, CallInProgress, NoDoubleUse, Allocated, Freeing
<1>4. TypeOK'
  BY <1>2, <1>3 DEF Inv, TypeOK
<1>5. ListsWellFormed'
  BY <1>2 DEF Inv, ListsWellFormed, MemoryHead
<1>6. SpaceAccounted'
  BY <1>1 DEF Inv, SpaceAccounted
<1>7. NoDoubleUse'
  BY <1>1, <1>2, <1>3 DEF NoDoubleUse, Freeing, Allocated
<1>8. SharedNodes'
  BY DEF SharedNodes
<1>9. HeadHasRoom' /\ CallInProgress'
  BY <1>2 DEF HeadHasRoom, CallInProgress
<1>10. QED
  BY <1>1, <1>4, <1>5, <1>6, <1>7, <1>8, <1>9 DEF Inv

(* The head moves to a unit that is not in the list yet.                   *)
LEMMA FreeStep ==
    ASSUME Inv, NEW u \in Units, Free(u)
    PROVE  Inv' /\ InMemory' = InMemory /\ OnDevice' = OnDevice
<1> USE DEF Free
<1>1. InMemory' = InMemory /\ OnDevice' = OnDevice
  BY DEF InMemory, OnDevice
<1>2. op'.pc = "push" /\ op'.unit = u /\ op'.next_ptr = sb.fl_ptr /\ op' \in Call
  BY InvFacts, CountAssumption DEF Call, Steps, Units
<1>3. sb' \in SuperBlock /\ sb'.fl_ptr = u /\ sb'.used = sb.used
  BY CountAssumption DEF Inv, TypeOK, SuperBlock, Units
<1>4. TypeOK'
  BY <1>2, <1>3 DEF Inv, TypeOK
<1>5. ListsWellFormed'
  BY <1>2 DEF Inv, ListsWellFormed, MemoryHead
<1>6. SpaceAccounted'
  BY <1>1, <1>3 DEF Inv, SpaceAccounted
<1>7. NoDoubleUse' /\ HeadHasRoom' /\ CallInProgress'
  BY <1>1, <1>2, <1>3 DEF Inv, NoDoubleUse, Freeing, Allocated, HeadHasRoom, CallInProgress
<1>8. SharedNodes'
  BY <1>1 DEF Inv, SharedNodes
<1>9. QED
  BY <1>1, <1>4, <1>5, <1>6, <1>7, <1>8 DEF Inv

(* The freed unit enters the list in memory as its new head.               *)
LEMMA PushNodeStep ==
    ASSUME Inv, PushNode
    PROVE  /\ Inv'
           /\ op' = [op EXCEPT !.pc = "freeFlush"]
           /\ op.unit \in owned
           /\ InMemory' = InMemory \union {op.unit}
           /\ OnDevice' = OnDevice
<1> DEFINE u == op.unit
<1>1. /\ op.pc = "push" /\ u \in owned /\ sb.fl_ptr = u
      /\ node' = Push(node, u, op.next_ptr)
      /\ sb' = [sb EXCEPT !.used = sb.used - 1]
      /\ chain' = Append(chain, u)
      /\ op' = [op EXCEPT !.pc = "freeFlush"]
      /\ UNCHANGED <<disk, owned, dchain>>
  BY DEF PushNode, Push, Inv, CallInProgress
<1>2. /\ node \in NodeMap /\ chain \in Seq(Units) /\ dchain \in Seq(Units)
      /\ InMemory \subseteq Units /\ OnDevice \subseteq Units
      /\ sb.used \in 0 .. Count
  BY InvFacts
<1>3. u \in Units /\ u \notin InMemory /\ u \notin OnDevice
      /\ owned \cap InMemory = {} /\ owned \cap OnDevice = {}
  BY <1>1 DEF Inv, TypeOK, NoDoubleUse, Freeing
<1>4. IsList(node, op.next_ptr, chain) /\ IsList(node, disk.fl_ptr, dchain)
  BY <1>1 DEF Inv, ListsWellFormed, MemoryHead
<1>5. op'.pc = "freeFlush" /\ op'.unit = u /\ op' \in Call
  BY <1>1 DEF Inv, TypeOK, Call, Steps
<1>6. sb'.fl_ptr = u /\ sb'.used = sb.used - 1
  BY <1>1 DEF Inv, TypeOK, SuperBlock
<1>7. /\ node' \in NodeMap
      /\ IsList(node', u, chain')
      /\ FreeUnits(node', chain') = InMemory \union {u}
  BY <1>1, <1>2, <1>3, <1>4, PutFront DEF InMemory
<1>8. IsList(node', disk.fl_ptr, dchain) /\ FreeUnits(node', dchain) = OnDevice
  <2>1. \A i \in 1 .. Len(dchain) : dchain[i] \in OnDevice
    BY <1>2, <1>4, ListFacts DEF OnDevice
  <2>2. \A i \in 1 .. Len(dchain) : dchain[i] # u
    BY <1>3, <2>1
  <2>3. QED
    BY <1>1, <1>2, <1>3, <1>4, <2>2, Untouched DEF OnDevice, Push
<1>9. InMemory' = InMemory \union {u} /\ OnDevice' = OnDevice
  BY <1>1, <1>7, <1>8 DEF InMemory, OnDevice
<1>10. chain' \in Seq(Units) /\ Len(chain') = Len(chain) + 1 /\ Len(chain) \in Nat
       /\ \A k \in 1 .. Len(chain) : chain'[k] = chain[k]
  BY <1>1, <1>2, <1>3, ChainOps
<1>11. /\ Cardinality(InMemory') = Cardinality(InMemory) + 1
       /\ Cardinality(InMemory) \in 0 .. Count
       /\ Cardinality(InMemory) < Count
  BY <1>2, <1>3, <1>9, Counting
<1>12. SpaceAccounted' /\ sb.used - 1 \in 0 .. Count
  <2>1. sb.used + Cardinality(InMemory) = Count /\ disk.used + Cardinality(OnDevice) = Count
    BY DEF Inv, SpaceAccounted
  <2>2. disk'.used + Cardinality(OnDevice') = Count
    BY <1>1, <1>9, <2>1
  <2>3. sb'.used + Cardinality(InMemory') = Count /\ sb.used - 1 \in 0 .. Count
    <3>1. sb.used \in Nat /\ Cardinality(InMemory) \in Nat /\ Count \in Nat
      BY <1>2, <1>11, CountAssumption
    <3>2. (sb.used - 1) + (Cardinality(InMemory) + 1) = Count
      BY <2>1, <3>1
    <3>3. sb.used - 1 \in 0 .. Count
      BY <1>11, <2>1, <3>1
    <3>4. QED
      BY <1>6, <1>11, <3>2, <3>3
  <2>4. QED
    BY <2>2, <2>3 DEF SpaceAccounted
<1>13. TypeOK'
  <2>1. sb' \in SuperBlock
    BY <1>1, <1>12 DEF Inv, TypeOK, SuperBlock
  <2>2. QED
    BY <1>1, <1>5, <1>7, <1>10, <2>1 DEF Inv, TypeOK, NodeMap
<1>14. ListsWellFormed'
  BY <1>1, <1>5, <1>6, <1>7, <1>8 DEF ListsWellFormed, MemoryHead
<1>15. NoDoubleUse'
  <2>1. Freeing' = {u} /\ Allocated' = {}
    BY <1>5 DEF Freeing, Allocated
  <2>2. QED
    BY <1>1, <1>3, <1>9, <2>1 DEF NoDoubleUse
<1>16. SharedNodes'
  <2> SUFFICES ASSUME NEW i \in 1 .. Len(dchain)
               PROVE  \/ \E k \in 1 .. Len(chain') : dchain[i] = chain'[k]
                      \/ dchain[i] \notin InMemory'
    BY <1>1 DEF SharedNodes
  <2>1. CASE dchain[i] \notin InMemory
    <3>1. dchain[i] # u
      BY <1>2, <1>3, <1>4, ListFacts DEF OnDevice
    <3>2. QED
      BY <1>9, <2>1, <3>1
  <2>2. CASE \E k \in 1 .. Len(chain) : dchain[i] = chain[k]
    BY <1>10, <2>2
  <2>3. QED
    BY <2>1, <2>2 DEF Inv, SharedNodes
<1>17. HeadHasRoom' /\ CallInProgress'
  BY <1>1, <1>5, <1>9 DEF HeadHasRoom, CallInProgress
<1>18. QED
  BY <1>1, <1>9, <1>12, <1>13, <1>14, <1>15, <1>16, <1>17 DEF Inv

(* The owner forgets the unit and the device catches up.                   *)
LEMMA FinishFreeStep ==
    ASSUME Inv, FinishFree
    PROVE  Inv' /\ InMemory' = InMemory /\ OnDevice' = InMemory
<1> USE DEF FinishFree
<1>1. InMemory' = InMemory /\ OnDevice' = InMemory
  BY DEF InMemory, OnDevice
<1>2. op'.pc = "idle" /\ op' \in Call
  BY CountAssumption DEF Idle, Call
<1>3. (owned \ {op.unit}) \cap InMemory = {}
  BY DEF Inv, NoDoubleUse, Freeing
<1>4. TypeOK'
  BY <1>2 DEF Inv, TypeOK
<1>5. ListsWellFormed'
  BY <1>2 DEF Inv, ListsWellFormed, MemoryHead
<1>6. SpaceAccounted'
  BY <1>1 DEF Inv, SpaceAccounted
<1>7. NoDoubleUse'
  BY <1>1, <1>2, <1>3 DEF NoDoubleUse, Freeing, Allocated
<1>8. SharedNodes'
  BY DEF SharedNodes
<1>9. HeadHasRoom' /\ CallInProgress'
  BY <1>2 DEF HeadHasRoom, CallInProgress
<1>10. QED
  BY <1>1, <1>4, <1>5, <1>6, <1>7, <1>8, <1>9 DEF Inv

(* The failures after which the super block in memory still leads to a     *)
(* list: reading or splitting a node, and flush_sb at the end of an        *)
(* allocation.                                                             *)
AllocFaultsOnly == Faults \subseteq {"walk", "allocFlush"}

(* A failed allocation leaves both lists as they are.                      *)
LEMMA DeviceErrorStep ==
    ASSUME AllocFaultsOnly, Inv, DeviceError
    PROVE  Inv' /\ InMemory' = InMemory /\ OnDevice' = OnDevice
<1> USE DEF DeviceError
<1>1. InMemory' = InMemory /\ OnDevice' = OnDevice
  BY DEF InMemory, OnDevice
<1>2. op'.pc = "idle" /\ op' \in Call
  BY CountAssumption DEF Idle, Call
<1>3. op.pc \in {"walk", "allocFlush"}
  BY DEF AllocFaultsOnly
<1>4. TypeOK'
  BY <1>2 DEF Inv, TypeOK
<1>5. ListsWellFormed'
  BY <1>2, <1>3 DEF Inv, ListsWellFormed, MemoryHead
<1>6. SpaceAccounted' /\ SharedNodes'
  BY <1>1 DEF Inv, SpaceAccounted, SharedNodes
<1>7. NoDoubleUse'
  BY <1>1, <1>2, <1>3 DEF Inv, NoDoubleUse, Freeing, Allocated
<1>8. HeadHasRoom' /\ CallInProgress'
  BY <1>2 DEF HeadHasRoom, CallInProgress
<1>9. QED
  BY <1>1, <1>4, <1>5, <1>6, <1>7, <1>8 DEF Inv

(* What an owner stores in its unit is invisible to both lists.            *)
LEMMA WriteUnitStep ==
    ASSUME Inv, NEW u \in Units, WriteUnit(u)
    PROVE  Inv' /\ InMemory' = InMemory /\ OnDevice' = OnDevice
<1> USE DEF WriteUnit
<1>1. /\ node \in NodeMap /\ chain \in Seq(Units) /\ dchain \in Seq(Units)
      /\ u \notin InMemory /\ u \notin OnDevice
      /\ IsList(node, MemoryHead, chain) /\ IsList(node, disk.fl_ptr, dchain)
  BY InvFacts DEF Inv, NoDoubleUse, Freeing, ListsWellFormed
<1>2. node' \in NodeMap
  BY <1>1 DEF NodeMap
<1>3. \A k \in 1 .. Len(chain) : chain[k] # u
  BY <1>1, ListFacts DEF InMemory
<1>4. \A k \in 1 .. Len(dchain) : dchain[k] # u
  BY <1>1, ListFacts DEF OnDevice
<1>5. IsList(node', MemoryHead, chain) /\ FreeUnits(node', chain) = InMemory
  BY <1>1, <1>3, Untouched DEF InMemory
<1>6. IsList(node', disk.fl_ptr, dchain) /\ FreeUnits(node', dchain) = OnDevice
  BY <1>1, <1>4, Untouched DEF OnDevice
<1>7. InMemory' = InMemory /\ OnDevice' = OnDevice
  BY <1>5, <1>6 DEF InMemory, OnDevice
<1>8. TypeOK'
  BY <1>2 DEF Inv, TypeOK, NodeMap
<1>9. ListsWellFormed'
  BY <1>5, <1>6 DEF ListsWellFormed, MemoryHead
<1>10. SpaceAccounted' /\ SharedNodes'
  BY <1>7 DEF Inv, SpaceAccounted, SharedNodes
<1>11. NoDoubleUse' /\ HeadHasRoom' /\ CallInProgress'
  BY <1>7 DEF Inv, NoDoubleUse, Freeing, Allocated, HeadHasRoom, CallInProgress
<1>12. QED
  BY <1>7, <1>8, <1>9, <1>10, <1>11 DEF Inv

(* The device catches up with memory between two calls.                    *)
LEMMA FlushForOtherRegionStep ==
    ASSUME Inv, FlushForOtherRegion
    PROVE  Inv' /\ InMemory' = InMemory /\ OnDevice' = InMemory
<1> USE DEF FlushForOtherRegion
<1>1. InMemory' = InMemory /\ OnDevice' = InMemory
  BY DEF InMemory, OnDevice
<1>2. TypeOK' /\ ListsWellFormed'
  BY DEF Inv, TypeOK, ListsWellFormed, MemoryHead
<1>3. SpaceAccounted' /\ SharedNodes'
  BY <1>1 DEF Inv, SpaceAccounted, SharedNodes
<1>4. NoDoubleUse' /\ HeadHasRoom' /\ CallInProgress'
  BY <1>1 DEF Inv, NoDoubleUse, Freeing, Allocated, HeadHasRoom, CallInProgress
<1>5. QED
  BY <1>1, <1>2, <1>3, <1>4 DEF Inv

(* After a crash the list on the device is the list in memory.             *)
LEMMA CrashStep ==
    ASSUME Inv, Crash
    PROVE  Inv' /\ InMemory' = OnDevice /\ OnDevice' = OnDevice
<1> USE DEF Crash
<1>1. InMemory' = OnDevice /\ OnDevice' = OnDevice
  BY DEF InMemory, OnDevice
<1>2. op'.pc = "idle" /\ op' \in Call
  BY CountAssumption DEF Idle, Call
<1>3. TypeOK' /\ ListsWellFormed'
  BY <1>2 DEF Inv, TypeOK, ListsWellFormed, MemoryHead
<1>4. SpaceAccounted' /\ SharedNodes'
  BY <1>1 DEF Inv, SpaceAccounted, SharedNodes
<1>5. NoDoubleUse' /\ HeadHasRoom' /\ CallInProgress'
  BY <1>1, <1>2 DEF Inv, NoDoubleUse, Freeing, Allocated, HeadHasRoom, CallInProgress
<1>6. QED
  BY <1>1, <1>3, <1>4, <1>5 DEF Inv

(* A step in which nothing happens.                                        *)
LEMMA StutterStep ==
    ASSUME Inv, UNCHANGED vars
    PROVE  Inv'
<1>1. InMemory' = InMemory /\ OnDevice' = OnDevice
  BY DEF vars, InMemory, OnDevice
<1>2. TypeOK' /\ ListsWellFormed'
  BY DEF vars, Inv, TypeOK, ListsWellFormed, MemoryHead
<1>3. SpaceAccounted' /\ SharedNodes'
  BY <1>1 DEF vars, Inv, SpaceAccounted, SharedNodes
<1>4. NoDoubleUse' /\ HeadHasRoom' /\ CallInProgress'
  BY <1>1 DEF vars, Inv, NoDoubleUse, Freeing, Allocated, HeadHasRoom, CallInProgress
<1>5. QED
  BY <1>2, <1>3, <1>4 DEF Inv

(* Every step of the allocator preserves the invariant.                    *)
LEMMA NextInv ==
    ASSUME AllocFaultsOnly, Inv, [Next]_vars
    PROVE  Inv'
<1>1. CASE Allocate
  BY <1>1, AllocateStep
<1>2. CASE AllocateFromFree
  BY <1>2, AllocateFromFreeStep
<1>3. CASE FinishAllocate
  BY <1>3, FinishAllocateStep
<1>4. CASE \E u \in Units : Free(u)
  BY <1>4, FreeStep
<1>5. CASE PushNode
  BY <1>5, PushNodeStep
<1>6. CASE FinishFree
  BY <1>6, FinishFreeStep
<1>7. CASE DeviceError
  BY <1>7, DeviceErrorStep
<1>8. CASE \E u \in Units : WriteUnit(u)
  BY <1>8, WriteUnitStep
<1>9. CASE FlushForOtherRegion
  BY <1>9, FlushForOtherRegionStep
<1>10. CASE Crash
  BY <1>10, CrashStep
<1>11. CASE UNCHANGED vars
  BY <1>11, StutterStep
<1>12. QED
  BY <1>1, <1>2, <1>3, <1>4, <1>5, <1>6, <1>7, <1>8, <1>9, <1>10, <1>11 DEF Next

(* The inductive invariant holds whatever calls, crashes and failed        *)
(* allocations happen, in a region of any size.                            *)
THEOREM InvHolds ==
    ASSUME AllocFaultsOnly
    PROVE  Spec => []Inv
<1>1. Init => Inv
  BY InitInv
<1>2. Inv /\ [Next]_vars => Inv'
  BY NextInv
<1>3. QED
  BY <1>1, <1>2, PTL DEF Spec

(* Pointers stay in their region and the used counters never wrap.         *)
THEOREM TypeCorrect ==
    ASSUME AllocFaultsOnly
    PROVE  Spec => []TypeOK
<1>1. Inv => TypeOK
  BY DEF Inv
<1>2. QED
  BY <1>1, InvHolds, PTL

(* Both super blocks always lead to a well-formed list, also when a crash  *)
(* falls inside a call.                                                    *)
THEOREM ListsSafe ==
    ASSUME AllocFaultsOnly
    PROVE  Spec => []ListsWellFormed
<1>1. Inv => ListsWellFormed
  BY DEF Inv
<1>2. QED
  BY <1>1, InvHolds, PTL

(* The counters agree with the lists: no unit is lost, and Exhausted is    *)
(* returned exactly when no unit is left.                                  *)
THEOREM CountersExact ==
    ASSUME AllocFaultsOnly
    PROVE  Spec => []SpaceAccounted
<1>1. Inv => SpaceAccounted
  BY DEF Inv
<1>2. QED
  BY <1>1, InvHolds, PTL

(* No unit is handed out twice or found on a free list while in use.       *)
THEOREM UnitsSafe ==
    ASSUME AllocFaultsOnly
    PROVE  Spec => []NoDoubleUse
<1>1. Inv => NoDoubleUse
  BY DEF Inv
<1>2. QED
  BY <1>1, InvHolds, PTL

(* The first node of the list always serves the allocation.                *)
THEOREM SearchStopsAtHead ==
    ASSUME AllocFaultsOnly
    PROVE  Spec => []HeadHasRoom
<1>1. Inv => HeadHasRoom
  BY DEF Inv
<1>2. QED
  BY <1>1, InvHolds, PTL

-----------------------------------------------------------------------------
(* A freshly formatted region is entirely free for the abstract allocator. *)
LEMMA InitRefines == Init => Abs!Init
<1> SUFFICES ASSUME Init PROVE Abs!Init
  OBVIOUS
<1>1. node[1] = [next_ptr |-> 0, size |-> Count] /\ chain = <<1>> /\ dchain = <<1>>
  BY CountAssumption DEF Init, Units
<1>2. Extent(node, 1) = Units
  BY <1>1, CountAssumption DEF Extent, Units
<1>3. InMemory = Units /\ OnDevice = Units
  <2>1. Len(<<1>>) = 1 /\ <<1>>[1] = 1 /\ \A k \in 1 .. Len(<<1>>) : k = 1
    OBVIOUS
  <2>2. FreeUnits(node, <<1>>) = Units
    BY <1>2, <2>1 DEF FreeUnits
  <2>3. QED
    BY <1>1, <2>2 DEF InMemory, OnDevice
<1>4. owned = {} /\ Freeing = {} /\ Allocated = {}
  BY DEF Init, Idle, Freeing, Allocated
<1>5. QED
  BY <1>3, <1>4 DEF Abs!Init

(* Every step of the list is a step of the abstract allocator.             *)
LEMMA NextRefines ==
    ASSUME AllocFaultsOnly, Inv, [Next]_vars
    PROVE  [Abs!Next]_(Abs!vars)
<1> DEFINE moving == Freeing \union Allocated
<1> USE DEF Abs!vars
<1>1. CASE Allocate
  <2>1. moving' = moving /\ owned' = owned
    BY <1>1 DEF Allocate, Freeing, Allocated
  <2>2. QED
    BY <1>1, <2>1, AllocateStep
<1>2. CASE AllocateFromFree
  <2>1. op.pc = "walk" /\ owned' = owned /\ op \in Call
    BY <1>2 DEF AllocateFromFree, Inv, TypeOK
  <2>2. op'.pc = "allocFlush" /\ op'.unit = op.unit
    BY <1>2, <2>1, AllocateFromFreeStep DEF Call
  <2>3. moving = {} /\ moving' = {op.unit}
    BY <2>1, <2>2 DEF Freeing, Allocated
  <2>4. op.unit \in Units
    BY <1>2, AllocateFromFreeStep, InvFacts
  <2>5. Abs!Take(op.unit)
    BY <1>2, <2>1, <2>3, AllocateFromFreeStep DEF Abs!Take
  <2>6. QED
    BY <2>4, <2>5 DEF Abs!Next
<1>3. CASE FinishAllocate
  <2>1. moving = {op.unit} /\ moving' = {} /\ op.unit \notin InMemory
    BY <1>3 DEF FinishAllocate, Freeing, Allocated, Idle, Inv, NoDoubleUse
  <2>2. owned' = owned \union {op.unit}
    BY <1>3 DEF FinishAllocate
  <2>3. Abs!Settle
    BY <1>3, <2>1, <2>2, FinishAllocateStep DEF Abs!Settle
  <2>4. QED
    BY <2>3 DEF Abs!Next
<1>4. CASE \E u \in Units : Free(u)
  <2>1. PICK u \in Units : Free(u)
    BY <1>4
  <2>2. moving' = moving /\ owned' = owned
    BY <2>1 DEF Free, Freeing, Allocated
  <2>3. QED
    BY <2>1, <2>2, FreeStep
<1>5. CASE PushNode
  <2>1. op.pc = "push" /\ owned' = owned /\ op \in Call
    BY <1>5 DEF PushNode, Inv, TypeOK
  <2>2. op'.pc = "freeFlush" /\ op'.unit = op.unit
    BY <1>5, <2>1, PushNodeStep DEF Call
  <2>3. moving = {} /\ moving' = {op.unit}
    BY <2>1, <2>2 DEF Freeing, Allocated
  <2>4. op.unit \in Units
    BY <1>5, PushNodeStep DEF Inv, TypeOK
  <2>5. Abs!Give(op.unit)
    BY <1>5, <2>1, <2>3, PushNodeStep DEF Abs!Give
  <2>6. QED
    BY <2>4, <2>5 DEF Abs!Next
<1>6. CASE FinishFree
  <2>1. moving = {op.unit} /\ moving' = {} /\ owned' = owned \ {op.unit}
    BY <1>6 DEF FinishFree, Freeing, Allocated, Idle
  <2>2. op.unit \in InMemory
    BY <1>6 DEF FinishFree, Inv, CallInProgress
  <2>3. Abs!Settle
    BY <1>6, <2>1, <2>2, FinishFreeStep DEF Abs!Settle
  <2>4. QED
    BY <2>3 DEF Abs!Next
<1>7. CASE DeviceError
  <2>1. op.pc \in {"walk", "allocFlush"} /\ owned' = owned
    BY <1>7 DEF DeviceError, AllocFaultsOnly
  <2>2. moving' = {}
    BY <1>7 DEF DeviceError, Idle, Freeing, Allocated
  <2>3. CASE op.pc = "walk"
    <3>1. moving = {}
      BY <2>3 DEF Freeing, Allocated
    <3>2. QED
      BY <1>7, <2>1, <2>2, <3>1, DeviceErrorStep
  <2>4. CASE op.pc = "allocFlush"
    <3>1. moving = {op.unit} /\ moving \cap InMemory = {}
      BY <2>4 DEF Freeing, Allocated, Inv, NoDoubleUse
    <3>2. Abs!Lose
      BY <1>7, <2>1, <2>2, <3>1, DeviceErrorStep DEF Abs!Lose
    <3>3. QED
      BY <3>2 DEF Abs!Next
  <2>5. QED
    BY <2>1, <2>3, <2>4
<1>8. CASE \E u \in Units : WriteUnit(u)
  <2>1. PICK u \in Units : WriteUnit(u)
    BY <1>8
  <2>2. moving' = moving /\ owned' = owned
    BY <2>1 DEF WriteUnit, Freeing, Allocated
  <2>3. QED
    BY <2>1, <2>2, WriteUnitStep
<1>9. CASE FlushForOtherRegion
  <2>1. moving = {} /\ moving' = {} /\ owned' = owned
    BY <1>9 DEF FlushForOtherRegion, Freeing, Allocated
  <2>2. Abs!Save
    BY <1>9, <2>1, FlushForOtherRegionStep DEF Abs!Save
  <2>3. QED
    BY <2>2 DEF Abs!Next
<1>10. CASE Crash
  <2>1. moving' = {} /\ owned' = owned
    BY <1>10 DEF Crash, Idle, Freeing, Allocated
  <2>2. Abs!Crash
    BY <1>10, <2>1, CrashStep DEF Abs!Crash
  <2>3. QED
    BY <2>2 DEF Abs!Next
<1>11. CASE UNCHANGED vars
  BY <1>11 DEF vars, InMemory, OnDevice, Freeing, Allocated
<1>12. QED
  BY <1>1, <1>2, <1>3, <1>4, <1>5, <1>6, <1>7, <1>8, <1>9, <1>10, <1>11 DEF Next

(* The free list in the free space implements the abstract allocator.      *)
THEOREM Refinement ==
    ASSUME AllocFaultsOnly
    PROVE  Spec => ImplementsAllocator
<1>1. Init => Abs!Init
  BY InitRefines
<1>2. Inv /\ [Next]_vars => [Abs!Next]_(Abs!vars)
  BY NextRefines
<1>3. QED
  BY <1>1, <1>2, InvHolds, PTL DEF Spec, ImplementsAllocator, Abs!Spec

-----------------------------------------------------------------------------
(***************************************************************************)
(* The counter of used units covers the units that callers can still give  *)
(* back, so the unchecked -= 1 of free_inode and free_db cannot wrap.  The *)
(* results above need the device to fail only during allocations; this one *)
(* holds also when the write of a freed node fails and the list is lost,   *)
(* which is when nothing else about the allocator does.                    *)
(***************************************************************************)
(* flush_sb at the end of free_* does not fail.  If it did, the counter    *)
(* would have been decremented for a unit that its owner keeps and may     *)
(* give back again.                                                        *)
FreesAreFlushed == "freeFlush" \notin Faults

Held == Cardinality(owned)

(* How far the counter in memory runs ahead of the owners: by one from the *)
(* counting of an allocated unit to its return, behind by one from the     *)
(* discounting of a freed unit to the owner's forgetting of it.            *)
CounterAhead ==
    /\ op.pc = "allocFlush" => Held + 1 <= sb.used
    /\ op.pc = "freeFlush"  => Held <= sb.used + 1
    /\ op.pc \notin {"allocFlush", "freeFlush"} => Held <= sb.used

(* The types of what a call works with; unlike in TypeOK nothing bounds    *)
(* the counters, and a lost list may hand out any number.                  *)
CallTypes ==
    /\ node \in [Units -> Node \union {Data}]
    /\ sb \in [fl_ptr : 0 .. Count, used : Nat]
    /\ disk \in [fl_ptr : 0 .. Count, used : Nat]
    /\ op \in Call
    /\ IsFiniteSet(owned)

(* The inductive invariant.  The counter on the device is what a crash     *)
(* returns to, so it has to cover the owners as well.                      *)
CounterInv ==
    /\ CallTypes
    /\ op.pc \in {"push", "freeFlush"} => op.unit \in owned
    /\ CounterAhead
    /\ Held <= disk.used

(* Giving a unit to its owner and taking it back, counted.                 *)
LEMMA HeldFacts ==
    ASSUME CounterInv
    PROVE  /\ Held \in Nat
           /\ \A u : /\ IsFiniteSet(owned \union {u})
                     /\ Cardinality(owned \union {u}) \in {Held, Held + 1}
           /\ \A u \in owned : /\ IsFiniteSet(owned \ {u})
                               /\ Cardinality(owned \ {u}) = Held - 1
                               /\ Held >= 1
<1>1. IsFiniteSet(owned) /\ Held \in Nat
  BY FS_CardinalityType DEF CounterInv, CallTypes, Held
<1>2. ASSUME NEW u
      PROVE  IsFiniteSet(owned \union {u}) /\ Cardinality(owned \union {u}) \in {Held, Held + 1}
  BY <1>1, FS_AddElement DEF Held
<1>3. ASSUME NEW u \in owned
      PROVE  IsFiniteSet(owned \ {u}) /\ Cardinality(owned \ {u}) = Held - 1
  BY <1>1, FS_RemoveElement DEF Held
<1>4. ASSUME NEW u \in owned PROVE Held >= 1
  <2>1. Held # 0
    BY <1>1, FS_EmptySet DEF Held
  <2>2. QED
    BY <1>1, <2>1
<1>5. QED
  BY <1>1, <1>2, <1>3, <1>4

(* Nothing is owned after format.                                          *)
LEMMA InitCounter == Init => CounterInv
<1> SUFFICES ASSUME Init PROVE CounterInv
  OBVIOUS
<1>1. Cardinality({}) = 0 /\ IsFiniteSet({})
  BY FS_EmptySet
<1>2. CallTypes
  BY <1>1, CountAssumption DEF Init, CallTypes, Idle, Call, Node, Units
<1>3. QED
  BY <1>1, <1>2 DEF Init, CounterInv, CounterAhead, Held, Idle

(* The search for a free node moves neither counter nor owners.            *)
LEMMA AllocateCounter ==
    ASSUME CounterInv, Allocate
    PROVE  CounterInv'
<1>1. CallTypes'
  BY CountAssumption DEF CounterInv, CallTypes, Allocate, Call, Steps
<1>2. QED
  BY <1>1 DEF CounterInv, CounterAhead, Held, Allocate

(* What is read as a node, lost list or not, is one.                       *)
LEMMA ReadsNode ==
    ASSUME CallTypes, NEW p, NEW fl \in ReadNode(p)
    PROVE  fl \in Node
  BY DEF CallTypes, ReadNode

(* Whatever node the search takes from, it counts the unit it takes.       *)
LEMMA AllocateFromFreeCounter ==
    ASSUME CounterInv, AllocateFromFree
    PROVE  CounterInv'
<1>1. Held \in Nat
  BY HeldFacts
<1>2. /\ op.pc = "walk" /\ op \in Call /\ Held <= sb.used
      /\ owned' = owned /\ disk' = disk
  BY DEF CounterInv, CallTypes, CounterAhead, AllocateFromFree
<1>3. PICK fl \in ReadNode(op.unit) :
         \/ /\ TakeFrom(op.unit, fl)
            /\ op' = [op EXCEPT !.pc = "allocFlush"]
         \/ /\ op' = [op EXCEPT !.unit = fl.next_ptr]
            /\ UNCHANGED <<node, sb>>
  BY DEF AllocateFromFree
<1>4. fl \in Node /\ CallTypes
  BY ReadsNode DEF CounterInv
<1>5. CASE /\ TakeFrom(op.unit, fl)
           /\ op' = [op EXCEPT !.pc = "allocFlush"]
  <2>1. op' \in Call /\ op'.pc = "allocFlush"
    BY <1>2, <1>5 DEF Call, Steps
  <2>2. sb' \in [fl_ptr : 0 .. Count, used : Nat] /\ sb'.used = sb.used + 1
    BY <1>4, <1>5 DEF TakeFrom, CallTypes, Node, Units
  <2>3. node' \in [Units -> Node \union {Data}]
    <3>1. fl.size > 1 => [fl EXCEPT !.size = fl.size - 1] \in Node
      BY <1>4, CountAssumption DEF Node
    <3>2. QED
      BY <1>4, <1>5, <3>1 DEF TakeFrom, CallTypes
  <2>4. CallTypes'
    BY <1>2, <1>4, <2>1, <2>2, <2>3 DEF CallTypes
  <2>5. QED
    BY <1>1, <1>2, <1>4, <2>1, <2>2, <2>4 DEF CounterInv, CounterAhead, CallTypes, Held
<1>6. CASE /\ op' = [op EXCEPT !.unit = fl.next_ptr]
           /\ UNCHANGED <<node, sb>>
  <2>1. op' \in Call /\ op'.pc = "walk"
    BY <1>2, <1>4, <1>6 DEF Call, Node
  <2>2. CallTypes'
    BY <1>2, <1>4, <1>6, <2>1 DEF CallTypes
  <2>3. QED
    BY <1>1, <1>2, <1>6, <2>1, <2>2 DEF CounterInv, CounterAhead, Held
<1>7. QED
  BY <1>3, <1>5, <1>6

(* The counter already counts the unit when its owner gets it.             *)
LEMMA FinishAllocateCounter ==
    ASSUME CounterInv, FinishAllocate
    PROVE  CounterInv'
<1>1. /\ Held \in Nat /\ Held + 1 <= sb.used
      /\ IsFiniteSet(owned') /\ Held' \in {Held, Held + 1}
  BY HeldFacts DEF FinishAllocate, CounterInv, CounterAhead, Held
<1>2. CallTypes' /\ op'.pc = "idle"
  BY <1>1, CountAssumption DEF CounterInv, CallTypes, FinishAllocate, Idle, Call
<1>3. sb' = sb /\ disk' = sb /\ sb.used \in Nat
  BY DEF CounterInv, CallTypes, FinishAllocate
<1>4. QED
  BY <1>1, <1>2, <1>3 DEF CounterInv, CounterAhead

(* Moving the head of the list does not touch the counter.                 *)
LEMMA FreeCounter ==
    ASSUME CounterInv, NEW u \in Units, Free(u)
    PROVE  CounterInv'
<1>1. CallTypes' /\ op'.pc = "push" /\ op'.unit \in owned'
  BY DEF CounterInv, CallTypes, Free, Call, Steps, Units
<1>2. sb'.used = sb.used /\ disk' = disk /\ owned' = owned
  BY DEF CounterInv, CallTypes, Free
<1>3. QED
  BY <1>1, <1>2 DEF CounterInv, CounterAhead, Held, Free

(* The only decrement: the freed unit is still owned, so the counter is    *)
(* at least one.                                                           *)
LEMMA PushNodeCounter ==
    ASSUME CounterInv, PushNode
    PROVE  CounterInv'
<1>1. op.pc = "push" /\ op.unit \in owned /\ op \in Call /\ Held <= sb.used
  BY DEF CounterInv, CallTypes, CounterAhead, PushNode
<1>2. Held \in Nat /\ Held >= 1
  BY <1>1, HeldFacts
<1>3. /\ sb' \in [fl_ptr : 0 .. Count, used : Nat]
      /\ sb'.used = sb.used - 1
  BY <1>1, <1>2 DEF CounterInv, CallTypes, PushNode
<1>4. op' \in Call /\ op'.pc = "freeFlush" /\ op'.unit = op.unit
  BY <1>1 DEF PushNode, Call, Steps
<1>5. node' \in [Units -> Node \union {Data}]
  <2>1. [next_ptr |-> op.next_ptr, size |-> 1] \in Node
    BY <1>1, CountAssumption DEF Call, Node
  <2>2. QED
    BY <2>1 DEF PushNode, CounterInv, CallTypes
<1>6. CallTypes'
  BY <1>3, <1>4, <1>5 DEF CounterInv, CallTypes, PushNode
<1>7. Held' = Held /\ disk' = disk /\ owned' = owned
  BY DEF PushNode, Held
<1>8. QED
  BY <1>1, <1>2, <1>3, <1>4, <1>6, <1>7 DEF CounterInv, CounterAhead, CallTypes

(* The owner forgets the unit that is no longer counted.                   *)
LEMMA FinishFreeCounter ==
    ASSUME CounterInv, FinishFree
    PROVE  CounterInv'
<1>1. op.unit \in owned /\ Held <= sb.used + 1
  BY DEF CounterInv, CounterAhead, FinishFree
<1>2. IsFiniteSet(owned') /\ Held' = Held - 1 /\ Held \in Nat /\ Held >= 1
  BY <1>1, HeldFacts DEF FinishFree, Held
<1>3. CallTypes' /\ op'.pc = "idle"
  BY <1>2, CountAssumption DEF CounterInv, CallTypes, FinishFree, Idle, Call
<1>4. sb' = sb /\ disk' = sb /\ sb.used \in Nat
  BY DEF CounterInv, CallTypes, FinishFree
<1>5. QED
  BY <1>1, <1>2, <1>3, <1>4 DEF CounterInv, CounterAhead

(* The error leaves the counter where it is, which only helps.             *)
LEMMA DeviceErrorCounter ==
    ASSUME FreesAreFlushed, CounterInv, DeviceError
    PROVE  CounterInv'
<1>1. op.pc # "freeFlush" /\ Held \in Nat
  BY HeldFacts DEF FreesAreFlushed, DeviceError
<1>2. CallTypes' /\ op'.pc = "idle"
  BY CountAssumption DEF CounterInv, CallTypes, DeviceError, Idle, Call
<1>3. Held <= sb.used
  BY <1>1 DEF CounterInv, CounterAhead, CallTypes
<1>4. QED
  BY <1>2, <1>3 DEF CounterInv, CounterAhead, Held, DeviceError

(* After a crash the counter is the one on the device.                     *)
LEMMA CrashCounter ==
    ASSUME CounterInv, Crash
    PROVE  CounterInv'
<1>1. CallTypes' /\ op'.pc = "idle" /\ sb' = disk /\ disk' = disk /\ owned' = owned
  BY CountAssumption DEF CounterInv, CallTypes, Crash, Idle, Call
<1>2. QED
  BY <1>1 DEF CounterInv, CounterAhead, Held

(* Writing a unit, flushing for the other region, and doing nothing.       *)
LEMMA OtherStepsCounter ==
    ASSUME CounterInv,
           (\E u \in Units : WriteUnit(u)) \/ FlushForOtherRegion \/ UNCHANGED vars
    PROVE  CounterInv'
<1>1. CASE \E u \in Units : WriteUnit(u)
  BY <1>1 DEF CounterInv, CallTypes, CounterAhead, Held, WriteUnit
<1>2. CASE FlushForOtherRegion
  <2>1. op.pc = "idle" /\ Held <= sb.used
    BY <1>2 DEF CounterInv, CounterAhead, FlushForOtherRegion
  <2>2. QED
    BY <1>2, <2>1 DEF CounterInv, CallTypes, CounterAhead, Held, FlushForOtherRegion
<1>3. CASE UNCHANGED vars
  BY <1>3 DEF CounterInv, CallTypes, CounterAhead, Held, vars
<1>4. QED
  BY <1>1, <1>2, <1>3

(* Every step of the allocator preserves the invariant.                    *)
LEMMA NextCounter ==
    ASSUME FreesAreFlushed, CounterInv, [Next]_vars
    PROVE  CounterInv'
  BY AllocateCounter, AllocateFromFreeCounter, FinishAllocateCounter, FreeCounter,
     PushNodeCounter, FinishFreeCounter, DeviceErrorCounter, CrashCounter,
     OtherStepsCounter DEF Next

(* used_inode_count and used_db_count are never below the number of units  *)
(* that can still be given back, so free_inode and free_db never decrement *)
(* a counter that is 0: for regions of any size, with crashes anywhere and *)
(* errors at any step but the last flush of free_*, also when the list in  *)
(* the free space is no list any more.                                     *)
THEOREM CounterNeverWraps ==
    ASSUME FreesAreFlushed
    PROVE  Spec => []CounterCoversOwned
<1>1. Init => CounterInv
  BY InitCounter
<1>2. CounterInv /\ [Next]_vars => CounterInv'
  BY NextCounter
<1>3. CounterInv => CounterCoversOwned
  BY HeldFacts DEF CounterInv, CounterAhead, CallTypes, CounterCoversOwned, Held
<1>4. QED
  BY <1>1, <1>2, <1>3, PTL DEF Spec
=============================================================================
