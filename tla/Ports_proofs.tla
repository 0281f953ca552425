---------------------------- MODULE Ports_proofs ----------------------------
(***************************************************************************)
(* The lock-free ring buffer under any number of ports: proof that each    *)
(* element has one owner, that a writer finds an element if there are      *)
(* enough of them, that the counter of overruns never claims too much, and *)
(* that samples of one writer are read in the order they were written.     *)
(*                                                                         *)
(* A step moves one element of one buffer: from the free ones or the queue *)
(* to a port (TakeStep) or back (GiveStep); all others leave the elements  *)
(* where they are (QuietStep).  The last part is about the arrays of       *)
(* connections, which a disconnect repacks.                                *)
(***************************************************************************)
EXTENDS Ports, FiniteSetTheorems, WellFoundedInduction, TLAPS

Holding == {"count", "store", "copy", "put"}

PortTypes ==
  /\ DOMAIN conns = Ports
  /\ pc \in [Ports -> Holding \cup {"idle", "loop"}]
  /\ pos \in [Ports -> Nat] /\ elem \in [Ports -> Nat]
  /\ free \in [Cyclics -> SUBSET Nat]
  /\ DOMAIN queue = Iblocks /\ \A b \in Cyclics : queue[b] \in Seq(Nat)
  /\ overruns \in [Cyclics -> Nat] /\ lost \in [Cyclics -> Nat]
  /\ seenOverruns \in [Outs -> Nat]

\* a port that holds an element is at a ring buffer that takes its samples
HoldersFit ==
  \A p \in Ports : pc[p] \in Holding =>
    /\ Target(p) \in Cyclics /\ <<p, Target(p)>> \in Fits
    /\ pc[p] \in {"count", "store"} => p \in Outs

PInv == PortTypes /\ HoldersFit /\ ElementsOwned

-----------------------------------------------------------------------------
(* Sequences and sets.                                                      *)

LEMMA HeadAndTail ==
  ASSUME NEW S, NEW s \in Seq(S), s # <<>>
  PROVE  /\ Head(s) \in S /\ Tail(s) \in Seq(S)
         /\ Len(s) \in Nat /\ Len(s) = Len(Tail(s)) + 1
         /\ ToSet(s) = {Head(s)} \cup ToSet(Tail(s))
<1>1. /\ Head(s) \in S /\ Tail(s) \in Seq(S)
      /\ Len(s) \in Nat /\ Len(s) >= 1 /\ Len(Tail(s)) = Len(s) - 1
      /\ DOMAIN s = 1 .. Len(s) /\ DOMAIN Tail(s) = 1 .. Len(s) - 1
      /\ s[1] = Head(s)
      /\ \A i \in 1 .. Len(s) - 1 : Tail(s)[i] = s[i + 1]
  OBVIOUS
<1>2. ASSUME NEW x \in ToSet(s) PROVE x \in {Head(s)} \cup ToSet(Tail(s))
  <2>1. PICK i \in 1 .. Len(s) : x = s[i]
    BY <1>1, <1>2 DEF ToSet
  <2>2. CASE i = 1
    BY <1>1, <2>1, <2>2
  <2>3. CASE i # 1
    <3>1. i - 1 \in DOMAIN Tail(s) /\ Tail(s)[i - 1] = s[i]
      BY <1>1, <2>3
    <3> QED
      BY <2>1, <3>1 DEF ToSet
  <2> QED
    BY <2>2, <2>3
<1>3. ASSUME NEW x \in {Head(s)} \cup ToSet(Tail(s)) PROVE x \in ToSet(s)
  <2>1. CASE x = Head(s)
    <3>1. 1 \in DOMAIN s
      BY <1>1
    <3> QED
      BY <1>1, <2>1, <3>1 DEF ToSet
  <2>2. CASE x # Head(s)
    <3>1. PICK i \in 1 .. Len(s) - 1 : x = Tail(s)[i]
      BY <1>1, <1>3, <2>2 DEF ToSet
    <3>2. i + 1 \in DOMAIN s /\ x = s[i + 1]
      BY <1>1, <3>1
    <3> QED
      BY <3>2 DEF ToSet
  <2> QED
    BY <2>1, <2>2
<1> QED
  BY <1>1, <1>2, <1>3

LEMMA Appended ==
  ASSUME NEW S, NEW s \in Seq(S), NEW e \in S
  PROVE  /\ Append(s, e) \in Seq(S)
         /\ Len(s) \in Nat /\ Len(Append(s, e)) = Len(s) + 1
         /\ ToSet(Append(s, e)) = ToSet(s) \cup {e}
<1>1. /\ Append(s, e) \in Seq(S) /\ Len(s) \in Nat /\ Len(Append(s, e)) = Len(s) + 1
      /\ DOMAIN s = 1 .. Len(s) /\ DOMAIN Append(s, e) = 1 .. Len(s) + 1
      /\ Append(s, e)[Len(s) + 1] = e
      /\ \A i \in 1 .. Len(s) : Append(s, e)[i] = s[i]
  OBVIOUS
<1>2. ASSUME NEW x \in ToSet(Append(s, e)) PROVE x \in ToSet(s) \cup {e}
  <2>1. PICK i \in 1 .. Len(s) + 1 : x = Append(s, e)[i]
    BY <1>1, <1>2 DEF ToSet
  <2>2. i \in 1 .. Len(s) \/ i = Len(s) + 1
    BY <1>1
  <2> QED
    BY <1>1, <2>1, <2>2 DEF ToSet
<1>3. ASSUME NEW x \in ToSet(s) \cup {e} PROVE x \in ToSet(Append(s, e))
  <2>1. CASE x = e
    <3>1. Len(s) + 1 \in DOMAIN Append(s, e)
      BY <1>1
    <3> QED
      BY <1>1, <2>1, <3>1 DEF ToSet
  <2>2. CASE x \in ToSet(s)
    <3>1. PICK i \in 1 .. Len(s) : x = s[i]
      BY <1>1, <2>2 DEF ToSet
    <3>2. i \in DOMAIN Append(s, e) /\ x = Append(s, e)[i]
      BY <1>1, <3>1
    <3> QED
      BY <3>2 DEF ToSet
  <2> QED
    BY <1>3, <2>1, <2>2
<1> QED
  BY <1>1, <1>2, <1>3

LEMMA HoldersFinite ==
  ASSUME NEW b
  PROVE  IsFiniteSet(Holders(b)) /\ Cardinality(Holders(b)) \in Nat
<1>1. Holders(b) \in SUBSET Ports
  BY DEF Holders
<1> QED
  BY <1>1, PortsAssumption, FS_Subset, FS_CardinalityType DEF PortsAssumption

LEMMA ElementsFinite ==
  ASSUME ElementsOwned, NEW b \in Cyclics
  PROVE  /\ BufferLen[b] \in Nat
         /\ free[b] \subseteq Elements(b) /\ IsFiniteSet(free[b]) /\ Cardinality(free[b]) \in Nat
<1>1. BufferLen[b] \in Nat
  BY PortsAssumption DEF PortsAssumption, Iblocks
<1>2. IsFiniteSet(Elements(b))
  BY <1>1, FS_Interval DEF Elements
<1>3. free[b] \in SUBSET Elements(b)
  BY DEF ElementsOwned
<1> QED
  BY <1>1, <1>2, <1>3, FS_Subset, FS_CardinalityType

-----------------------------------------------------------------------------
(* The elements.                                                            *)

OthersStay(p) ==
  \A q \in Ports \ {p} : pc'[q] = pc[q] /\ pos'[q] = pos[q] /\ conns'[q] = conns[q]

\* Who holds elements of b after a step of the thread of p.
LEMMA HoldersAfter ==
  ASSUME NEW p \in Ports, OthersStay(p), NEW b
  PROVE  Holders(b)' = IF pc'[p] \in Holding /\ Target(p)' = b
                       THEN Holders(b) \cup {p} ELSE Holders(b) \ {p}
BY DEF OthersStay, Holders, Target, Holding

\* Nothing moves.
LEMMA QuietStep ==
  ASSUME PInv, NEW p \in Ports, OthersStay(p),
         free' = free, elem' = elem, \A b \in Cyclics : queue'[b] = queue[b],
         pc'[p] \in Holding <=> pc[p] \in Holding,
         pc[p] \in Holding => Target(p)' = Target(p)
  PROVE  ElementsOwned' /\ \A b \in Cyclics : Holders(b)' = Holders(b)
<1>1. ASSUME NEW b \in Cyclics PROVE Holders(b)' = Holders(b)
  <2>1. p \in Holders(b) <=> pc[p] \in Holding /\ Target(p) = b
    BY DEF Holders, Holding
  <2>2. Holders(b)' = IF pc'[p] \in Holding /\ Target(p)' = b
                      THEN Holders(b) \cup {p} ELSE Holders(b) \ {p}
    BY HoldersAfter
  <2> QED
    BY <2>1, <2>2
<1>2. ASSUME NEW b \in Cyclics
      PROVE  /\ (free[b] \cup ToSet(queue[b]) \cup {elem[q] : q \in Holders(b)} = Elements(b))'
             /\ (Cardinality(free[b]) + Len(queue[b]) + Cardinality(Holders(b)) = BufferLen[b])'
  BY <1>1, <1>2 DEF PInv, ElementsOwned, Elements
<1> QED
  BY <1>1, <1>2 DEF ElementsOwned

\* An element of b goes to p.
LEMMA TakeStep ==
  ASSUME PInv, NEW p \in Ports, OthersStay(p), NEW b \in Cyclics, NEW e \in Nat,
         pc[p] \notin Holding, pc'[p] \in Holding, Target(p)' = b,
         elem' = [elem EXCEPT ![p] = e],
         \A c \in Cyclics \ {b} : free'[c] = free[c] /\ queue'[c] = queue[c],
         \/ /\ e \in free[b] /\ free'[b] = free[b] \ {e} /\ queue'[b] = queue[b]
         \/ /\ queue[b] # <<>> /\ e = Head(queue[b]) /\ queue'[b] = Tail(queue[b])
            /\ free'[b] = free[b]
  PROVE  /\ ElementsOwned'
         /\ \A c \in Cyclics : Holders(c)' = IF c = b THEN Holders(c) \cup {p} ELSE Holders(c)
         /\ p \notin Holders(b)
<1>1. \A c : p \notin Holders(c)
  BY DEF Holders, Holding
<1>2. ASSUME NEW c \in Cyclics
      PROVE  Holders(c)' = IF c = b THEN Holders(c) \cup {p} ELSE Holders(c)
  <2>1. Holders(c)' = IF pc'[p] \in Holding /\ Target(p)' = c
                      THEN Holders(c) \cup {p} ELSE Holders(c) \ {p}
    BY HoldersAfter
  <2> QED
    BY <1>1, <2>1
<1>3. \A q \in Ports : elem'[q] = IF q = p THEN e ELSE elem[q]
  BY DEF PInv, PortTypes
<1>4. \A c : Holders(c) \subseteq Ports
  BY DEF Holders
<1>5. ASSUME NEW c \in Cyclics \ {b}
      PROVE  /\ (free[c] \cup ToSet(queue[c]) \cup {elem[q] : q \in Holders(c)} = Elements(c))'
             /\ (Cardinality(free[c]) + Len(queue[c]) + Cardinality(Holders(c)) = BufferLen[c])'
  <2>1. Holders(c)' = Holders(c) /\ free'[c] = free[c] /\ queue'[c] = queue[c]
    BY <1>2
  <2>2. \A q \in Holders(c) : elem'[q] = elem[q]
    BY <1>1, <1>3, <1>4
  <2> QED
    BY <2>1, <2>2 DEF PInv, ElementsOwned, Elements
<1>6. Cardinality(Holders(b) \cup {p}) = Cardinality(Holders(b)) + 1
  BY <1>1, HoldersFinite, FS_AddElement
<1>7. Cardinality(Holders(b)) \in Nat
  BY HoldersFinite
<1>8. /\ IsFiniteSet(free[b]) /\ Cardinality(free[b]) \in Nat /\ BufferLen[b] \in Nat
  BY ElementsFinite DEF PInv
<1>9. /\ free[b] \cup ToSet(queue[b]) \cup {elem[q] : q \in Holders(b)} = Elements(b)
      /\ Cardinality(free[b]) + Len(queue[b]) + Cardinality(Holders(b)) = BufferLen[b]
  BY DEF PInv, ElementsOwned
<1>10. Holders(b)' = Holders(b) \cup {p}
  BY <1>2
<1>11. {elem'[q] : q \in Holders(b)'} = {elem[q] : q \in Holders(b)} \cup {e}
  BY <1>1, <1>3, <1>4, <1>10
<1>12. /\ free'[b] \cup ToSet(queue'[b]) \cup {elem'[q] : q \in Holders(b)'} = Elements(b)
       /\ Cardinality(free'[b]) + Len(queue'[b]) + Cardinality(Holders(b)') = BufferLen[b]
  <2>1. CASE e \in free[b] /\ free'[b] = free[b] \ {e} /\ queue'[b] = queue[b]
    <3>1. Cardinality(free'[b]) = Cardinality(free[b]) - 1
      <4>1. Cardinality(free[b] \ {e}) = Cardinality(free[b]) - 1
        BY <1>8, <2>1, FS_RemoveElement
      <4> QED
        BY <2>1, <4>1
    <3>2. Len(queue[b]) \in Nat
      BY DEF PInv, PortTypes
    <3>3. free'[b] \cup {e} = free[b]
      BY <2>1
    <3>4. free'[b] \cup ToSet(queue'[b]) \cup {elem'[q] : q \in Holders(b)'} = Elements(b)
      BY <1>9, <1>11, <2>1, <3>3
    <3>5. Cardinality(free'[b]) + Len(queue'[b]) + Cardinality(Holders(b)') = BufferLen[b]
      BY <1>6, <1>7, <1>8, <1>9, <1>10, <2>1, <3>1, <3>2
    <3> QED
      BY <3>4, <3>5
  <2>2. CASE /\ queue[b] # <<>> /\ e = Head(queue[b]) /\ queue'[b] = Tail(queue[b])
             /\ free'[b] = free[b]
    <3>1. /\ Len(queue[b]) \in Nat /\ Len(queue[b]) = Len(queue'[b]) + 1
          /\ ToSet(queue[b]) = {e} \cup ToSet(queue'[b]) /\ queue'[b] \in Seq(Nat)
      BY <2>2, HeadAndTail DEF PInv, PortTypes
    <3>2. Len(queue'[b]) \in Nat
      BY <3>1
    <3>3. free'[b] \cup ToSet(queue'[b]) \cup {elem'[q] : q \in Holders(b)'} = Elements(b)
      BY <1>9, <1>11, <2>2, <3>1
    <3>4. Cardinality(free'[b]) + Len(queue'[b]) + Cardinality(Holders(b)') = BufferLen[b]
      <4> DEFINE f == Cardinality(free[b])
                 l == Len(queue'[b])
                 h == Cardinality(Holders(b))
      <4>1. f \in Nat /\ l \in Nat /\ h \in Nat /\ f + (l + 1) + h = BufferLen[b]
        BY <1>7, <1>8, <1>9, <3>1, <3>2
      <4>2. Cardinality(free'[b]) = f /\ Cardinality(Holders(b)') = h + 1
        BY <1>6, <1>10, <2>2
      <4>3. f + l + (h + 1) = BufferLen[b]
        <5> HIDE DEF f, l, h
        <5> QED
          BY <4>1
      <4> QED
        BY <4>2, <4>3
    <3> QED
      BY <3>3, <3>4
  <2> QED
    BY <2>1, <2>2
<1> QED
  BY <1>1, <1>2, <1>5, <1>12 DEF ElementsOwned, Elements

LEMMA Counted ==
  ASSUME NEW n \in Nat
  PROVE  IsFiniteSet(1 .. n) /\ Cardinality(1 .. n) = n
<1>1. IsFiniteSet(1 .. n) /\ Cardinality(1 .. n) = IF 1 > n THEN 0 ELSE n - 1 + 1
  BY FS_Interval
<1> QED
  BY <1>1

LEMMA ImageCard ==
  ASSUME NEW S, IsFiniteSet(S), NEW f
  PROVE  /\ IsFiniteSet({f[x] : x \in S})
         /\ Cardinality({f[x] : x \in S}) <= Cardinality(S)
<1> DEFINE g == [x \in S |-> f[x]]
           T == {f[x] : x \in S}
<1>1. g \in Surjection(S, T)
  BY DEF Surjection
<1> HIDE DEF g
<1> QED
  BY <1>1, FS_Surjection

\* There are as many places as elements, so that no element has two places.
LEMMA OnePlace ==
  ASSUME PInv, NEW b \in Cyclics, NEW p \in Holders(b)
  PROVE  /\ elem[p] \notin free[b] /\ elem[p] \notin ToSet(queue[b])
         /\ \A q \in Holders(b) : q # p => elem[q] # elem[p]
<1> DEFINE H == Holders(b) \ {p}
           Q == ToSet(queue[b])
           E == {elem[q] : q \in H}
<1>1. SUFFICES ASSUME elem[p] \in (free[b] \cup Q) \cup E PROVE FALSE
  OBVIOUS
<1>2. (free[b] \cup Q) \cup E = Elements(b)
  <2>1. free[b] \cup Q \cup {elem[q] : q \in Holders(b)} = Elements(b)
    BY DEF PInv, ElementsOwned
  <2>2. {elem[q] : q \in Holders(b)} = E \cup {elem[p]}
    OBVIOUS
  <2> QED
    BY <1>1, <2>1, <2>2
<1>3. /\ Cardinality(free[b]) + Len(queue[b]) + Cardinality(Holders(b)) = BufferLen[b]
      /\ BufferLen[b] \in Nat /\ IsFiniteSet(free[b]) /\ Cardinality(free[b]) \in Nat
      /\ Len(queue[b]) \in Nat /\ DOMAIN queue[b] = 1 .. Len(queue[b])
  <2>1. Cardinality(free[b]) + Len(queue[b]) + Cardinality(Holders(b)) = BufferLen[b]
    BY DEF PInv, ElementsOwned
  <2>2. BufferLen[b] \in Nat /\ IsFiniteSet(free[b]) /\ Cardinality(free[b]) \in Nat
    BY ElementsFinite DEF PInv
  <2>3. queue[b] \in Seq(Nat)
    BY DEF PInv, PortTypes
  <2>4. Len(queue[b]) \in Nat /\ DOMAIN queue[b] = 1 .. Len(queue[b])
    BY <2>3
  <2> QED
    BY <2>1, <2>2, <2>4
<1>4. IsFiniteSet(H) /\ Cardinality(H) \in Nat /\ Cardinality(Holders(b)) = Cardinality(H) + 1
  <2>1. IsFiniteSet(Holders(b)) /\ Cardinality(Holders(b)) \in Nat /\ p \in Holders(b)
    BY HoldersFinite
  <2>2. IsFiniteSet(H) /\ Cardinality(H) = Cardinality(Holders(b)) - 1
    BY <2>1, FS_RemoveElement
  <2>3. Cardinality(H) \in Nat
    BY <2>2, FS_CardinalityType
  <2> HIDE DEF H
  <2> QED
    BY <2>1, <2>2, <2>3
<1>5. /\ IsFiniteSet(E) /\ Cardinality(E) \in Nat /\ Cardinality(E) <= Cardinality(H)
  BY <1>4, ImageCard, FS_CardinalityType
<1>6. IsFiniteSet(Q) /\ Cardinality(Q) \in Nat /\ Cardinality(Q) <= Len(queue[b])
  <2>1. IsFiniteSet(1 .. Len(queue[b])) /\ Cardinality(1 .. Len(queue[b])) = Len(queue[b])
    BY <1>3, Counted
  <2> QED
    BY <2>1, ImageCard, FS_CardinalityType DEF ToSet
<1>7. Cardinality(Elements(b)) = BufferLen[b]
  BY <1>3, Counted DEF Elements
<1> HIDE DEF H, Q, E
<1>8. /\ IsFiniteSet(free[b] \cup Q) /\ Cardinality(free[b] \cup Q) \in Nat
      /\ Cardinality(free[b] \cup Q) <= Cardinality(free[b]) + Cardinality(Q)
  <2>1. /\ IsFiniteSet(free[b] \cup Q)
        /\ Cardinality(free[b] \cup Q)
             = Cardinality(free[b]) + Cardinality(Q) - Cardinality(free[b] \cap Q)
    BY <1>3, <1>6, FS_Union
  <2>2. Cardinality(free[b] \cap Q) \in Nat /\ Cardinality(free[b] \cup Q) \in Nat
    BY <1>3, <2>1, FS_Intersection, FS_CardinalityType
  <2> QED
    BY <1>3, <1>6, <2>1, <2>2
<1>9. Cardinality((free[b] \cup Q) \cup E) <= Cardinality(free[b] \cup Q) + Cardinality(E)
  <2>1. Cardinality((free[b] \cup Q) \cup E)
          = Cardinality(free[b] \cup Q) + Cardinality(E) - Cardinality((free[b] \cup Q) \cap E)
    BY <1>5, <1>8, FS_Union
  <2>2. Cardinality((free[b] \cup Q) \cap E) \in Nat
    BY <1>8, FS_Intersection, FS_CardinalityType
  <2> QED
    BY <1>5, <1>8, <2>1, <2>2
<1> QED
  <2>1. Cardinality((free[b] \cup Q) \cup E) = BufferLen[b]
    BY <1>2, <1>7
  <2> DEFINE f == Cardinality(free[b])
             q == Cardinality(Q)
             e == Cardinality(E)
             l == Len(queue[b])
             h == Cardinality(H)
             u == Cardinality(free[b] \cup Q)
  <2>2. f \in Nat /\ q \in Nat /\ e \in Nat /\ l \in Nat /\ h \in Nat /\ u \in Nat
    BY <1>3, <1>4, <1>5, <1>6, <1>8
  <2>3. f + l + (h + 1) <= u + e
    BY <1>3, <1>4, <1>9, <2>1
  <2>4. u <= f + q /\ q <= l /\ e <= h
    BY <1>5, <1>6, <1>8
  <2> HIDE DEF f, q, e, l, h, u
  <2> QED
    BY <2>2, <2>3, <2>4

\* An element of b comes back from p.
LEMMA GiveStep ==
  ASSUME PInv, NEW p \in Ports, OthersStay(p), NEW b \in Cyclics,
         pc[p] \in Holding, pc'[p] \notin Holding, Target(p) = b,
         elem' = [elem EXCEPT ![p] = NoElement],
         \A c \in Cyclics \ {b} : free'[c] = free[c] /\ queue'[c] = queue[c],
         \/ free'[b] = free[b] /\ queue'[b] = Append(queue[b], elem[p])
         \/ free'[b] = free[b] \cup {elem[p]} /\ queue'[b] = queue[b]
  PROVE  ElementsOwned' /\ \A c \in Cyclics : Holders(c)' = Holders(c) \ {p}
<1>1. p \in Holders(b) /\ \A c \in Cyclics \ {b} : p \notin Holders(c)
  BY DEF Holders, Holding
<1>2. \A c \in Cyclics : Holders(c)' = Holders(c) \ {p}
  BY HoldersAfter
<1>3. \A q \in Ports : q # p => elem'[q] = elem[q]
  BY DEF PInv, PortTypes
<1>4. \A c : Holders(c) \subseteq Ports
  BY DEF Holders
<1>5. ASSUME NEW c \in Cyclics \ {b}
      PROVE  /\ (free[c] \cup ToSet(queue[c]) \cup {elem[q] : q \in Holders(c)} = Elements(c))'
             /\ (Cardinality(free[c]) + Len(queue[c]) + Cardinality(Holders(c)) = BufferLen[c])'
  <2>1. Holders(c)' = Holders(c)
    <3>1. p \notin Holders(c)
      BY <1>1
    <3>2. Holders(c)' = Holders(c) \ {p}
      BY <1>2
    <3> QED
      BY <3>1, <3>2
  <2>2. free'[c] = free[c] /\ queue'[c] = queue[c]
    BY <1>5
  <2>3. \A q \in Holders(c) : elem'[q] = elem[q]
    BY <1>1, <1>3, <1>4
  <2> QED
    BY <2>1, <2>2, <2>3 DEF PInv, ElementsOwned, Elements
<1>6. /\ Cardinality(Holders(b)) \in Nat /\ Cardinality(Holders(b)') \in Nat
      /\ Cardinality(Holders(b)') = Cardinality(Holders(b)) - 1
  BY <1>1, <1>2, HoldersFinite, FS_RemoveElement, FS_CardinalityType
<1>7. /\ IsFiniteSet(free[b]) /\ Cardinality(free[b]) \in Nat /\ BufferLen[b] \in Nat
      /\ queue[b] \in Seq(Nat) /\ Len(queue[b]) \in Nat /\ elem[p] \in Nat
  BY ElementsFinite DEF PInv, PortTypes
<1>8. free[b] \cup ToSet(queue[b]) \cup {elem[q] : q \in Holders(b)} = Elements(b)
  BY DEF PInv, ElementsOwned
<1>9. Cardinality(free[b]) + Len(queue[b]) + Cardinality(Holders(b)) = BufferLen[b]
  BY DEF PInv, ElementsOwned
<1>10. {elem'[q] : q \in Holders(b)'} \cup {elem[p]} = {elem[q] : q \in Holders(b)}
  BY <1>1, <1>2, <1>3, <1>4
<1>11. /\ free'[b] \cup ToSet(queue'[b]) = free[b] \cup ToSet(queue[b]) \cup {elem[p]}
       /\ Cardinality(free'[b]) + Len(queue'[b]) = Cardinality(free[b]) + Len(queue[b]) + 1
       /\ Cardinality(free'[b]) \in Nat /\ Len(queue'[b]) \in Nat
  <2>1. CASE free'[b] = free[b] /\ queue'[b] = Append(queue[b], elem[p])
    <3>1. /\ ToSet(queue'[b]) = ToSet(queue[b]) \cup {elem[p]}
          /\ Len(queue'[b]) = Len(queue[b]) + 1
      <4>1. /\ ToSet(Append(queue[b], elem[p])) = ToSet(queue[b]) \cup {elem[p]}
            /\ Len(Append(queue[b], elem[p])) = Len(queue[b]) + 1
        BY <1>7, Appended
      <4> QED
        BY <2>1, <4>1
    <3>2. Cardinality(free'[b]) = Cardinality(free[b])
      BY <2>1
    <3>3. free'[b] \cup ToSet(queue'[b]) = free[b] \cup ToSet(queue[b]) \cup {elem[p]}
      BY <2>1, <3>1
    <3>4. /\ Cardinality(free'[b]) + Len(queue'[b]) = Cardinality(free[b]) + Len(queue[b]) + 1
          /\ Cardinality(free'[b]) \in Nat /\ Len(queue'[b]) \in Nat
      <4> DEFINE f == Cardinality(free[b])
                 l == Len(queue[b])
      <4>1. f \in Nat /\ l \in Nat
        BY <1>7
      <4>2. Cardinality(free'[b]) = f /\ Len(queue'[b]) = l + 1
        BY <3>1, <3>2
      <4>3. f + (l + 1) = f + l + 1 /\ l + 1 \in Nat
        <5> HIDE DEF f, l
        <5> QED
          BY <4>1
      <4> QED
        BY <4>1, <4>2, <4>3
    <3> QED
      BY <3>3, <3>4
  <2>2. CASE free'[b] = free[b] \cup {elem[p]} /\ queue'[b] = queue[b]
    <3>1. elem[p] \notin free[b]
      BY <1>1, OnePlace
    <3>2. Cardinality(free'[b]) = Cardinality(free[b]) + 1
      <4>1. Cardinality(free[b] \cup {elem[p]}) = Cardinality(free[b]) + 1
        BY <1>7, <3>1, FS_AddElement
      <4> QED
        BY <2>2, <4>1
    <3> QED
      BY <1>7, <2>2, <3>2
  <2> QED
    BY <2>1, <2>2
<1>12. free'[b] \cup ToSet(queue'[b]) \cup {elem'[q] : q \in Holders(b)'} = Elements(b)
  BY <1>8, <1>10, <1>11
<1>13. Cardinality(free'[b]) + Len(queue'[b]) + Cardinality(Holders(b)') = BufferLen[b]
  BY <1>6, <1>7, <1>9, <1>11
<1> QED
  BY <1>2, <1>5, <1>12, <1>13 DEF ElementsOwned, Elements

-----------------------------------------------------------------------------
(* The actions.                                                             *)

\* the step does not count an overrun
Calm(p) ==
  /\ OthersStay(p)
  /\ pc[p] \notin {"count", "store"} /\ pc'[p] \notin {"count", "store"}
  /\ UNCHANGED <<overruns, lost, seenOverruns>>

LEMMA FitStep ==
  ASSUME HoldersFit, NEW p \in Ports, OthersStay(p),
         pc'[p] \in Holding => /\ Target(p)' \in Cyclics /\ <<p, Target(p)'>> \in Fits
                               /\ pc'[p] \in {"count", "store"} => p \in Outs
  PROVE  HoldersFit'
<1> SUFFICES ASSUME NEW q \in Ports, pc'[q] \in Holding
             PROVE  /\ Target(q)' \in Cyclics /\ <<q, Target(q)'>> \in Fits
                    /\ pc'[q] \in {"count", "store"} => q \in Outs
  BY DEF HoldersFit
<1>1. CASE q = p
  BY <1>1
<1>2. CASE q # p
  <2>1. pc'[q] = pc[q] /\ Target(q)' = Target(q)
    BY <1>2 DEF OthersStay, Target
  <2> QED
    BY <2>1 DEF HoldersFit
<1> QED
  BY <1>1, <1>2

\* A step outside of the ring buffers.
LEMMA OutsideStep ==
  ASSUME PInv, NEW p \in Ports, OthersStay(p),
         pc[p] \in {"idle", "loop"}, pc' \in [Ports -> Holding \cup {"idle", "loop"}],
         pc'[p] \in {"idle", "loop"}, DOMAIN conns' = Ports, pos' \in [Ports -> Nat],
         DOMAIN queue' = Iblocks, \A b \in Cyclics : queue'[b] = queue[b],
         UNCHANGED <<free, elem, overruns, lost, seenOverruns>>
  PROVE  PInv' /\ Calm(p)
<1>1. pc[p] \notin Holding /\ pc'[p] \notin Holding
  BY DEF Holding
<1>2. ElementsOwned'
  BY <1>1, QuietStep
<1>3. HoldersFit'
  BY <1>1, FitStep DEF PInv
<1>4. PortTypes'
  BY DEF PInv, PortTypes
<1> QED
  BY <1>2, <1>3, <1>4 DEF PInv, Calm

\* A step between taking an element and putting it.
LEMMA InsideStep ==
  ASSUME PInv, NEW p \in Ports, pc[p] \in Holding,
         NEW next \in Holding, pc' = [pc EXCEPT ![p] = next],
         next \in {"count", "store"} => p \in Outs,
         overruns' \in [Cyclics -> Nat], seenOverruns' \in [Outs -> Nat],
         UNCHANGED <<conns, pos, free, elem, queue, lost>>
  PROVE  PInv' /\ OthersStay(p)
<1>1. /\ pc' \in [Ports -> Holding \cup {"idle", "loop"}] /\ pc'[p] = next
      /\ \A q \in Ports \ {p} : pc'[q] = pc[q]
  BY DEF PInv, PortTypes
<1>2. OthersStay(p) /\ Target(p)' = Target(p)
  BY <1>1 DEF OthersStay, Target
<1>3. ElementsOwned'
  BY <1>1, <1>2, QuietStep
<1>4. HoldersFit'
  BY <1>1, <1>2, FitStep DEF PInv, HoldersFit
<1>5. PortTypes'
  BY <1>1 DEF PInv, PortTypes
<1> QED
  BY <1>2, <1>3, <1>4, <1>5 DEF PInv

\* Only the main thread changes the connections, and not those in use.
LEMMA MainSteps ==
  ASSUME PInv, NEW p \in Ports, NEW b \in Iblocks, Connect(p, b) \/ Disconnect(p, b)
  PROVE  PInv' /\ Calm(p)
<1>1. /\ pc[p] = "idle" /\ pc' = pc /\ pos' = pos /\ queue' = queue
      /\ UNCHANGED <<free, elem, overruns, lost, seenOverruns>>
      /\ DOMAIN conns' = Ports /\ \A q \in Ports \ {p} : conns'[q] = conns[q]
  <2>1. CASE Connect(p, b)
    BY <2>1 DEF Connect, bufVars, PInv, PortTypes
  <2>2. CASE Disconnect(p, b)
    BY <2>2 DEF Disconnect, bufVars, PInv, PortTypes
  <2> QED
    BY <2>1, <2>2
<1>2. OthersStay(p)
  BY <1>1 DEF OthersStay
<1>3. /\ pc \in [Ports -> Holding \cup {"idle", "loop"}] /\ pos \in [Ports -> Nat]
      /\ DOMAIN queue = Iblocks
  BY DEF PInv, PortTypes
<1> QED
  BY <1>1, <1>2, <1>3, OutsideStep

\* The loop over the connections, and the message queues.
LEMMA LoopSteps ==
  ASSUME PInv, NEW p \in Ports,
         \/ SkipTarget(p) \/ EndLoop(p) \/ NoData(p)
         \/ p \in Outs /\ (BeginWrite(p) \/ MqSend(p))
         \/ p \in Ins /\ (BeginRead(p) \/ MqReceive(p))
  PROVE  PInv' /\ Calm(p)
<1>1. /\ pc \in [Ports -> Holding \cup {"idle", "loop"}] /\ pos \in [Ports -> Nat]
      /\ DOMAIN queue = Iblocks /\ DOMAIN conns = Ports /\ pos[p] \in Nat
  BY DEF PInv, PortTypes
<1>2. /\ pc[p] \in {"idle", "loop"} /\ UNCHANGED <<free, elem, overruns, lost, seenOverruns>>
      /\ conns' = conns
      /\ \/ NextTarget(p) \/ Return(p)
         \/ pos' = [pos EXCEPT ![p] = 1] /\ pc' = [pc EXCEPT ![p] = "loop"]
  BY DEF SkipTarget, EndLoop, NoData, BeginRead, BeginWrite, MqSend, MqReceive, bufVars,
         mainVars, AtTarget
<1>3. \E n \in Nat, v \in {"idle", "loop"} : pos' = [pos EXCEPT ![p] = n] /\ pc' = [pc EXCEPT ![p] = v]
  BY <1>1, <1>2 DEF NextTarget, Return
<1>4. /\ pc' \in [Ports -> Holding \cup {"idle", "loop"}] /\ pos' \in [Ports -> Nat]
      /\ pc'[p] \in {"idle", "loop"}
      /\ \A q \in Ports \ {p} : pc'[q] = pc[q] /\ pos'[q] = pos[q]
  BY <1>1, <1>3
<1>5. OthersStay(p)
  BY <1>2, <1>4 DEF OthersStay
<1>6. DOMAIN queue' = Iblocks /\ \A b \in Cyclics : queue'[b] = queue[b]
  <2>1. CASE MqSend(p) \/ MqReceive(p)
    <3>1. Target(p) \in Mqueues /\ Target(p) \notin Cyclics
      BY <2>1, PortsAssumption DEF MqSend, MqReceive, AtTarget, PortsAssumption
    <3>2. DOMAIN queue' = DOMAIN queue /\ \A b \in Iblocks : b # Target(p) => queue'[b] = queue[b]
      BY <1>1, <2>1 DEF MqSend, MqReceive
    <3> QED
      BY <1>1, <3>1, <3>2 DEF Iblocks
  <2>2. CASE ~(MqSend(p) \/ MqReceive(p))
    BY <1>1, <2>2 DEF SkipTarget, EndLoop, NoData, BeginRead, BeginWrite, bufVars
  <2> QED
    BY <2>1, <2>2
<1> QED
  BY <1>1, <1>2, <1>4, <1>5, <1>6, OutsideStep

\* The copying of a sample.
LEMMA CopySteps ==
  ASSUME PInv, NEW p \in Ports, CopyIn(p) \/ CopyOut(p)
  PROVE  PInv' /\ Calm(p)
<1>1. /\ pc[p] = "copy" /\ pc' = [pc EXCEPT ![p] = "put"]
      /\ UNCHANGED <<conns, pos, free, elem, queue, overruns, lost, seenOverruns>>
  BY DEF CopyIn, CopyOut, mainVars, bufVars
<1>2. pc[p] \in Holding /\ "put" \in Holding /\ "put" \notin {"count", "store"}
  BY <1>1 DEF Holding
<1>3. overruns \in [Cyclics -> Nat] /\ seenOverruns \in [Outs -> Nat] /\ p \in DOMAIN pc
  BY DEF PInv, PortTypes
<1>4. PInv' /\ OthersStay(p)
  BY <1>1, <1>2, <1>3, InsideStep
<1>5. pc'[p] = "put"
  BY <1>1, <1>3
<1> QED
  BY <1>1, <1>4, <1>5 DEF Calm

\* The counting of an overrun.
LEMMA CountSteps ==
  ASSUME PInv, NEW o \in Outs, CountOverrun(o) \/ StoreOverrun(o)
  PROVE  PInv' /\ OthersStay(o) /\ Target(o) \in Cyclics /\ Target(o)' = Target(o)
<1>1. /\ pc[o] \in {"count", "store"} /\ o \in Ports
      /\ UNCHANGED <<conns, pos, free, elem, queue, lost>>
  BY DEF CountOverrun, StoreOverrun, mainVars, bufVars, Ports
<1>2. pc[o] \in Holding
  BY <1>1 DEF Holding
<1>3. Target(o) \in Cyclics
  BY <1>1, <1>2 DEF PInv, HoldersFit
<1>4. overruns \in [Cyclics -> Nat] /\ seenOverruns \in [Outs -> Nat]
  BY DEF PInv, PortTypes
<1>5. overruns' \in [Cyclics -> Nat] /\ seenOverruns' \in [Outs -> Nat]
  BY <1>3, <1>4 DEF CountOverrun, StoreOverrun, bufVars
<1>6. \E next \in Holding : pc' = [pc EXCEPT ![o] = next]
  BY DEF CountOverrun, StoreOverrun, Holding
<1>7. PInv' /\ OthersStay(o)
  BY <1>1, <1>2, <1>5, <1>6, InsideStep
<1> QED
  BY <1>1, <1>3, <1>7 DEF Target

\* The buffer takes the element from the free ones or from its queue.
LEMMA TakeSteps ==
  ASSUME PInv, NEW p \in Ports,
         \/ p \in Outs /\ (TakeFree(p) \/ TakeOldest(p))
         \/ p \in Ins /\ TakeRead(p)
  PROVE  /\ PInv' /\ OthersStay(p) /\ Target(p) \in Cyclics /\ Target(p)' = Target(p)
         /\ p \notin Holders(Target(p))
<1> DEFINE b == Target(p)
<1>1. /\ pc[p] = "loop" /\ b \in Cyclics /\ b \in Iblocks /\ <<p, b>> \in Fits
      /\ UNCHANGED <<conns, pos, overruns, seenOverruns>>
  BY DEF TakeFree, TakeOldest, TakeRead, AtTarget, mainVars, Iblocks
<1>2. /\ pc \in [Ports -> Holding \cup {"idle", "loop"}] /\ elem \in [Ports -> Nat]
      /\ free \in [Cyclics -> SUBSET Nat] /\ free[b] \subseteq Nat
      /\ DOMAIN queue = Iblocks /\ queue[b] \in Seq(Nat)
  BY <1>1 DEF PInv, PortTypes
<1>3. \E v \in Holding : /\ pc' = [pc EXCEPT ![p] = v]
                         /\ v \in {"count", "store"} => p \in Outs
  BY DEF TakeFree, TakeOldest, TakeRead, Holding
<1>4. /\ pc' \in [Ports -> Holding \cup {"idle", "loop"}] /\ pc'[p] \in Holding
      /\ pc'[p] \in {"count", "store"} => p \in Outs
      /\ \A q \in Ports \ {p} : pc'[q] = pc[q]
  BY <1>2, <1>3
<1>5. OthersStay(p) /\ Target(p)' = b
  BY <1>1, <1>4 DEF OthersStay, Target
<1>6. pc[p] \notin Holding /\ p \notin Holders(b)
  BY <1>1 DEF Holding, Holders
<1> HIDE DEF b
<1>7. \E e \in Nat :
        /\ elem' = [elem EXCEPT ![p] = e]
        /\ \A c \in Cyclics \ {b} : free'[c] = free[c] /\ queue'[c] = queue[c]
        /\ \/ /\ e \in free[b] /\ free'[b] = free[b] \ {e} /\ queue'[b] = queue[b]
           \/ /\ queue[b] # <<>> /\ e = Head(queue[b]) /\ queue'[b] = Tail(queue[b])
              /\ free'[b] = free[b]
        /\ free' \in [Cyclics -> SUBSET Nat]
        /\ DOMAIN queue' = Iblocks /\ queue'[b] \in Seq(Nat)
  <2>1. CASE TakeFree(p)
    <3>1. PICK e \in free[b] : /\ free' = [free EXCEPT ![b] = @ \ {e}]
                               /\ elem' = [elem EXCEPT ![p] = e] /\ queue' = queue
      BY <2>1 DEF TakeFree, b
    <3> QED
      BY <1>1, <1>2, <3>1
  <2>2. CASE TakeOldest(p) \/ TakeRead(p)
    <3>1. /\ queue[b] # <<>> /\ free' = free /\ elem' = [elem EXCEPT ![p] = Head(queue[b])]
          /\ queue' = [queue EXCEPT ![b] = Tail(@)]
      BY <2>2 DEF TakeOldest, TakeRead, b
    <3>2. Head(queue[b]) \in Nat /\ Tail(queue[b]) \in Seq(Nat)
      BY <1>2, <3>1, HeadAndTail
    <3>3. /\ DOMAIN queue' = Iblocks /\ queue'[b] = Tail(queue[b])
          /\ \A c \in Iblocks \ {b} : queue'[c] = queue[c]
      BY <1>1, <1>2, <3>1
    <3>4. \A c \in Cyclics \ {b} : free'[c] = free[c] /\ queue'[c] = queue[c]
      BY <3>1, <3>3 DEF Iblocks
    <3> QED
      BY <1>2, <3>1, <3>2, <3>3, <3>4
  <2> QED
    BY <2>1, <2>2
<1>8. ElementsOwned'
  BY <1>1, <1>4, <1>5, <1>6, <1>7, TakeStep
<1>9. HoldersFit'
  BY <1>1, <1>4, <1>5, FitStep DEF PInv
<1>10. PortTypes'
  <2>1. elem' \in [Ports -> Nat]
    BY <1>2, <1>7
  <2>2. \A c \in Cyclics : queue'[c] \in Seq(Nat)
    BY <1>7 DEF PInv, PortTypes
  <2>3. lost' \in [Cyclics -> Nat]
    <3>1. lost' = lost \/ \E c \in Cyclics : lost' = [lost EXCEPT ![c] = @ + 1]
      BY <1>1 DEF TakeFree, TakeOldest, TakeRead, b
    <3> QED
      BY <3>1 DEF PInv, PortTypes
  <2> QED
    BY <1>1, <1>4, <1>7, <2>1, <2>2, <2>3 DEF PInv, PortTypes
<1> QED
  BY <1>1, <1>5, <1>6, <1>8, <1>9, <1>10 DEF PInv, b

\* The buffer gets the element back.
LEMMA PutSteps ==
  ASSUME PInv, NEW p \in Ports, PutWritten(p) \/ PutRead(p)
  PROVE  PInv' /\ Calm(p)
<1> DEFINE b == Target(p)
<1>1. /\ pc[p] = "put" /\ pc[p] \in Holding
      /\ UNCHANGED <<conns, overruns, lost, seenOverruns>>
      /\ elem' = [elem EXCEPT ![p] = NoElement]
      /\ NextTarget(p) \/ Return(p)
  BY DEF PutWritten, PutRead, mainVars, Holding
<1>2. b \in Cyclics /\ b \in Iblocks
  BY <1>1 DEF PInv, HoldersFit, Iblocks
<1>3. /\ pc \in [Ports -> Holding \cup {"idle", "loop"}] /\ elem \in [Ports -> Nat]
      /\ free \in [Cyclics -> SUBSET Nat] /\ pos \in [Ports -> Nat] /\ pos[p] \in Nat
      /\ DOMAIN queue = Iblocks /\ queue[b] \in Seq(Nat) /\ elem[p] \in Nat
  BY <1>2 DEF PInv, PortTypes
<1>4. \E n \in Nat, v \in {"idle", "loop"} : pos' = [pos EXCEPT ![p] = n] /\ pc' = [pc EXCEPT ![p] = v]
  <2>1. pos[p] + 1 \in Nat /\ 0 \in Nat /\ "idle" \in {"idle", "loop"} /\ "loop" \in {"idle", "loop"}
    BY <1>3
  <2>2. CASE NextTarget(p)
    BY <2>1, <2>2 DEF NextTarget
  <2>3. CASE Return(p)
    BY <2>1, <2>3 DEF Return
  <2> QED
    BY <1>1, <2>2, <2>3
<1>5. /\ pc' \in [Ports -> Holding \cup {"idle", "loop"}] /\ pos' \in [Ports -> Nat]
      /\ pc'[p] \in {"idle", "loop"} /\ elem' \in [Ports -> Nat]
      /\ \A q \in Ports \ {p} : pc'[q] = pc[q] /\ pos'[q] = pos[q]
  BY <1>1, <1>3, <1>4 DEF NoElement
<1>6. OthersStay(p) /\ pc'[p] \notin Holding
  BY <1>1, <1>5 DEF OthersStay, Holding
<1>7. /\ \A c \in Cyclics \ {b} : free'[c] = free[c] /\ queue'[c] = queue[c]
      /\ \/ free'[b] = free[b] /\ queue'[b] = Append(queue[b], elem[p])
         \/ free'[b] = free[b] \cup {elem[p]} /\ queue'[b] = queue[b]
      /\ free' \in [Cyclics -> SUBSET Nat]
      /\ DOMAIN queue' = Iblocks /\ queue'[b] \in Seq(Nat)
  <2>1. CASE PutWritten(p)
    <3>1. free' = free /\ queue' = [queue EXCEPT ![b] = Append(@, elem[p])]
      BY <2>1 DEF PutWritten
    <3> HIDE DEF b
    <3>2. /\ DOMAIN queue' = Iblocks /\ queue'[b] = Append(queue[b], elem[p])
          /\ \A c \in Iblocks \ {b} : queue'[c] = queue[c]
      BY <1>2, <1>3, <3>1
    <3>3. Append(queue[b], elem[p]) \in Seq(Nat)
      BY <1>3, Appended
    <3> QED
      BY <1>3, <3>1, <3>2, <3>3 DEF Iblocks
  <2>2. CASE PutRead(p)
    <3>1. queue' = queue /\ free' = [free EXCEPT ![b] = @ \cup {elem[p]}]
      BY <2>2 DEF PutRead
    <3> HIDE DEF b
    <3> QED
      BY <1>2, <1>3, <3>1
  <2> QED
    BY <2>1, <2>2
<1> HIDE DEF b
<1>8. ElementsOwned'
  BY <1>1, <1>2, <1>6, <1>7, GiveStep DEF b
<1>9. HoldersFit'
  BY <1>6, FitStep DEF PInv
<1>10. PortTypes'
  <2>1. \A c \in Cyclics : queue'[c] \in Seq(Nat)
    BY <1>7 DEF PInv, PortTypes
  <2> QED
    BY <1>1, <1>5, <1>7, <2>1 DEF PInv, PortTypes
<1> QED
  BY <1>1, <1>5, <1>6, <1>8, <1>9, <1>10 DEF PInv, Calm

-----------------------------------------------------------------------------
(* The invariant and the properties of the elements.                        *)

LEMMA PInvInit == Init => PInv
<1> SUFFICES ASSUME Init PROVE PInv
  OBVIOUS
<1>1. \A p \in Ports : pc[p] = "idle" /\ pc[p] \notin Holding
  BY DEF Init, Holding
<1>2. PortTypes
  <2>1. DOMAIN conns = Ports
    BY PortsAssumption DEF Init, PortsAssumption
  <2>2. free \in [Cyclics -> SUBSET Nat]
    <3>1. \A b \in Cyclics : BufferLen[b] \in Nat
      BY PortsAssumption DEF PortsAssumption, Iblocks
    <3>2. \A b \in Cyclics : Elements(b) \in SUBSET Nat
      BY <3>1 DEF Elements
    <3> QED
      BY <3>2 DEF Init
  <2>3. DOMAIN queue = Iblocks /\ \A b \in Cyclics : queue[b] \in Seq(Nat)
    BY DEF Init, Iblocks
  <2> QED
    BY <2>1, <2>2, <2>3 DEF PortTypes, Init, NoElement
<1>3. HoldersFit
  BY <1>1 DEF HoldersFit
<1>4. ElementsOwned
  <2> SUFFICES ASSUME NEW b \in Cyclics
               PROVE  /\ free[b] \cup ToSet(queue[b]) \cup {elem[p] : p \in Holders(b)} = Elements(b)
                      /\ Cardinality(free[b]) + Len(queue[b]) + Cardinality(Holders(b)) = BufferLen[b]
    BY DEF ElementsOwned
  <2>1. free[b] = Elements(b) /\ queue[b] = <<>>
    BY DEF Init, Iblocks
  <2>2. Holders(b) = {}
    BY <1>1 DEF Holders, Holding
  <2>3. Len(queue[b]) = 0 /\ ToSet(queue[b]) = {}
    BY <2>1 DEF ToSet
  <2>4. Cardinality(Holders(b)) = 0
    BY <2>2, FS_EmptySet
  <2>5. BufferLen[b] \in Nat /\ Cardinality(free[b]) = BufferLen[b]
    <3>1. BufferLen[b] \in Nat
      BY PortsAssumption DEF PortsAssumption, Iblocks
    <3> QED
      BY <2>1, <3>1, Counted DEF Elements
  <2> QED
    BY <2>1, <2>2, <2>3, <2>4, <2>5
<1> QED
  BY <1>2, <1>3, <1>4 DEF PInv

\* ubx_block_start and ubx_block_stop touch no port, and no buffer
LEMMA PInvUnchanged ==
  ASSUME PInv, UNCHANGED <<conns, pc, pos, elem, free, queue, overruns, lost, seenOverruns>>
  PROVE  PInv'
<1>1. PortTypes'
  BY DEF PInv, PortTypes
<1>2. HoldersFit'
  BY DEF PInv, HoldersFit, Target
<1>3. \A b : Holders(b)' = Holders(b)
  BY DEF Holders, Target
<1>4. ElementsOwned'
  BY <1>3 DEF PInv, ElementsOwned, Elements
<1> QED
  BY <1>1, <1>2, <1>4 DEF PInv

\* What a step may be.
LEMMA StepKinds ==
  ASSUME Next
  PROVE  \/ \E p \in Ports, b \in Iblocks : Connect(p, b) \/ Disconnect(p, b)
         \/ \E b \in Iblocks : StartStop(b)
         \/ \E p \in Ports : \/ SkipTarget(p) \/ EndLoop(p) \/ NoData(p)
                             \/ p \in Outs /\ (BeginWrite(p) \/ MqSend(p))
                             \/ p \in Ins /\ (BeginRead(p) \/ MqReceive(p))
         \/ \E p \in Ports : CopyIn(p) \/ CopyOut(p)
         \/ \E o \in Outs : CountOverrun(o) \/ StoreOverrun(o)
         \/ \E p \in Ports : \/ p \in Outs /\ (TakeFree(p) \/ TakeOldest(p))
                             \/ p \in Ins /\ TakeRead(p)
         \/ \E p \in Ports : PutWritten(p) \/ PutRead(p)
BY DEF Next, WriteStep, ReadStep, Ports

LEMMA PInvNext == PInv /\ [Next]_vars => PInv'
<1> SUFFICES ASSUME PInv, [Next]_vars PROVE PInv'
  OBVIOUS
<1>1. CASE Next
  <2>1. CASE \E p \in Ports, b \in Iblocks : Connect(p, b) \/ Disconnect(p, b)
    BY <2>1, MainSteps
  <2>2. CASE \E b \in Iblocks : StartStop(b)
    BY <2>2, PInvUnchanged DEF StartStop, bufVars
  <2>3. CASE \E p \in Ports : \/ SkipTarget(p) \/ EndLoop(p) \/ NoData(p)
                              \/ p \in Outs /\ (BeginWrite(p) \/ MqSend(p))
                              \/ p \in Ins /\ (BeginRead(p) \/ MqReceive(p))
    BY <2>3, LoopSteps
  <2>4. CASE \E p \in Ports : CopyIn(p) \/ CopyOut(p)
    BY <2>4, CopySteps
  <2>5. CASE \E o \in Outs : CountOverrun(o) \/ StoreOverrun(o)
    BY <2>5, CountSteps
  <2>6. CASE \E p \in Ports : \/ p \in Outs /\ (TakeFree(p) \/ TakeOldest(p))
                              \/ p \in Ins /\ TakeRead(p)
    <3>1. PICK p \in Ports : \/ p \in Outs /\ (TakeFree(p) \/ TakeOldest(p))
                             \/ p \in Ins /\ TakeRead(p)
      BY <2>6
    <3>2. PInv'
      BY <3>1, TakeSteps
    <3> QED
      BY <3>2
  <2>7. CASE \E p \in Ports : PutWritten(p) \/ PutRead(p)
    BY <2>7, PutSteps
  <2> QED
    BY <1>1, <2>1, <2>2, <2>3, <2>4, <2>5, <2>6, <2>7, StepKinds
<1>2. CASE UNCHANGED vars
  BY <1>2, PInvUnchanged DEF vars, mainVars, bufVars
<1> QED
  BY <1>1, <1>2

\* For any number of ports and ring buffers of any length, each element is free,
\* queued once or held by one call of cyclic_write or cyclic_read.
THEOREM ElementsOwnedHolds == Spec => []ElementsOwned
<1>1. PInv => ElementsOwned
  BY DEF PInv
<1> QED
  BY PInvInit, PInvNext, <1>1, PTL DEF Spec

\* cyclic_write finds an element at once in a buffer that has as many as there
\* are ports configured for it: the writer holds none yet, so that the others,
\* who hold one each, leave one.
THEOREM WriteNeverWaitsHolds == Spec => []WriteNeverWaits
<1>1. PInv => WriteNeverWaits
  <2> SUFFICES ASSUME PInv, NEW o \in Outs, AtTarget(o, Cyclics),
                      BufferLen[Target(o)] >= Cardinality(Users(Target(o))),
                      free[Target(o)] = {}, queue[Target(o)] = <<>>
               PROVE  FALSE
    BY DEF WriteNeverWaits
  <2> DEFINE b == Target(o)
             U == Users(b)
  <2>1. b \in Cyclics /\ o \in U /\ pc[o] = "loop" /\ o \in Ports
    BY DEF AtTarget, Users, Ports
  <2>2. Holders(b) \subseteq U \ {o}
    <3>1. ASSUME NEW q \in Holders(b) PROVE q \in U \ {o}
      <4>1. q \in Ports /\ pc[q] \in Holding /\ Target(q) = b
        BY DEF Holders, Holding
      <4>2. <<q, b>> \in Fits
        BY <4>1 DEF PInv, HoldersFit
      <4>3. q # o
        BY <2>1, <4>1 DEF Holding
      <4> QED
        BY <4>1, <4>2, <4>3 DEF Users
    <3> QED
      BY <3>1
  <2>3. IsFiniteSet(U)
    <3>1. U \in SUBSET Ports
      BY DEF Users
    <3> QED
      BY <3>1, PortsAssumption, FS_Subset DEF PortsAssumption
  <2>4. Cardinality(Holders(b)) = BufferLen[b]
    <3>1. Cardinality(free[b]) + Len(queue[b]) + Cardinality(Holders(b)) = BufferLen[b]
      BY <2>1 DEF PInv, ElementsOwned
    <3>2. Cardinality(free[b]) = 0 /\ Len(queue[b]) = 0
      BY FS_EmptySet
    <3>3. Cardinality(Holders(b)) \in Nat
      BY HoldersFinite
    <3> HIDE DEF b
    <3> QED
      BY <3>1, <3>2, <3>3
  <2>5. BufferLen[b] \in Nat
    BY <2>1, PortsAssumption DEF PortsAssumption, Iblocks
  <2> HIDE DEF b, U
  <2>6. /\ IsFiniteSet(U \ {o}) /\ Cardinality(U) \in Nat
        /\ Cardinality(U \ {o}) = Cardinality(U) - 1
    BY <2>1, <2>3, FS_RemoveElement, FS_CardinalityType
  <2>7. Cardinality(Holders(b)) <= Cardinality(U \ {o})
    BY <2>2, <2>6, FS_Subset
  <2>8. BufferLen[b] >= Cardinality(U)
    BY DEF b, U
  <2> QED
    BY <2>4, <2>5, <2>6, <2>7, <2>8
<1> QED
  BY PInvInit, PInvNext, <1>1, PTL DEF Spec

-----------------------------------------------------------------------------
(* The counter of overruns.  Threads increment it without a lock: one that  *)
(* has read it may store an old value.  What keeps the counter from running *)
(* ahead is that a value that is still to be stored is no larger than the   *)
(* losses of which somebody has made, but not counted, the others.          *)

SingleWriter(b) == Cardinality(Users(b) \cap Outs) = 1

Counting(b) ==
  LET n == Cardinality(Uncounted(b)) IN
  /\ overruns[b] + n <= lost[b]
  /\ SingleWriter(b) => overruns[b] + n = lost[b]
  /\ \A o \in Uncounted(b) : pc[o] = "store" =>
       /\ seenOverruns[o] + n <= lost[b]
       /\ SingleWriter(b) => seenOverruns[o] = overruns[b]

CInv == PInv /\ \A b \in Cyclics : Counting(b)

LEMMA UncountedFinite ==
  ASSUME NEW b
  PROVE  IsFiniteSet(Uncounted(b)) /\ Cardinality(Uncounted(b)) \in Nat
<1>1. Uncounted(b) \in SUBSET Ports
  BY DEF Uncounted, Holders
<1> QED
  BY <1>1, PortsAssumption, FS_Subset, FS_CardinalityType DEF PortsAssumption

\* Who has an overrun of b to count after a step of the thread of p.
LEMMA UncountedAfter ==
  ASSUME NEW p \in Ports, OthersStay(p), NEW b
  PROVE  Uncounted(b)' = IF pc'[p] \in {"count", "store"} /\ Target(p)' = b
                         THEN Uncounted(b) \cup {p} ELSE Uncounted(b) \ {p}
BY DEF OthersStay, Uncounted, Holders, Target

\* Nothing that Counting speaks of changes.
LEMMA CountingSame ==
  ASSUME NEW b \in Cyclics, Counting(b), Uncounted(b)' = Uncounted(b),
         overruns'[b] = overruns[b], lost'[b] = lost[b],
         \A o \in Uncounted(b) : pc'[o] = pc[o] /\ seenOverruns'[o] = seenOverruns[o]
  PROVE  Counting(b)'
BY DEF Counting, SingleWriter, Users

\* A step that counts nothing.
LEMMA CalmCounting ==
  ASSUME CInv, NEW p \in Ports, Calm(p), NEW b \in Cyclics
  PROVE  Counting(b)'
<1>1. Uncounted(b)' = Uncounted(b) \ {p}
  BY UncountedAfter DEF Calm
<1>2. p \notin Uncounted(b)
  BY DEF Calm, Uncounted
<1>3. Uncounted(b)' = Uncounted(b)
  BY <1>1, <1>2
<1>4. \A o \in Uncounted(b) : pc'[o] = pc[o]
  BY <1>2 DEF Calm, OthersStay, Uncounted, Holders
<1>5. overruns' = overruns /\ lost' = lost /\ seenOverruns' = seenOverruns /\ Counting(b)
  BY DEF Calm, CInv
<1> QED
  BY <1>3, <1>4, <1>5, CountingSame

\* A step of the thread of p says nothing of the other buffers.
LEMMA ElsewhereCounting ==
  ASSUME CInv, NEW p \in Ports, OthersStay(p), NEW b \in Cyclics, b # Target(p), b # Target(p)',
         overruns'[b] = overruns[b], lost'[b] = lost[b],
         \A o \in Outs \ {p} : seenOverruns'[o] = seenOverruns[o]
  PROVE  Counting(b)'
<1>1. p \notin Uncounted(b) /\ Uncounted(b)' = Uncounted(b) \ {p}
  BY UncountedAfter DEF Uncounted, Holders
<1>2. ASSUME NEW o \in Uncounted(b) PROVE pc'[o] = pc[o] /\ seenOverruns'[o] = seenOverruns[o]
  <2>1. o # p /\ o \in Ports /\ pc[o] \in {"count", "store"}
    BY <1>1 DEF Uncounted, Holders
  <2>2. o \in Outs
    BY <2>1 DEF CInv, PInv, HoldersFit, Holding
  <2> QED
    BY <2>1, <2>2 DEF OthersStay
<1> QED
  BY <1>1, <1>2, CountingSame DEF CInv

\* A buffer with a single writer has one overrun to count at a time.
LEMMA OneCounts ==
  ASSUME PInv, NEW b \in Cyclics, SingleWriter(b), NEW o \in Uncounted(b), NEW q \in Uncounted(b)
  PROVE  o = q
<1>1. PICK w : Users(b) \cap Outs = {w}
  <2>1. Users(b) \cap Outs \in SUBSET Ports
    BY DEF Users
  <2>2. IsFiniteSet(Users(b) \cap Outs)
    BY <2>1, PortsAssumption, FS_Subset DEF PortsAssumption
  <2> QED
    BY <2>2, FS_Singleton DEF SingleWriter
<1>2. ASSUME NEW x \in Uncounted(b) PROVE x \in Users(b) \cap Outs
  BY DEF PInv, HoldersFit, Holding, Uncounted, Holders, Users
<1> QED
  BY <1>1, <1>2

\* The oldest element is overwritten: one more loss, one more to count.
LEMMA TakeOldestCounting ==
  ASSUME CInv, NEW p \in Outs, TakeOldest(p), NEW b \in Cyclics
  PROVE  Counting(b)'
<1>1. /\ OthersStay(p) /\ Target(p) \in Cyclics /\ Target(p)' = Target(p)
      /\ p \notin Holders(Target(p)) /\ p \in Ports
  BY TakeSteps DEF CInv, Ports
<1>2. overruns' = overruns /\ seenOverruns' = seenOverruns /\ pc'[p] = "count"
      /\ lost' = [lost EXCEPT ![Target(p)] = @ + 1]
  BY <1>1 DEF TakeOldest, CInv, PInv, PortTypes
<1>3. /\ lost \in [Cyclics -> Nat] /\ overruns \in [Cyclics -> Nat]
      /\ seenOverruns \in [Outs -> Nat]
  BY DEF CInv, PInv, PortTypes
<1>4. CASE b # Target(p)
  <2>1. lost'[b] = lost[b]
    BY <1>2, <1>3, <1>4
  <2> QED
    BY <1>1, <1>2, <1>4, <2>1, ElsewhereCounting
<1>5. CASE b = Target(p)
  <2>1. p \notin Uncounted(b) /\ Uncounted(b)' = Uncounted(b) \cup {p}
    BY <1>1, <1>2, <1>5, UncountedAfter DEF Uncounted
  <2>2. Cardinality(Uncounted(b)') = Cardinality(Uncounted(b)) + 1
    BY <2>1, UncountedFinite, FS_AddElement
  <2>3. lost'[b] = lost[b] + 1 /\ lost[b] \in Nat /\ overruns[b] \in Nat
    BY <1>2, <1>3, <1>5
  <2>4. Cardinality(Uncounted(b)) \in Nat /\ Counting(b)
    BY UncountedFinite DEF CInv
  <2>5. /\ overruns'[b] + Cardinality(Uncounted(b)') <= lost'[b]
        /\ SingleWriter(b) => overruns'[b] + Cardinality(Uncounted(b)') = lost'[b]
    <3> DEFINE n == Cardinality(Uncounted(b))
    <3>1. /\ n \in Nat /\ overruns[b] + n <= lost[b]
          /\ SingleWriter(b) => overruns[b] + n = lost[b]
      BY <2>4 DEF Counting
    <3>2. Cardinality(Uncounted(b)') = n + 1 /\ lost'[b] = lost[b] + 1 /\ overruns'[b] = overruns[b]
      BY <1>2, <2>2, <2>3
    <3> HIDE DEF n
    <3>3. overruns[b] + (n + 1) <= lost[b] + 1 /\ (SingleWriter(b) => overruns[b] + (n + 1) = lost[b] + 1)
      BY <2>3, <3>1
    <3> QED
      BY <3>2, <3>3
  <2>6. ASSUME NEW o \in Uncounted(b)', pc'[o] = "store"
        PROVE  /\ seenOverruns'[o] + Cardinality(Uncounted(b)') <= lost'[b]
               /\ SingleWriter(b) => seenOverruns'[o] = overruns'[b]
    <3>1. o # p /\ o \in Uncounted(b)
      BY <1>2, <2>1, <2>6
    <3>2. o \in Ports /\ pc[o] = "store"
      BY <1>1, <2>6, <3>1 DEF OthersStay, Uncounted, Holders
    <3>3. o \in Outs
      BY <3>2 DEF CInv, PInv, HoldersFit, Holding
    <3> DEFINE n == Cardinality(Uncounted(b))
    <3>4. /\ n \in Nat /\ seenOverruns[o] + n <= lost[b] /\ seenOverruns[o] \in Nat
          /\ SingleWriter(b) => seenOverruns[o] = overruns[b]
      BY <1>3, <2>4, <3>1, <3>2, <3>3 DEF Counting
    <3>5. Cardinality(Uncounted(b)') = n + 1
      BY <2>2
    <3> HIDE DEF n
    <3>6. seenOverruns[o] + (n + 1) <= lost[b] + 1
      BY <2>3, <3>4
    <3> QED
      BY <1>2, <2>3, <3>4, <3>5, <3>6
  <2> QED
    BY <2>5, <2>6 DEF Counting, SingleWriter, Users
<1> QED
  BY <1>4, <1>5

\* The counter is read.
LEMMA CountOverrunCounting ==
  ASSUME CInv, NEW p \in Outs, CountOverrun(p), NEW b \in Cyclics
  PROVE  Counting(b)'
<1>1. /\ OthersStay(p) /\ Target(p) \in Cyclics /\ Target(p)' = Target(p) /\ p \in Ports
  BY CountSteps DEF CInv, Ports
<1>2. overruns' = overruns /\ lost' = lost /\ pc[p] = "count" /\ pc'[p] = "store"
      /\ seenOverruns' = [seenOverruns EXCEPT ![p] = overruns[Target(p)]]
  BY <1>1 DEF CountOverrun, CInv, PInv, PortTypes, bufVars
<1>3. seenOverruns \in [Outs -> Nat]
  BY DEF CInv, PInv, PortTypes
<1>4. CASE b # Target(p)
  BY <1>1, <1>2, <1>3, <1>4, ElsewhereCounting
<1>5. CASE b = Target(p)
  <2>1. p \in Uncounted(b)
    BY <1>1, <1>2, <1>5 DEF Uncounted, Holders
  <2>2. Uncounted(b)' = Uncounted(b)
    <3>1. Uncounted(b)' = Uncounted(b) \cup {p}
      BY <1>1, <1>2, <1>5, UncountedAfter
    <3> QED
      BY <2>1, <3>1
  <2>3. ASSUME NEW o \in Uncounted(b)', pc'[o] = "store"
        PROVE  /\ seenOverruns'[o] + Cardinality(Uncounted(b)') <= lost'[b]
               /\ SingleWriter(b) => seenOverruns'[o] = overruns'[b]
    <3>1. CASE o = p
      <4>1. seenOverruns'[p] = overruns[b]
        BY <1>2, <1>3, <1>5
      <4> QED
        BY <1>2, <2>2, <3>1, <4>1 DEF CInv, Counting
    <3>2. CASE o # p
      <4>1. o \in Uncounted(b) /\ o \in Ports
        BY <2>2, <2>3 DEF Uncounted, Holders
      <4>2. pc[o] = "store"
        BY <1>1, <2>3, <3>2, <4>1 DEF OthersStay
      <4>3. seenOverruns'[o] = seenOverruns[o]
        <5>1. o \in Outs
          BY <4>1, <4>2 DEF CInv, PInv, HoldersFit, Holding
        <5> QED
          BY <1>2, <1>3, <3>2, <5>1
      <4> QED
        BY <1>2, <2>2, <4>1, <4>2, <4>3 DEF CInv, Counting
    <3> QED
      BY <3>1, <3>2
  <2> QED
    BY <1>2, <2>2, <2>3 DEF CInv, Counting, SingleWriter, Users
<1> QED
  BY <1>4, <1>5

\* The counter is written: the value that was read, and one more.
LEMMA StoreOverrunCounting ==
  ASSUME CInv, NEW p \in Outs, StoreOverrun(p), NEW b \in Cyclics
  PROVE  Counting(b)'
<1>1. /\ OthersStay(p) /\ Target(p) \in Cyclics /\ Target(p)' = Target(p) /\ p \in Ports
  BY CountSteps DEF CInv, Ports
<1>2. /\ lost' = lost /\ pc[p] = "store" /\ pc'[p] = "copy"
      /\ overruns' = [overruns EXCEPT ![Target(p)] = seenOverruns[p] + 1]
      /\ seenOverruns' = [seenOverruns EXCEPT ![p] = 0]
  BY <1>1 DEF StoreOverrun, CInv, PInv, PortTypes
<1>3. /\ lost \in [Cyclics -> Nat] /\ overruns \in [Cyclics -> Nat]
      /\ seenOverruns \in [Outs -> Nat]
  BY DEF CInv, PInv, PortTypes
<1>4. CASE b # Target(p)
  <2>1. overruns'[b] = overruns[b] /\ \A o \in Outs \ {p} : seenOverruns'[o] = seenOverruns[o]
    BY <1>2, <1>3, <1>4
  <2> QED
    BY <1>1, <1>2, <1>4, <2>1, ElsewhereCounting
<1>5. CASE b = Target(p)
  <2>1. p \in Uncounted(b)
    BY <1>1, <1>2, <1>5 DEF Uncounted, Holders
  <2>2. Uncounted(b)' = Uncounted(b) \ {p}
    BY <1>1, <1>2, <1>5, UncountedAfter
  <2> DEFINE n == Cardinality(Uncounted(b))
             m == Cardinality(Uncounted(b)')
  <2>3. n \in Nat /\ m \in Nat /\ m = n - 1
    <3>1. m = n - 1 /\ n \in Nat /\ IsFiniteSet(Uncounted(b)')
      BY <2>1, <2>2, UncountedFinite, FS_RemoveElement
    <3> QED
      BY <3>1, FS_CardinalityType
  <2>4. /\ overruns[b] + n <= lost[b] /\ seenOverruns[p] + n <= lost[b]
        /\ SingleWriter(b) => overruns[b] + n = lost[b] /\ seenOverruns[p] = overruns[b]
    BY <1>2, <2>1 DEF CInv, Counting
  <2>5. overruns'[b] = seenOverruns[p] + 1 /\ lost'[b] = lost[b]
    BY <1>2, <1>3, <1>5
  <2>6. lost[b] \in Nat /\ overruns[b] \in Nat /\ seenOverruns[p] \in Nat
    BY <1>3
  <2>7. overruns'[b] + m <= lost'[b] /\ (SingleWriter(b) => overruns'[b] + m = lost'[b])
    <3> HIDE DEF n, m
    <3>1. seenOverruns[p] + 1 + m <= lost[b]
      BY <2>3, <2>4, <2>6
    <3>2. SingleWriter(b) => seenOverruns[p] + 1 + m = lost[b]
      BY <2>3, <2>4, <2>6
    <3> QED
      BY <2>5, <3>1, <3>2
  <2>8. ASSUME NEW o \in Uncounted(b)', pc'[o] = "store"
        PROVE  seenOverruns'[o] + m <= lost'[b] /\ ~SingleWriter(b)
    <3>1. o # p /\ o \in Uncounted(b) /\ o \in Ports
      BY <2>2 DEF Uncounted, Holders
    <3>2. pc[o] = "store"
      BY <1>1, <2>8, <3>1 DEF OthersStay
    <3>3. o \in Outs
      BY <3>1, <3>2 DEF CInv, PInv, HoldersFit, Holding
    <3>4. seenOverruns'[o] = seenOverruns[o] /\ seenOverruns[o] \in Nat
      BY <1>2, <1>3, <3>1, <3>3
    <3>5. seenOverruns[o] + n <= lost[b]
      BY <3>1, <3>2 DEF CInv, Counting
    <3>6. seenOverruns[o] + m <= lost[b]
      <4> HIDE DEF n, m
      <4> QED
        BY <2>3, <2>6, <3>4, <3>5
    <3>7. ~SingleWriter(b)
      BY <2>1, <3>1, OneCounts DEF CInv
    <3> QED
      BY <2>5, <3>4, <3>6, <3>7
  <2> QED
    BY <2>7, <2>8 DEF Counting, SingleWriter, Users
<1> QED
  BY <1>4, <1>5

LEMMA CInvInit == Init => CInv
<1> SUFFICES ASSUME Init, NEW b \in Cyclics PROVE Counting(b)
  BY PInvInit DEF CInv
<1>1. Uncounted(b) = {}
  BY DEF Init, Uncounted, Holders
<1>2. overruns[b] = 0 /\ lost[b] = 0 /\ Cardinality(Uncounted(b)) = 0
  BY <1>1, FS_EmptySet DEF Init
<1> QED
  BY <1>1, <1>2 DEF Counting

LEMMA CountingUnchanged ==
  ASSUME CInv, UNCHANGED <<conns, pc, pos, overruns, lost, seenOverruns>>, NEW b \in Cyclics
  PROVE  Counting(b)'
<1>1. Uncounted(b)' = Uncounted(b)
  BY DEF Uncounted, Holders, Target
<1> QED
  BY <1>1, CountingSame DEF CInv

LEMMA CInvNext == CInv /\ [Next]_vars => CInv'
<1> SUFFICES ASSUME CInv, [Next]_vars PROVE CInv'
  OBVIOUS
<1>1. PInv /\ PInv'
  BY PInvNext DEF CInv
<1> SUFFICES ASSUME NEW b \in Cyclics PROVE Counting(b)'
  BY <1>1 DEF CInv
<1>2. CASE Next
  <2>1. CASE \E p \in Ports, c \in Iblocks : Connect(p, c) \/ Disconnect(p, c)
    <3>1. PICK p \in Ports : Calm(p)
      BY <1>1, <2>1, MainSteps
    <3> QED
      BY <3>1, CalmCounting
  <2>2. CASE \E c \in Iblocks : StartStop(c)
    BY <2>2, CountingUnchanged DEF StartStop, bufVars
  <2>3. CASE \E p \in Ports : \/ SkipTarget(p) \/ EndLoop(p) \/ NoData(p)
                              \/ p \in Outs /\ (BeginWrite(p) \/ MqSend(p))
                              \/ p \in Ins /\ (BeginRead(p) \/ MqReceive(p))
    BY <1>1, <2>3, LoopSteps, CalmCounting
  <2>4. CASE \E p \in Ports : CopyIn(p) \/ CopyOut(p)
    BY <1>1, <2>4, CopySteps, CalmCounting
  <2>5. CASE \E o \in Outs : CountOverrun(o) \/ StoreOverrun(o)
    BY <2>5, CountOverrunCounting, StoreOverrunCounting
  <2>6. CASE \E p \in Ports : \/ p \in Outs /\ (TakeFree(p) \/ TakeOldest(p))
                              \/ p \in Ins /\ TakeRead(p)
    <3>1. PICK p \in Ports : \/ p \in Outs /\ (TakeFree(p) \/ TakeOldest(p))
                             \/ p \in Ins /\ TakeRead(p)
      BY <2>6
    <3>2. CASE p \in Outs /\ TakeOldest(p)
      BY <3>2, TakeOldestCounting
    <3>3. CASE ~(p \in Outs /\ TakeOldest(p))
      <4>1. OthersStay(p)
        BY <1>1, <3>1, TakeSteps
      <4>2. /\ pc[p] = "loop" /\ pc' = [pc EXCEPT ![p] = "copy"]
            /\ UNCHANGED <<overruns, lost, seenOverruns>>
        BY <3>1, <3>3 DEF TakeFree, TakeRead, AtTarget
      <4>3. pc'[p] = "copy"
        BY <1>1, <4>2 DEF PInv, PortTypes
      <4> QED
        BY <4>1, <4>2, <4>3, CalmCounting DEF Calm
    <3> QED
      BY <3>2, <3>3
  <2>7. CASE \E p \in Ports : PutWritten(p) \/ PutRead(p)
    BY <1>1, <2>7, PutSteps, CalmCounting
  <2> QED
    BY <1>2, <2>1, <2>2, <2>3, <2>4, <2>5, <2>6, <2>7, StepKinds
<1>3. CASE UNCHANGED vars
  BY <1>3, CountingUnchanged DEF vars, mainVars, bufVars
<1> QED
  BY <1>2, <1>3

\* The counter of cyclic_write, incremented without a lock by any number of
\* threads, never claims more losses than there were, and is exact for a buffer
\* that only one port may write to.
THEOREM OverrunsCountedHolds == Spec => []OverrunsCounted
<1>1. CInv => OverrunsCounted
  BY DEF CInv, Counting, OverrunsCounted, SingleWriter
<1> QED
  BY CInvInit, CInvNext, <1>1, PTL DEF Spec
-----------------------------------------------------------------------------
(* The order of the samples.  Each writer appends to a line of samples per  *)
(* interaction, whose head is read or overwritten.  The line is sorted, and *)
(* a sample on its way out of it is between what its reader has read of the *)
(* writer and what is still in line.                                        *)

\* the samples in line at b, the oldest first
Line(b) ==
  [k \in DOMAIN queue[b] |-> IF b \in Cyclics THEN data[b][queue[b][k]] ELSE queue[b][k]]

\* the sample in the element that the thread of p holds
InHand(p) == data[Target(p)][elem[p]]

Before(s, t) == s.from = t.from => s.n <= t.n
Sorted(q)    == \A j, k \in 1 .. Len(q) : j < k => Before(q[j], q[k])

\* no sample in line is older than what has been read
InLine(b) ==
  /\ Line(b) \in Seq(Sample) /\ Sorted(Line(b))
  /\ \A s \in ToSet(Line(b)) :
       s.n <= sample[s.from].n /\ \A i \in Ins : got[i][b][s.from] <= s.n

\* i is about to copy out s
Leaving(i, s) ==
  /\ s \in Sample /\ s.n <= sample[s.from].n
  /\ got[i][Target(i)][s.from] <= s.n
  /\ \A t \in ToSet(Line(Target(i))) : Before(s, t)

Reading(i) == pc[i] = "copy" => Leaving(i, InHand(i))

Writing(o) ==
  /\ pc[o] # "idle" => sample[o].from = o
  /\ pc[o] = "put" => InHand(o) = sample[o]

OrderTypes ==
  /\ sample \in [Outs -> [from : Outs \cup {"none"}, n : Nat]]
  /\ DOMAIN data = Cyclics /\ \A b \in Cyclics : DOMAIN data[b] = Elements(b)
  /\ got \in [Ins -> [Iblocks -> [Outs -> Nat]]]
  /\ \A b \in Mqueues : queue[b] \in Seq(Sample)

GotSent == \A i \in Ins, b \in Iblocks, o \in Outs : got[i][b][o] <= sample[o].n

OInv ==
  /\ PInv /\ OrderTypes /\ GotSent
  /\ \A b \in Iblocks : InLine(b)
  /\ \A i \in Ins : Reading(i)
  /\ \A o \in Outs : Writing(o)

\* The rest of a sorted line is sorted, and its head is before it.
LEMMA TailSorted ==
  ASSUME NEW q \in Seq(Sample), q # <<>>, Sorted(q)
  PROVE  /\ Tail(q) \in Seq(Sample) /\ Sorted(Tail(q)) /\ Head(q) \in Sample
         /\ ToSet(q) = {Head(q)} \cup ToSet(Tail(q))
         /\ \A t \in ToSet(Tail(q)) : Before(Head(q), t)
<1>1. /\ Head(q) \in Sample /\ Tail(q) \in Seq(Sample)
      /\ ToSet(q) = {Head(q)} \cup ToSet(Tail(q))
  BY HeadAndTail
<1>2. /\ Len(q) \in Nat /\ Len(q) >= 1 /\ Len(Tail(q)) = Len(q) - 1
      /\ q[1] = Head(q) /\ DOMAIN Tail(q) = 1 .. Len(q) - 1
      /\ \A k \in 1 .. Len(q) - 1 : Tail(q)[k] = q[k + 1]
  OBVIOUS
<1>3. Sorted(Tail(q))
  <2> SUFFICES ASSUME NEW j \in 1 .. Len(q) - 1, NEW k \in 1 .. Len(q) - 1, j < k
               PROVE  Before(Tail(q)[j], Tail(q)[k])
    BY <1>2 DEF Sorted
  <2>1. j + 1 \in 1 .. Len(q) /\ k + 1 \in 1 .. Len(q) /\ j + 1 < k + 1
    BY <1>2
  <2>2. Before(q[j + 1], q[k + 1])
    BY <2>1 DEF Sorted
  <2> QED
    BY <1>2, <2>2
<1>4. ASSUME NEW t \in ToSet(Tail(q)) PROVE Before(Head(q), t)
  <2>1. PICK k \in 1 .. Len(q) - 1 : t = Tail(q)[k]
    BY <1>2 DEF ToSet
  <2>2. k + 1 \in 1 .. Len(q) /\ 1 \in 1 .. Len(q) /\ 1 < k + 1
    BY <1>2
  <2>3. Before(q[1], q[k + 1])
    BY <2>2 DEF Sorted
  <2> QED
    BY <1>2, <2>1, <2>3
<1> QED
  BY <1>1, <1>3, <1>4

\* A line stays sorted if a sample joins it that is after those of its port.
LEMMA AppendSorted ==
  ASSUME NEW q \in Seq(Sample), NEW s \in Sample, Sorted(q),
         \A t \in ToSet(q) : Before(t, s)
  PROVE  /\ Append(q, s) \in Seq(Sample) /\ Sorted(Append(q, s))
         /\ ToSet(Append(q, s)) = ToSet(q) \cup {s}
<1>1. Append(q, s) \in Seq(Sample) /\ ToSet(Append(q, s)) = ToSet(q) \cup {s}
  BY Appended
<1>2. /\ Len(q) \in Nat /\ Len(Append(q, s)) = Len(q) + 1 /\ DOMAIN q = 1 .. Len(q)
      /\ Append(q, s)[Len(q) + 1] = s
      /\ \A k \in 1 .. Len(q) : Append(q, s)[k] = q[k]
  OBVIOUS
<1>3. ASSUME NEW j \in 1 .. Len(q) + 1, NEW k \in 1 .. Len(q) + 1, j < k
      PROVE  Before(Append(q, s)[j], Append(q, s)[k])
  <2>1. j \in 1 .. Len(q) /\ Append(q, s)[j] = q[j]
    BY <1>2, <1>3
  <2>2. CASE k \in 1 .. Len(q)
    <3>1. Before(q[j], q[k])
      BY <1>3, <2>1, <2>2 DEF Sorted
    <3> QED
      BY <1>2, <2>1, <2>2, <3>1
  <2>3. CASE k = Len(q) + 1
    <3>1. q[j] \in ToSet(q)
      BY <1>2, <2>1 DEF ToSet
    <3> QED
      BY <1>2, <2>1, <2>3, <3>1
  <2> QED
    BY <1>2, <2>2, <2>3
<1> QED
  BY <1>1, <1>2, <1>3 DEF Sorted

-----------------------------------------------------------------------------
(* What a step of the thread of p does to samples.                          *)

SampleMoves(p) ==
  \/ sample' = sample
  \/ /\ p \in Outs /\ pc[p] = "idle"
     /\ sample' = [sample EXCEPT ![p] = [from |-> p, n |-> @.n + 1]]

LineMoves(p, b) ==
  \/ Line(b)' = Line(b)
  \/ Line(b) # <<>> /\ Line(b)' = Tail(Line(b))
  \/ p \in Outs /\ pc[p] # "idle" /\ Line(b)' = Append(Line(b), sample[p])

\* nothing is read from b, or i reads s, which leaves it
Reads(i, b, s) ==
  /\ s \in Sample /\ s.n <= sample[s.from].n /\ got[i][b][s.from] <= s.n
  /\ \A t \in ToSet(Line(b)') : Before(s, t)
  /\ got'[i][b] = [got[i][b] EXCEPT ![s.from] = s.n]

GotMoves(p, b) ==
  \A i \in Ins : got'[i][b] = got[i][b] \/ (i = p /\ \E s \in Sample : Reads(i, b, s))

OthersHold(p) ==
  \A q \in Ports \ {p} : pc[q] \in {"copy", "put"} => InHand(q)' = InHand(q)

OrderStep(p) ==
  /\ OthersStay(p) /\ OthersHold(p) /\ SampleMoves(p)
  /\ \A b \in Iblocks : LineMoves(p, b) /\ GotMoves(p, b)

\* The numbers of a port grow, and it writes one sample at a time.
LEMMA SamplesGrow ==
  ASSUME OInv, NEW p \in Ports, SampleMoves(p)
  PROVE  /\ \A o \in Outs : /\ sample[o].n \in Nat /\ sample'[o].n \in Nat
                            /\ sample[o].n <= sample'[o].n
                            /\ o # p => sample'[o] = sample[o]
         /\ pc[p] # "idle" => sample' = sample
         /\ sample' \in [Outs -> [from : Outs \cup {"none"}, n : Nat]]
<1>1. sample \in [Outs -> [from : Outs \cup {"none"}, n : Nat]]
  BY DEF OInv, OrderTypes
<1>2. CASE sample' = sample
  BY <1>1, <1>2
<1>3. CASE /\ p \in Outs /\ pc[p] = "idle"
           /\ sample' = [sample EXCEPT ![p] = [from |-> p, n |-> @.n + 1]]
  <2>1. sample[p].n \in Nat /\ sample[p].n + 1 \in Nat /\ sample[p].n <= sample[p].n + 1
    BY <1>1, <1>3
  <2>2. sample'[p] = [from |-> p, n |-> sample[p].n + 1]
    BY <1>1, <1>3
  <2>3. \A o \in Outs \ {p} : sample'[o] = sample[o]
    BY <1>1, <1>3
  <2>4. [from |-> p, n |-> sample[p].n + 1] \in [from : Outs \cup {"none"}, n : Nat]
    BY <1>3, <2>1
  <2>5. sample' \in [Outs -> [from : Outs \cup {"none"}, n : Nat]]
    BY <1>1, <1>3, <2>4
  <2>6. sample'[p].n = sample[p].n + 1
    BY <2>2
  <2>7. \A o \in Outs : sample[o].n \in Nat
    BY <1>1
  <2> QED
    BY <1>3, <2>1, <2>3, <2>5, <2>6, <2>7
<1> QED
  BY <1>2, <1>3 DEF SampleMoves

\* What is in line after a step was there before, or is what p has written.
LEMMA LineAfter ==
  ASSUME OInv, NEW p \in Ports, SampleMoves(p), NEW b \in Iblocks, LineMoves(p, b)
  PROVE  /\ Line(b)' \in Seq(Sample) /\ Sorted(Line(b)')
         /\ \A t \in ToSet(Line(b)') :
              t \in ToSet(Line(b)) \/ (p \in Outs /\ pc[p] # "idle" /\ t = sample[p])
<1>1. /\ Line(b) \in Seq(Sample) /\ Sorted(Line(b))
      /\ \A t \in ToSet(Line(b)) : t.n <= sample[t.from].n
  BY DEF OInv, InLine
<1>2. CASE Line(b)' = Line(b)
  BY <1>1, <1>2
<1>3. CASE Line(b) # <<>> /\ Line(b)' = Tail(Line(b))
  BY <1>1, <1>3, TailSorted
<1>4. CASE p \in Outs /\ pc[p] # "idle" /\ Line(b)' = Append(Line(b), sample[p])
  <2>1. sample[p].from = p /\ sample[p] \in Sample
    <3>1. sample[p].from = p /\ sample[p] \in [from : Outs \cup {"none"}, n : Nat]
      BY <1>4 DEF OInv, Writing, OrderTypes
    <3> QED
      BY <1>4, <3>1 DEF Sample
  <2>2. \A t \in ToSet(Line(b)) : Before(t, sample[p])
    BY <1>1, <2>1 DEF Before
  <2>3. /\ Append(Line(b), sample[p]) \in Seq(Sample) /\ Sorted(Append(Line(b), sample[p]))
        /\ ToSet(Append(Line(b), sample[p])) = ToSet(Line(b)) \cup {sample[p]}
    BY <1>1, <2>1, <2>2, AppendSorted
  <2> QED
    BY <1>4, <2>3
<1> QED
  BY <1>2, <1>3, <1>4 DEF LineMoves

LEMMA GotAfter ==
  ASSUME OInv, NEW p \in Ports, SampleMoves(p), NEW b \in Iblocks, GotMoves(p, b)
  PROVE  /\ \A i \in Ins : got'[i][b] \in [Outs -> Nat]
         /\ \A i \in Ins, o \in Outs : /\ got[i][b][o] <= got'[i][b][o]
                                       /\ got'[i][b][o] <= sample'[o].n
<1>1. ASSUME NEW i \in Ins
      PROVE  /\ got'[i][b] \in [Outs -> Nat]
             /\ \A o \in Outs : /\ got[i][b][o] <= got'[i][b][o]
                                /\ got'[i][b][o] <= sample'[o].n
  <2>1. got[i][b] \in [Outs -> Nat]
    BY DEF OInv, OrderTypes
  <2>2. \A o \in Outs : /\ got[i][b][o] \in Nat /\ got[i][b][o] <= sample[o].n
                        /\ sample[o].n \in Nat /\ sample'[o].n \in Nat
                        /\ sample[o].n <= sample'[o].n
    BY <2>1, SamplesGrow DEF OInv, GotSent
  <2>3. CASE got'[i][b] = got[i][b]
    BY <2>1, <2>2, <2>3
  <2>4. ASSUME NEW s \in Sample, Reads(i, b, s)
        PROVE  /\ got'[i][b] \in [Outs -> Nat]
               /\ \A o \in Outs : /\ got[i][b][o] <= got'[i][b][o]
                                  /\ got'[i][b][o] <= sample'[o].n
    <3>1. s.from \in Outs /\ s.n \in Nat
      BY DEF Sample
    <3>2. /\ s.n <= sample[s.from].n /\ got[i][b][s.from] <= s.n
          /\ got'[i][b] = [got[i][b] EXCEPT ![s.from] = s.n]
      BY <2>4 DEF Reads
    <3>3. /\ got'[i][b] \in [Outs -> Nat] /\ got'[i][b][s.from] = s.n
          /\ \A o \in Outs \ {s.from} : got'[i][b][o] = got[i][b][o]
      BY <2>1, <3>1, <3>2
    <3>4. ASSUME NEW o \in Outs
          PROVE  got[i][b][o] <= got'[i][b][o] /\ got'[i][b][o] <= sample'[o].n
      <4>1. CASE o = s.from
        BY <2>2, <3>1, <3>2, <3>3, <4>1
      <4>2. CASE o # s.from
        BY <2>2, <3>3, <4>2
      <4> QED
        BY <4>1, <4>2
    <3> QED
      BY <3>3, <3>4
  <2> QED
    BY <2>3, <2>4 DEF GotMoves
<1> QED
  BY <1>1

LEMMA InLineStep ==
  ASSUME OInv, NEW p \in Ports, OrderStep(p), NEW b \in Iblocks
  PROVE  InLine(b)'
<1>1. /\ Line(b)' \in Seq(Sample) /\ Sorted(Line(b)')
      /\ \A t \in ToSet(Line(b)') :
           t \in ToSet(Line(b)) \/ (p \in Outs /\ pc[p] # "idle" /\ t = sample[p])
  BY LineAfter DEF OrderStep
<1>2. /\ \A o \in Outs : /\ sample[o].n \in Nat /\ sample'[o].n \in Nat
                         /\ sample[o].n <= sample'[o].n
      /\ pc[p] # "idle" => sample' = sample
  BY SamplesGrow DEF OrderStep
<1>3. ASSUME NEW t \in ToSet(Line(b)')
      PROVE  /\ t \in Sample /\ t.n <= sample'[t.from].n
             /\ \A i \in Ins : got[i][b][t.from] <= t.n
  <2>1. CASE t \in ToSet(Line(b))
    <3>1. t \in Sample
      BY <2>1 DEF OInv, InLine, ToSet
    <3>2. t.from \in Outs /\ t.n \in Nat
      BY <3>1 DEF Sample
    <3>3. t.n <= sample[t.from].n /\ \A i \in Ins : got[i][b][t.from] <= t.n
      BY <2>1 DEF OInv, InLine
    <3> QED
      BY <1>2, <3>1, <3>2, <3>3
  <2>2. CASE p \in Outs /\ pc[p] # "idle" /\ t = sample[p]
    <3>1. t.from = p /\ t \in [from : Outs \cup {"none"}, n : Nat]
      BY <2>2 DEF OInv, Writing, OrderTypes
    <3>2. t \in Sample /\ t.n \in Nat
      BY <2>2, <3>1 DEF Sample
    <3>3. \A i \in Ins : got[i][b][t.from] <= t.n
      BY <2>2, <3>1 DEF OInv, GotSent
    <3> QED
      BY <1>2, <2>2, <3>1, <3>2, <3>3
  <2> QED
    BY <1>1, <2>1, <2>2
<1>4. ASSUME NEW t \in ToSet(Line(b)'), NEW i \in Ins
      PROVE  got'[i][b][t.from] <= t.n
  <2>1. t \in Sample /\ got[i][b][t.from] <= t.n
    BY <1>3
  <2>2. CASE got'[i][b] = got[i][b]
    BY <2>1, <2>2
  <2>3. ASSUME NEW s \in Sample, Reads(i, b, s)
        PROVE  got'[i][b][t.from] <= t.n
    <3>1. /\ got'[i][b] = [got[i][b] EXCEPT ![s.from] = s.n] /\ Before(s, t)
          /\ got[i][b] \in [Outs -> Nat]
      BY <2>3 DEF Reads, OInv, OrderTypes
    <3>2. s.from \in Outs /\ t.from \in Outs /\ s.n \in Nat /\ t.n \in Nat
      BY <2>1 DEF Sample
    <3>3. CASE t.from = s.from
      BY <3>1, <3>2, <3>3 DEF Before
    <3>4. CASE t.from # s.from
      BY <2>1, <3>1, <3>2, <3>4
    <3> QED
      BY <3>3, <3>4
  <2> QED
    BY <2>2, <2>3 DEF OrderStep, GotMoves
<1> QED
  BY <1>1, <1>3, <1>4 DEF InLine

\* The others go on with the samples they hold.
LEMMA OthersKept ==
  ASSUME OInv, NEW p \in Ports, OrderStep(p), NEW q \in Ports, q # p
  PROVE  (q \in Ins => Reading(q)') /\ (q \in Outs => Writing(q)')
<1>1. /\ \A o \in Outs : /\ sample[o].n \in Nat /\ sample'[o].n \in Nat
                         /\ sample[o].n <= sample'[o].n
                         /\ o # p => sample'[o] = sample[o]
      /\ pc[p] # "idle" => sample' = sample
  BY SamplesGrow DEF OrderStep
<1>2. /\ pc'[q] = pc[q] /\ Target(q)' = Target(q)
      /\ pc[q] \in {"copy", "put"} => InHand(q)' = InHand(q)
  BY DEF OrderStep, OthersStay, OthersHold, Target
<1>3. ASSUME q \in Outs PROVE Writing(q)'
  <2>1. sample'[q] = sample[q] /\ Writing(q)
    BY <1>1, <1>3 DEF OInv
  <2> QED
    BY <1>2, <2>1 DEF Writing
<1>4. ASSUME q \in Ins, pc[q] = "copy" PROVE Leaving(q, InHand(q))'
  <2>1. PICK b \in Iblocks : b = Target(q)
    BY <1>4 DEF OInv, PInv, HoldersFit, Holding, Iblocks
  <2>2. PICK s \in Sample : s = InHand(q)
    BY <1>4 DEF OInv, Reading, Leaving
  <2>3. /\ s.n <= sample[s.from].n /\ got[q][b][s.from] <= s.n
        /\ \A t \in ToSet(Line(b)) : Before(s, t)
    BY <1>4, <2>1, <2>2 DEF OInv, Reading, Leaving
  <2>4. InHand(q)' = s /\ Target(q)' = b
    BY <1>2, <1>4, <2>1, <2>2
  <2>5. s.from \in Outs /\ s.n \in Nat
    BY <2>2 DEF Sample
  <2>6. s.n <= sample'[s.from].n
    BY <1>1, <2>3, <2>5
  <2>7. got'[q][b][s.from] <= s.n
    BY <1>4, <2>1, <2>3 DEF OrderStep, GotMoves
  <2>8. ASSUME NEW t \in ToSet(Line(b)') PROVE Before(s, t)
    <3>1. SampleMoves(p) /\ LineMoves(p, b)
      BY <2>1 DEF OrderStep
    <3>2. t \in ToSet(Line(b)) \/ (p \in Outs /\ pc[p] # "idle" /\ t = sample[p])
      BY <2>1, <3>1, LineAfter
    <3>3. CASE p \in Outs /\ pc[p] # "idle" /\ t = sample[p]
      <4>1. t.from = p
        BY <3>3 DEF OInv, Writing
      <4> QED
        BY <2>3, <3>3, <4>1 DEF Before
    <3> QED
      BY <2>3, <3>2, <3>3
  <2>9. ToSet(Line(Target(q)))' = ToSet(Line(b)')
    BY <2>4 DEF Line, ToSet
  <2> QED
    BY <2>2, <2>4, <2>6, <2>7, <2>8, <2>9 DEF Leaving
<1> QED
  BY <1>2, <1>3, <1>4 DEF Reading

GotGrows == \A i \in Ins, b \in Iblocks, o \in Outs : got'[i][b][o] >= got[i][b][o]

\* What remains to be shown of a step.
LEMMA OrderKept ==
  ASSUME OInv, NEW p \in Ports, PInv', OrderTypes', OrderStep(p),
         p \in Ins => Reading(p)', p \in Outs => Writing(p)'
  PROVE  OInv' /\ GotGrows
<1>1. \A b \in Iblocks : InLine(b)'
  BY InLineStep
<1>2. ASSUME NEW q \in Ports
      PROVE  (q \in Ins => Reading(q)') /\ (q \in Outs => Writing(q)')
  BY OthersKept
<1>3. GotSent'
  BY GotAfter DEF GotSent, OrderStep
<1>4. GotGrows
  <2> SUFFICES ASSUME NEW i \in Ins, NEW b \in Iblocks, NEW o \in Outs
               PROVE  got'[i][b][o] >= got[i][b][o]
    BY DEF GotGrows
  <2>1. got'[i][b][o] \in Nat /\ got[i][b][o] <= got'[i][b][o] /\ got[i][b][o] \in Nat
    BY GotAfter DEF OrderStep, OInv, OrderTypes
  <2> QED
    BY <2>1
<1> QED
  BY <1>1, <1>2, <1>3, <1>4 DEF OInv, Ports

-----------------------------------------------------------------------------
(* The lines and the samples in hand, action by action.                     *)

LEMMA LineSame ==
  ASSUME NEW b \in Iblocks, queue'[b] = queue[b],
         b \in Cyclics => \A k \in DOMAIN queue[b] : data'[b][queue[b][k]] = data[b][queue[b][k]]
  PROVE  Line(b)' = Line(b)
BY DEF Line

LEMMA LineShorter ==
  ASSUME NEW S, NEW b \in Iblocks, queue[b] \in Seq(S), queue[b] # <<>>, Line(b) \in Seq(Sample),
         queue'[b] = Tail(queue[b]), data' = data
  PROVE  /\ Line(b) # <<>> /\ Line(b)' = Tail(Line(b))
         /\ Head(Line(b)) = IF b \in Cyclics THEN data[b][Head(queue[b])] ELSE Head(queue[b])
<1> DEFINE v(x) == IF b \in Cyclics THEN data[b][x] ELSE x
           n == Len(queue[b])
<1>1. /\ n \in Nat /\ n >= 1 /\ DOMAIN queue[b] = 1 .. n /\ DOMAIN queue'[b] = 1 .. n - 1
      /\ Head(queue[b]) = queue[b][1]
      /\ \A k \in 1 .. n - 1 : queue'[b][k] = queue[b][k + 1]
  OBVIOUS
<1>2. Line(b) = [k \in 1 .. n |-> v(queue[b][k])]
  BY <1>1 DEF Line
<1>3. Line(b)' = [k \in 1 .. n - 1 |-> v(queue[b][k + 1])]
  BY <1>1 DEF Line
<1> HIDE DEF n, v
<1>4. DOMAIN Line(b) = 1 .. n /\ \A k \in 1 .. n : Line(b)[k] = v(queue[b][k])
  BY <1>2
<1> DEFINE L == Line(b)
<1>5. L \in Seq(Sample) /\ DOMAIN L = 1 .. n /\ n \in Nat /\ n >= 1
  BY <1>1, <1>4
<1> HIDE DEF L
<1>6. /\ L # <<>> /\ Head(L) = L[1]
      /\ Tail(L) = [k \in 1 .. n - 1 |-> L[k + 1]]
  <2>1. Len(L) = n /\ L # <<>> /\ Head(L) = L[1]
    BY <1>5
  <2>2. /\ Tail(L) \in Seq(Sample) /\ DOMAIN Tail(L) = 1 .. n - 1
        /\ \A k \in 1 .. n - 1 : Tail(L)[k] = L[k + 1]
    BY <1>5, <2>1
  <2> DEFINE T == Tail(L)
  <2>3. T \in Seq(Sample)
    BY <2>2
  <2> HIDE DEF T
  <2>4. T = [k \in DOMAIN T |-> T[k]]
    BY <2>3
  <2> QED
    BY <2>1, <2>2, <2>4 DEF T
<1>7. /\ \A k \in 1 .. n - 1 : L[k + 1] = v(queue[b][k + 1])
      /\ L[1] = v(queue[b][1])
  <2>1. \A k \in 1 .. n - 1 : k + 1 \in 1 .. n
    BY <1>1
  <2> QED
    BY <1>1, <1>4, <2>1 DEF L
<1>8. Line(b)' = Tail(L)
  BY <1>3, <1>6, <1>7
<1> QED
  BY <1>1, <1>6, <1>7, <1>8 DEF v, L

LEMMA LineLonger ==
  ASSUME NEW S, NEW b \in Iblocks, queue[b] \in Seq(S), NEW x \in S, Line(b) \in Seq(Sample),
         queue'[b] = Append(queue[b], x), data' = data,
         (IF b \in Cyclics THEN data[b][x] ELSE x) \in Sample
  PROVE  Line(b)' = Append(Line(b), IF b \in Cyclics THEN data[b][x] ELSE x)
<1> DEFINE v(y) == IF b \in Cyclics THEN data[b][y] ELSE y
           n == Len(queue[b])
<1>1. /\ n \in Nat /\ DOMAIN queue[b] = 1 .. n /\ DOMAIN queue'[b] = 1 .. n + 1
      /\ queue'[b][n + 1] = x
      /\ \A k \in 1 .. n : queue'[b][k] = queue[b][k]
  OBVIOUS
<1>2. Line(b) = [k \in 1 .. n |-> v(queue[b][k])]
  BY <1>1 DEF Line
<1>3. Line(b)' = [k \in 1 .. n + 1 |-> v(queue'[b][k])]
  BY <1>1 DEF Line
<1> HIDE DEF n, v
<1>4. Line(b) \in Seq(Sample) /\ DOMAIN Line(b) = 1 .. n /\ \A k \in 1 .. n : Line(b)[k] = v(queue[b][k])
  BY <1>2
<1> DEFINE L == Line(b)
           y == v(x)
           A == Append(L, y)
<1>5. /\ DOMAIN A = 1 .. n + 1 /\ A = [k \in 1 .. n + 1 |-> A[k]]
      /\ A[n + 1] = y /\ \A k \in 1 .. n : A[k] = v(queue[b][k])
  <2>1. L \in Seq(Sample) /\ DOMAIN L = 1 .. n /\ n \in Nat
    BY <1>1, <1>4
  <2>2. \A k \in 1 .. n : L[k] = v(queue[b][k])
    BY <1>4
  <2>3. y \in Sample
    BY DEF v
  <2> HIDE DEF L, y
  <2>4. Len(L) = n
    BY <2>1
  <2>5. /\ A \in Seq(Sample) /\ DOMAIN A = 1 .. n + 1
        /\ A[n + 1] = y /\ \A k \in 1 .. n : A[k] = L[k]
    BY <2>1, <2>3, <2>4
  <2> HIDE DEF A
  <2>6. A = [k \in DOMAIN A |-> A[k]]
    BY <2>5
  <2> QED
    BY <2>2, <2>5, <2>6
<1>6. \A k \in 1 .. n + 1 : Append(Line(b), v(x))[k] = v(queue'[b][k])
  <2> SUFFICES ASSUME NEW k \in 1 .. n + 1 PROVE Append(Line(b), v(x))[k] = v(queue'[b][k])
    OBVIOUS
  <2>1. CASE k = n + 1
    BY <1>1, <1>5, <2>1
  <2>2. CASE k # n + 1
    <3>1. k \in 1 .. n
      BY <1>1, <2>2
    <3> QED
      BY <1>1, <1>5, <3>1
  <2> QED
    BY <2>1, <2>2
<1>7. Line(b)' = Append(Line(b), v(x))
  BY <1>3, <1>5, <1>6
<1> QED
  BY <1>7 DEF v

\* A step that leaves all samples where they are.
LEMMA SilentStep ==
  ASSUME OInv, NEW p \in Ports, PInv', OthersStay(p), SampleMoves(p),
         UNCHANGED <<data, queue, got>>, \A q \in Ports \ {p} : elem'[q] = elem[q],
         p \in Ins => pc'[p] # "copy", p \in Outs => Writing(p)'
  PROVE  OInv' /\ GotGrows
<1>1. \A b \in Iblocks : LineMoves(p, b) /\ GotMoves(p, b)
  BY LineSame DEF LineMoves, GotMoves
<1>2. OthersHold(p)
  BY DEF OthersHold, OthersStay, InHand, Target
<1>3. OrderTypes'
  <2>1. sample' \in [Outs -> [from : Outs \cup {"none"}, n : Nat]]
    BY SamplesGrow
  <2> QED
    BY <2>1 DEF OInv, OrderTypes, Elements
<1>4. p \in Ins => Reading(p)'
  BY DEF Reading
<1> QED
  BY <1>1, <1>2, <1>3, <1>4, OrderKept DEF OrderStep

LEMMA SilentSteps ==
  ASSUME OInv, NEW p \in Ports,
         \/ \E b \in Iblocks : Connect(p, b) \/ Disconnect(p, b)
         \/ SkipTarget(p) \/ EndLoop(p) \/ NoData(p)
         \/ p \in Ins /\ BeginRead(p)
         \/ p \in Outs /\ (BeginWrite(p) \/ CountOverrun(p) \/ StoreOverrun(p) \/ TakeFree(p))
  PROVE  OInv' /\ GotGrows
<1>1. /\ PInv /\ pc \in [Ports -> Holding \cup {"idle", "loop"}] /\ elem \in [Ports -> Nat]
      /\ p \in Ins => p \notin Outs
  BY PortsAssumption DEF OInv, PInv, PortTypes, PortsAssumption
<1>2. PInv' /\ OthersStay(p)
  <2>1. CASE \E b \in Iblocks : Connect(p, b) \/ Disconnect(p, b)
    BY <1>1, <2>1, MainSteps DEF Calm
  <2>2. CASE \/ SkipTarget(p) \/ EndLoop(p) \/ NoData(p)
             \/ p \in Ins /\ BeginRead(p)
             \/ p \in Outs /\ BeginWrite(p)
    BY <1>1, <2>2, LoopSteps DEF Calm
  <2>3. CASE p \in Outs /\ (CountOverrun(p) \/ StoreOverrun(p))
    BY <1>1, <2>3, CountSteps
  <2>4. CASE p \in Outs /\ TakeFree(p)
    BY <1>1, <2>4, TakeSteps
  <2> QED
    BY <2>1, <2>2, <2>3, <2>4
<1>3. /\ UNCHANGED <<data, queue, got>> /\ \A q \in Ports \ {p} : elem'[q] = elem[q]
      /\ SampleMoves(p)
  <2>1. UNCHANGED <<data, queue, got>>
    BY DEF Connect, Disconnect, SkipTarget, EndLoop, NoData, BeginRead, BeginWrite,
           CountOverrun, StoreOverrun, TakeFree, bufVars
  <2>2. elem' = elem \/ \E e : elem' = [elem EXCEPT ![p] = e]
    BY DEF Connect, Disconnect, SkipTarget, EndLoop, NoData, BeginRead, BeginWrite,
           CountOverrun, StoreOverrun, TakeFree
  <2>3. SampleMoves(p)
    BY DEF Connect, Disconnect, SkipTarget, EndLoop, NoData, BeginRead, BeginWrite,
           CountOverrun, StoreOverrun, TakeFree, SampleMoves
  <2> QED
    BY <1>1, <2>1, <2>2, <2>3
<1>4. \E v \in {"idle", "loop", "store", "copy"} :
        /\ pc' = [pc EXCEPT ![p] = v]
        /\ v = "copy" => p \in Outs
        /\ p \in Outs => v = "idle" \/ (pc[p] # "idle" /\ sample' = sample) \/ BeginWrite(p)
  <2>1. CASE \E b \in Iblocks : Connect(p, b) \/ Disconnect(p, b)
    <3>1. pc[p] = "idle" /\ pc' = pc
      BY <2>1 DEF Connect, Disconnect
    <3>2. pc' = [pc EXCEPT ![p] = "idle"]
      BY <1>1, <3>1
    <3> QED
      BY <3>2
  <2>2. CASE ~(\E b \in Iblocks : Connect(p, b) \/ Disconnect(p, b))
    BY <1>1, <2>2 DEF SkipTarget, EndLoop, NoData, BeginRead, BeginWrite, CountOverrun,
           StoreOverrun, TakeFree, NextTarget, Return, AtTarget
  <2> QED
    BY <2>1, <2>2
<1>5. p \in Ins => pc'[p] # "copy"
  BY <1>1, <1>4
<1>6. ASSUME p \in Outs PROVE Writing(p)'
  <2>1. pc'[p] # "put"
    BY <1>1, <1>4
  <2>2. ASSUME pc'[p] # "idle" PROVE sample'[p].from = p
    <3>1. CASE BeginWrite(p)
      <4>1. sample' = [sample EXCEPT ![p] = [from |-> p, n |-> sample[p].n + 1]]
        BY <3>1 DEF BeginWrite
      <4>2. sample'[p] = [from |-> p, n |-> sample[p].n + 1]
        BY <1>6, <4>1 DEF OInv, OrderTypes
      <4> QED
        BY <4>2
    <3>2. CASE ~BeginWrite(p)
      BY <1>1, <1>4, <1>6, <2>2, <3>2 DEF OInv, Writing
    <3> QED
      BY <3>1, <3>2
  <2> QED
    BY <2>1, <2>2 DEF Writing
<1> QED
  BY <1>2, <1>3, <1>5, <1>6, SilentStep

\* The head of a line leaves it.
LEMMA ShorterStep ==
  ASSUME OInv, NEW p \in Ports, PInv', OthersStay(p), NEW b \in Iblocks, NEW S,
         queue[b] \in Seq(S), queue[b] # <<>>, queue' = [queue EXCEPT ![b] = Tail(@)],
         UNCHANGED <<data, sample>>, \A q \in Ports \ {p} : elem'[q] = elem[q]
  PROVE  /\ \A c \in Iblocks : LineMoves(p, c)
         /\ \A c \in Mqueues : queue'[c] \in Seq(Sample)
         /\ OthersHold(p) /\ SampleMoves(p)
         /\ Head(Line(b)) = IF b \in Cyclics THEN data[b][Head(queue[b])] ELSE Head(queue[b])
         /\ Line(b)' = Tail(Line(b)) /\ Line(b) # <<>>
<1>1. DOMAIN queue = Iblocks
  BY DEF OInv, PInv, PortTypes
<1>2. queue'[b] = Tail(queue[b]) /\ \A c \in Iblocks \ {b} : queue'[c] = queue[c]
  BY <1>1
<1>3. Line(b) \in Seq(Sample)
  BY DEF OInv, InLine
<1>4. /\ Line(b) # <<>> /\ Line(b)' = Tail(Line(b))
      /\ Head(Line(b)) = IF b \in Cyclics THEN data[b][Head(queue[b])] ELSE Head(queue[b])
  BY <1>2, <1>3, LineShorter
<1>5. \A c \in Iblocks \ {b} : Line(c)' = Line(c)
  BY <1>2, LineSame
<1>6. \A c \in Iblocks : LineMoves(p, c)
  BY <1>4, <1>5 DEF LineMoves
<1>7. OthersHold(p) /\ SampleMoves(p)
  BY DEF OthersHold, OthersStay, InHand, Target, SampleMoves
<1>8. ASSUME NEW c \in Mqueues PROVE queue'[c] \in Seq(Sample)
  <2>1. queue[c] \in Seq(Sample) /\ c \in Iblocks
    BY DEF OInv, OrderTypes, Iblocks
  <2>2. CASE c = b
    BY <1>2, <2>1, <2>2, HeadAndTail
  <2>3. CASE c # b
    BY <1>2, <2>1, <2>3
  <2> QED
    BY <2>2, <2>3
<1> QED
  BY <1>4, <1>6, <1>7, <1>8

\* A sample of p joins a line.
LEMMA LongerStep ==
  ASSUME OInv, NEW p \in Outs, PInv', OthersStay(p), NEW b \in Iblocks, NEW S,
         pc[p] # "idle", queue[b] \in Seq(S), NEW x \in S,
         sample[p] = IF b \in Cyclics THEN data[b][x] ELSE x,
         queue' = [queue EXCEPT ![b] = Append(@, x)], b \in Mqueues => x = sample[p],
         UNCHANGED <<data, sample, got>>, \A q \in Ports \ {p} : elem'[q] = elem[q],
         pc'[p] \in {"idle", "loop"}
  PROVE  OInv' /\ GotGrows
<1>1. DOMAIN queue = Iblocks /\ p \in Ports /\ p \notin Ins
  BY PortsAssumption DEF OInv, PInv, PortTypes, Ports, PortsAssumption
<1>2. queue'[b] = Append(queue[b], x) /\ \A c \in Iblocks \ {b} : queue'[c] = queue[c]
  BY <1>1
<1>3. Line(b) \in Seq(Sample)
  BY DEF OInv, InLine
<1>4. sample[p].from = p /\ sample[p] \in Sample
  <2>1. sample[p].from = p /\ sample[p] \in [from : Outs \cup {"none"}, n : Nat]
    BY DEF OInv, Writing, OrderTypes
  <2> QED
    BY <2>1 DEF Sample
<1>5. Line(b)' = Append(Line(b), sample[p])
  BY <1>2, <1>3, <1>4, LineLonger
<1>6. \A c \in Iblocks \ {b} : Line(c)' = Line(c)
  BY <1>2, LineSame
<1>7. \A c \in Iblocks : LineMoves(p, c) /\ GotMoves(p, c)
  BY <1>5, <1>6 DEF LineMoves, GotMoves
<1>8. OthersHold(p) /\ SampleMoves(p)
  BY DEF OthersHold, OthersStay, InHand, Target, SampleMoves
<1>9. OrderTypes'
  <2>1. ASSUME NEW c \in Mqueues PROVE queue'[c] \in Seq(Sample)
    <3>1. queue[c] \in Seq(Sample) /\ c \in Iblocks
      BY DEF OInv, OrderTypes, Iblocks
    <3>2. CASE c = b
      BY <1>2, <1>4, <3>1, <3>2, Appended
    <3>3. CASE c # b
      BY <1>2, <3>1, <3>3
    <3> QED
      BY <3>2, <3>3
  <2> QED
    BY <2>1 DEF OInv, OrderTypes, Elements
<1>10. Writing(p)'
  BY <1>4 DEF Writing
<1> QED
  BY <1>1, <1>7, <1>8, <1>9, <1>10, OrderKept DEF OrderStep

\* Only the element in the hand of p changes.
LEMMA DataStep ==
  ASSUME OInv, NEW p \in Ports, OthersStay(p), pc[p] \in Holding, NEW b \in Cyclics,
         b = Target(p), NEW v, data' = [data EXCEPT ![b][elem[p]] = v],
         queue' = queue, \A q \in Ports \ {p} : elem'[q] = elem[q]
  PROVE  /\ \A c \in Iblocks : Line(c)' = Line(c)
         /\ OthersHold(p) /\ data'[b][elem[p]] = v
         /\ DOMAIN data' = Cyclics /\ \A c \in Cyclics : DOMAIN data'[c] = Elements(c)
<1>1. p \in Holders(b) /\ PInv
  BY DEF Holders, Holding, OInv
<1>2. DOMAIN data = Cyclics /\ \A c \in Cyclics : DOMAIN data[c] = Elements(c)
  BY DEF OInv, OrderTypes
<1>3. elem[p] \in Elements(b)
  <2>1. free[b] \cup ToSet(queue[b]) \cup {elem[q] : q \in Holders(b)} = Elements(b)
    BY <1>1 DEF PInv, ElementsOwned
  <2> QED
    BY <1>1, <2>1
<1>4. /\ data'[b] = [data[b] EXCEPT ![elem[p]] = v]
      /\ \A c \in Cyclics \ {b} : data'[c] = data[c]
      /\ DOMAIN data' = Cyclics
  BY <1>2
<1>5. /\ data'[b][elem[p]] = v /\ \A e \in Elements(b) \ {elem[p]} : data'[b][e] = data[b][e]
      /\ \A c \in Cyclics : DOMAIN data'[c] = Elements(c)
  <2>1. DOMAIN data[b] = Elements(b)
    BY <1>2
  <2>2. /\ data'[b][elem[p]] = v /\ \A e \in Elements(b) \ {elem[p]} : data'[b][e] = data[b][e]
        /\ DOMAIN data'[b] = Elements(b)
    BY <1>3, <1>4, <2>1
  <2> QED
    BY <1>2, <1>4, <2>2
<1>6. /\ elem[p] \notin ToSet(queue[b])
      /\ \A q \in Holders(b) : q # p => elem[q] # elem[p]
  BY <1>1, OnePlace
<1>7. ToSet(queue[b]) \subseteq Elements(b) /\ \A q \in Holders(b) : elem[q] \in Elements(b)
  BY <1>1 DEF PInv, ElementsOwned
<1>8. ASSUME NEW c \in Iblocks PROVE Line(c)' = Line(c)
  <2>1. ASSUME c \in Cyclics, NEW k \in DOMAIN queue[c]
        PROVE  data'[c][queue[c][k]] = data[c][queue[c][k]]
    <3>1. CASE c = b
      <4>1. queue[b][k] \in ToSet(queue[b])
        BY <2>1, <3>1 DEF ToSet
      <4> QED
        BY <1>5, <1>6, <1>7, <3>1, <4>1
    <3>2. CASE c # b
      BY <1>4, <2>1, <3>2
    <3> QED
      BY <3>1, <3>2
  <2> QED
    BY <2>1, LineSame
<1>9. ASSUME NEW q \in Ports \ {p}, pc[q] \in {"copy", "put"}
      PROVE  InHand(q)' = InHand(q)
  <2>1. Target(q)' = Target(q) /\ elem'[q] = elem[q]
    BY DEF OthersStay, Target
  <2>2. Target(q) \in Cyclics
    BY <1>1, <1>9 DEF PInv, HoldersFit, Holding
  <2>3. data'[Target(q)][elem[q]] = data[Target(q)][elem[q]]
    <3>1. CASE Target(q) = b
      <4>1. q \in Holders(b) /\ q # p
        BY <1>9, <3>1 DEF Holders
      <4> QED
        BY <1>5, <1>6, <1>7, <3>1, <4>1
    <3>2. CASE Target(q) # b
      BY <1>4, <2>2, <3>2
    <3> QED
      BY <3>1, <3>2
  <2> QED
    BY <2>1, <2>3 DEF InHand
<1> QED
  BY <1>4, <1>5, <1>8, <1>9 DEF OthersHold

\* A sample is copied in, or its element given back.
LEMMA DataSteps ==
  ASSUME OInv, NEW p \in Ports, \/ p \in Outs /\ CopyIn(p)
                                \/ p \in Ins /\ PutRead(p)
  PROVE  OInv' /\ GotGrows
<1>1. /\ PInv /\ pc \in [Ports -> Holding \cup {"idle", "loop"}] /\ elem \in [Ports -> Nat]
      /\ p \in Ins => p \notin Outs
  BY PortsAssumption DEF OInv, PInv, PortTypes, PortsAssumption
<1>2. PInv' /\ OthersStay(p)
  BY <1>1, CopySteps, PutSteps DEF Calm
<1>3. /\ pc[p] \in Holding /\ pc[p] # "idle" /\ queue' = queue /\ sample' = sample /\ got' = got
  BY DEF CopyIn, PutRead, Holding
<1>4. PICK b \in Cyclics : b = Target(p)
  BY <1>1, <1>3 DEF PInv, HoldersFit
<1>5. \A q \in Ports \ {p} : elem'[q] = elem[q]
  BY <1>1 DEF CopyIn, PutRead
<1>6. PICK v : /\ data' = [data EXCEPT ![b][elem[p]] = v]
               /\ p \in Outs => v = sample[p] /\ CopyIn(p)
  BY <1>1, <1>4 DEF CopyIn, PutRead
<1>7. /\ \A c \in Iblocks : Line(c)' = Line(c)
      /\ OthersHold(p) /\ data'[b][elem[p]] = v
      /\ DOMAIN data' = Cyclics /\ \A c \in Cyclics : DOMAIN data'[c] = Elements(c)
  BY <1>2, <1>3, <1>4, <1>5, <1>6, DataStep
<1>8. OrderTypes'
  BY <1>3, <1>7 DEF OInv, OrderTypes, Elements
<1>9. OrderStep(p)
  BY <1>2, <1>3, <1>7 DEF OrderStep, SampleMoves, LineMoves, GotMoves
<1>10. p \in Ins => Reading(p)'
  BY <1>1 DEF CopyIn, PutRead, Return, Reading
<1>11. ASSUME p \in Outs PROVE Writing(p)'
  <2>1. sample[p].from = p /\ v = sample[p]
    BY <1>3, <1>6, <1>11 DEF OInv, Writing
  <2>2. elem' = elem /\ conns' = conns /\ pos' = pos
    BY <1>6, <1>11 DEF CopyIn, mainVars
  <2>3. InHand(p)' = data'[b][elem[p]]
    BY <1>4, <2>2 DEF InHand, Target
  <2> QED
    BY <1>3, <1>7, <2>1, <2>3 DEF Writing
<1> QED
  BY <1>2, <1>8, <1>9, <1>10, <1>11, OrderKept

\* A sample is copied out.
LEMMA CopyOutStep ==
  ASSUME OInv, NEW i \in Ins, CopyOut(i)
  PROVE  OInv' /\ GotGrows
<1>1. /\ PInv /\ pc \in [Ports -> Holding \cup {"idle", "loop"}] /\ i \in Ports /\ i \notin Outs
      /\ got \in [Ins -> [Iblocks -> [Outs -> Nat]]]
  BY PortsAssumption DEF OInv, OrderTypes, PInv, PortTypes, PortsAssumption, Ports
<1>2. PInv' /\ OthersStay(i)
  BY <1>1, CopySteps DEF Calm
<1>3. /\ pc[i] = "copy" /\ pc' = [pc EXCEPT ![i] = "put"]
      /\ UNCHANGED <<queue, data, sample, elem, conns, pos>>
  BY DEF CopyOut, mainVars, bufVars
<1>4. PICK b \in Iblocks : b = Target(i)
  BY <1>1, <1>3 DEF PInv, HoldersFit, Holding, Iblocks
<1>5. PICK s \in Sample : s = InHand(i) /\ Leaving(i, s)
  BY <1>3 DEF OInv, Reading, Leaving
<1>6. got' = [got EXCEPT ![i][b][s.from] = s.n]
  BY <1>4, <1>5 DEF CopyOut, Got, InHand
<1>7. s.from \in Outs /\ s.n \in Nat
  BY DEF Sample
<1>8. /\ got'[i][b] = [got[i][b] EXCEPT ![s.from] = s.n]
      /\ \A c \in Iblocks \ {b} : got'[i][c] = got[i][c]
      /\ \A j \in Ins \ {i} : got'[j] = got[j]
      /\ got' \in [Ins -> [Iblocks -> [Outs -> Nat]]]
  BY <1>1, <1>6, <1>7
<1>9. \A c \in Iblocks : Line(c)' = Line(c)
  BY <1>3, LineSame
<1>10. Reads(i, b, s)
  BY <1>4, <1>5, <1>8, <1>9 DEF Reads, Leaving
<1>11. \A c \in Iblocks : LineMoves(i, c) /\ GotMoves(i, c)
  BY <1>8, <1>9, <1>10 DEF LineMoves, GotMoves
<1>12. OthersHold(i) /\ SampleMoves(i)
  BY <1>2, <1>3 DEF OthersHold, OthersStay, InHand, Target, SampleMoves
<1>13. OrderTypes'
  BY <1>3, <1>8 DEF OInv, OrderTypes, Elements
<1>14. Reading(i)'
  BY <1>1, <1>3 DEF Reading
<1> QED
  BY <1>1, <1>2, <1>11, <1>12, <1>13, <1>14, OrderKept DEF OrderStep

\* The oldest element is taken out of the queue.
LEMMA TakeHeadSteps ==
  ASSUME OInv, NEW p \in Ports, \/ p \in Outs /\ TakeOldest(p)
                                \/ p \in Ins /\ TakeRead(p)
  PROVE  OInv' /\ GotGrows
<1>1. /\ PInv /\ pc \in [Ports -> Holding \cup {"idle", "loop"}] /\ elem \in [Ports -> Nat]
      /\ p \in Ins => p \notin Outs
  BY PortsAssumption DEF OInv, PInv, PortTypes, PortsAssumption
<1>2. PInv' /\ OthersStay(p) /\ Target(p) \in Cyclics /\ Target(p)' = Target(p)
  BY <1>1, TakeSteps
<1>3. PICK b \in Cyclics : b = Target(p)
  BY <1>2
<1>4. /\ pc[p] = "loop" /\ queue[b] # <<>> /\ queue' = [queue EXCEPT ![b] = Tail(@)]
      /\ elem' = [elem EXCEPT ![p] = Head(queue[b])]
      /\ UNCHANGED <<data, sample, got>>
  BY <1>3 DEF TakeOldest, TakeRead, AtTarget
<1>5. queue[b] \in Seq(Nat) /\ b \in Iblocks
  BY <1>1 DEF PInv, PortTypes, Iblocks
<1>6. elem'[p] = Head(queue[b]) /\ \A q \in Ports \ {p} : elem'[q] = elem[q]
  BY <1>1, <1>4
<1>7. /\ \A c \in Iblocks : LineMoves(p, c)
      /\ \A c \in Mqueues : queue'[c] \in Seq(Sample)
      /\ OthersHold(p) /\ SampleMoves(p)
      /\ Head(Line(b)) = data[b][Head(queue[b])]
      /\ Line(b)' = Tail(Line(b)) /\ Line(b) # <<>>
  BY <1>2, <1>4, <1>5, <1>6, ShorterStep
<1>8. \A c \in Iblocks : GotMoves(p, c)
  BY <1>4 DEF GotMoves
<1>9. OrderTypes'
  BY <1>4, <1>7 DEF OInv, OrderTypes, Elements
<1>10. ASSUME p \in Outs PROVE Writing(p)'
  <2>1. pc'[p] = "count"
    BY <1>1, <1>10 DEF TakeOldest, TakeRead
  <2>2. sample[p].from = p
    BY <1>4, <1>10 DEF OInv, Writing
  <2> QED
    BY <1>4, <2>1, <2>2 DEF Writing
<1>11. ASSUME p \in Ins PROVE Reading(p)'
  <2>1. Line(b) \in Seq(Sample) /\ Sorted(Line(b))
    BY <1>5 DEF OInv, InLine
  <2>2. /\ Head(Line(b)) \in Sample /\ ToSet(Line(b)) = {Head(Line(b))} \cup ToSet(Tail(Line(b)))
        /\ \A t \in ToSet(Tail(Line(b))) : Before(Head(Line(b)), t)
    BY <1>7, <2>1, TailSorted
  <2>3. PICK s \in Sample : s = Head(Line(b))
    BY <2>2
  <2>4. s.n <= sample[s.from].n /\ got[p][b][s.from] <= s.n
    BY <1>5, <1>11, <2>2, <2>3 DEF OInv, InLine
  <2>5. InHand(p)' = s /\ Target(p)' = b
    BY <1>2, <1>3, <1>4, <1>6, <1>7, <2>3 DEF InHand
  <2>6. \A t \in ToSet(Line(b)') : Before(s, t)
    BY <1>7, <2>2, <2>3
  <2>7. ToSet(Line(Target(p)))' = ToSet(Line(b)')
    BY <2>5 DEF Line, ToSet
  <2> QED
    BY <1>4, <2>4, <2>5, <2>6, <2>7 DEF Reading, Leaving
<1> QED
  BY <1>2, <1>7, <1>8, <1>9, <1>10, <1>11, OrderKept DEF OrderStep

\* The element with the sample of p is queued, or the message queue takes it.
LEMMA AppendSteps ==
  ASSUME OInv, NEW p \in Outs, PutWritten(p) \/ MqSend(p)
  PROVE  OInv' /\ GotGrows
<1>1. /\ PInv /\ p \in Ports /\ p \notin Ins /\ elem \in [Ports -> Nat]
      /\ pc \in [Ports -> Holding \cup {"idle", "loop"}]
  BY PortsAssumption DEF OInv, PInv, PortTypes, PortsAssumption, Ports
<1>2. PInv' /\ OthersStay(p)
  BY <1>1, PutSteps, LoopSteps DEF Calm
<1>3. /\ pc[p] # "idle" /\ pc' = [pc EXCEPT ![p] = "loop"] /\ UNCHANGED <<data, sample, got>>
  BY DEF PutWritten, MqSend, AtTarget, NextTarget
<1>4. /\ pc'[p] = "loop" /\ \A q \in Ports \ {p} : elem'[q] = elem[q]
  BY <1>1, <1>3 DEF PutWritten, MqSend
<1>5. CASE PutWritten(p)
  <2>1. pc[p] = "put" /\ pc[p] \in Holding /\ queue' = [queue EXCEPT ![Target(p)] = Append(@, elem[p])]
    BY <1>5 DEF PutWritten, Holding
  <2>2. PICK b \in Cyclics : b = Target(p)
    BY <1>1, <2>1 DEF PInv, HoldersFit
  <2>3. queue[b] \in Seq(Nat) /\ b \in Iblocks /\ b \notin Mqueues /\ elem[p] \in Nat
    BY <1>1, PortsAssumption DEF PInv, PortTypes, Iblocks, PortsAssumption
  <2>4. sample[p] = data[b][elem[p]]
    BY <2>1, <2>2 DEF OInv, Writing, InHand
  <2>5. queue' = [queue EXCEPT ![b] = Append(@, elem[p])]
    BY <2>1, <2>2
  <2> QED
    BY <1>2, <1>3, <1>4, <2>3, <2>4, <2>5, LongerStep
<1>6. CASE MqSend(p)
  <2>1. PICK b \in Mqueues : b = Target(p)
    BY <1>6 DEF MqSend, AtTarget
  <2>2. queue' = queue \/ queue' = [queue EXCEPT ![b] = Append(@, sample[p])]
    BY <1>6, <2>1 DEF MqSend
  <2>3. queue[b] \in Seq(Sample) /\ b \in Iblocks /\ b \notin Cyclics
    BY PortsAssumption DEF OInv, OrderTypes, Iblocks, PortsAssumption
  <2>4. sample[p].from = p /\ sample[p] \in Sample
    <3>1. sample[p].from = p /\ sample[p] \in [from : Outs \cup {"none"}, n : Nat]
      BY <1>3 DEF OInv, Writing, OrderTypes
    <3> QED
      BY <3>1 DEF Sample
  <2>5. CASE queue' = queue
    <3>1. Writing(p)'
      BY <1>3, <1>4, <2>4 DEF Writing
    <3> QED
      BY <1>1, <1>2, <1>3, <1>4, <2>5, <3>1, SilentStep DEF SampleMoves
  <2>6. CASE queue' = [queue EXCEPT ![b] = Append(@, sample[p])]
    BY <1>2, <1>3, <1>4, <2>3, <2>4, <2>6, LongerStep
  <2> QED
    BY <2>2, <2>5, <2>6
<1> QED
  BY <1>5, <1>6

\* A message is received.
LEMMA MqReceiveStep ==
  ASSUME OInv, NEW i \in Ins, MqReceive(i)
  PROVE  OInv' /\ GotGrows
<1>1. /\ PInv /\ pc \in [Ports -> Holding \cup {"idle", "loop"}] /\ i \in Ports /\ i \notin Outs
      /\ got \in [Ins -> [Iblocks -> [Outs -> Nat]]]
  BY PortsAssumption DEF OInv, OrderTypes, PInv, PortTypes, PortsAssumption, Ports
<1>2. PInv' /\ OthersStay(i)
  BY <1>1, LoopSteps DEF Calm
<1>3. PICK b \in Mqueues : b = Target(i)
  BY DEF MqReceive, AtTarget
<1>4. /\ queue[b] # <<>> /\ queue' = [queue EXCEPT ![b] = Tail(@)]
      /\ got' = [got EXCEPT ![i][b][Head(queue[b]).from] = Head(queue[b]).n]
      /\ pc' = [pc EXCEPT ![i] = "idle"] /\ UNCHANGED <<data, sample, elem>>
  BY <1>3 DEF MqReceive, Got, Return
<1>5. queue[b] \in Seq(Sample) /\ b \in Iblocks /\ b \notin Cyclics
  BY PortsAssumption DEF OInv, OrderTypes, Iblocks, PortsAssumption
<1>6. /\ \A c \in Iblocks : LineMoves(i, c)
      /\ \A c \in Mqueues : queue'[c] \in Seq(Sample)
      /\ OthersHold(i) /\ SampleMoves(i)
      /\ Head(Line(b)) = Head(queue[b])
      /\ Line(b)' = Tail(Line(b)) /\ Line(b) # <<>>
  BY <1>1, <1>2, <1>4, <1>5, ShorterStep
<1>7. Line(b) \in Seq(Sample) /\ Sorted(Line(b))
  BY <1>5 DEF OInv, InLine
<1>8. /\ Head(Line(b)) \in Sample /\ ToSet(Line(b)) = {Head(Line(b))} \cup ToSet(Tail(Line(b)))
      /\ \A t \in ToSet(Tail(Line(b))) : Before(Head(Line(b)), t)
  BY <1>6, <1>7, TailSorted
<1>9. PICK s \in Sample : s = Head(queue[b])
  BY <1>6, <1>8
<1>10. s.from \in Outs /\ s.n \in Nat /\ got' = [got EXCEPT ![i][b][s.from] = s.n]
  BY <1>4, <1>9 DEF Sample
<1>11. /\ got'[i][b] = [got[i][b] EXCEPT ![s.from] = s.n]
       /\ \A c \in Iblocks \ {b} : got'[i][c] = got[i][c]
       /\ \A j \in Ins \ {i} : got'[j] = got[j]
       /\ got' \in [Ins -> [Iblocks -> [Outs -> Nat]]]
  BY <1>1, <1>5, <1>10
<1>12. s.n <= sample[s.from].n /\ got[i][b][s.from] <= s.n
  BY <1>5, <1>6, <1>8, <1>9 DEF OInv, InLine
<1>13. \A t \in ToSet(Line(b)') : Before(s, t)
  BY <1>6, <1>8, <1>9
<1>14. Reads(i, b, s)
  BY <1>11, <1>12, <1>13 DEF Reads
<1>15. \A c \in Iblocks : GotMoves(i, c)
  BY <1>11, <1>14 DEF GotMoves
<1>16. OrderTypes'
  BY <1>4, <1>6, <1>11 DEF OInv, OrderTypes, Elements
<1>17. Reading(i)'
  BY <1>1, <1>4 DEF Reading
<1> QED
  BY <1>1, <1>2, <1>6, <1>15, <1>16, <1>17, OrderKept DEF OrderStep

\* ubx_block_start and ubx_block_stop
LEMMA OInvUnchanged ==
  ASSUME OInv, UNCHANGED <<conns, bufVars, pc, pos, elem, sample, seenOverruns, got>>
  PROVE  OInv' /\ GotGrows
<1>1. PInv'
  BY PInvUnchanged DEF OInv, bufVars
<1>2. UNCHANGED <<conns, queue, data, pc, pos, elem, sample, got>>
  BY DEF bufVars
<1>3. \A b \in Iblocks : Line(b)' = Line(b)
  BY <1>2, LineSame
<1>4. \A b \in Iblocks : InLine(b)'
  BY <1>2, <1>3 DEF OInv, InLine
<1>5. \A o \in Outs : Writing(o)'
  BY <1>2 DEF OInv, Writing, InHand, Target
<1>6. \A i \in Ins : Reading(i)'
  BY <1>2 DEF OInv, Reading, Leaving, InHand, Target, Line
<1>7. OrderTypes' /\ GotSent'
  BY <1>2 DEF OInv, OrderTypes, GotSent, Elements
<1>8. GotGrows
  BY <1>2 DEF OInv, OrderTypes, GotGrows
<1> QED
  BY <1>1, <1>4, <1>5, <1>6, <1>7, <1>8 DEF OInv

LEMMA OInvInit == Init => OInv
<1> SUFFICES ASSUME Init PROVE OInv
  OBVIOUS
<1>1. PInv
  BY PInvInit
<1>2. OrderTypes
  BY DEF Init, OrderTypes, NoSample, Iblocks
<1>3. GotSent
  BY DEF Init, GotSent, NoSample
<1>4. ASSUME NEW b \in Iblocks PROVE InLine(b)
  <2>1. queue[b] = <<>>
    BY DEF Init
  <2>2. Line(b) = <<>>
    BY <2>1 DEF Line
  <2> QED
    BY <2>2 DEF InLine, Sorted, ToSet
<1>5. \A p \in Ports : pc[p] = "idle"
  BY DEF Init
<1> QED
  BY <1>1, <1>2, <1>3, <1>4, <1>5 DEF OInv, Reading, Writing, Ports

LEMMA OInvNext == OInv /\ [Next]_vars => OInv' /\ GotGrows
<1> SUFFICES ASSUME OInv, [Next]_vars PROVE OInv' /\ GotGrows
  OBVIOUS
<1>1. CASE Next
  <2>1. CASE \E p \in Ports, b \in Iblocks : Connect(p, b) \/ Disconnect(p, b)
    BY <2>1, SilentSteps
  <2>2. CASE \E b \in Iblocks : StartStop(b)
    BY <2>2, OInvUnchanged DEF StartStop
  <2>3. CASE \E p \in Ports : \/ SkipTarget(p) \/ EndLoop(p) \/ NoData(p)
                              \/ p \in Outs /\ (BeginWrite(p) \/ MqSend(p))
                              \/ p \in Ins /\ (BeginRead(p) \/ MqReceive(p))
    BY <2>3, SilentSteps, AppendSteps, MqReceiveStep
  <2>4. CASE \E p \in Ports : CopyIn(p) \/ CopyOut(p)
    BY <2>4, DataSteps, CopyOutStep DEF CopyIn, CopyOut
  <2>5. CASE \E o \in Outs : CountOverrun(o) \/ StoreOverrun(o)
    BY <2>5, SilentSteps DEF Ports
  <2>6. CASE \E p \in Ports : \/ p \in Outs /\ (TakeFree(p) \/ TakeOldest(p))
                              \/ p \in Ins /\ TakeRead(p)
    BY <2>6, SilentSteps, TakeHeadSteps
  <2>7. CASE \E p \in Ports : PutWritten(p) \/ PutRead(p)
    BY <2>7, AppendSteps, DataSteps DEF PutWritten, PutRead
  <2> QED
    BY <1>1, <2>1, <2>2, <2>3, <2>4, <2>5, <2>6, <2>7, StepKinds
<1>2. CASE UNCHANGED vars
  BY <1>2, OInvUnchanged DEF vars, mainVars
<1> QED
  BY <1>1, <1>2

\* For any number of ports, interactions of both kinds and any connections, made
\* and undone while the threads run: no port reads a sample that is older than
\* one of the same writer it has read from the same interaction before.
THEOREM InOrderHolds == Spec => InOrder
<1>1. OInv /\ [Next]_vars => [GotGrows]_got
  BY OInvNext
<1> QED
  BY OInvInit, OInvNext, <1>1, PTL DEF Spec, InOrder, GotGrows

-----------------------------------------------------------------------------
(* The connections of a port.                                               *)

Places(s, b) == {k \in DOMAIN s : s[k] = b}

LEMMA PlacesFinite ==
  ASSUME NEW S, NEW s \in Seq(S), NEW b
  PROVE  /\ Len(s) \in Nat /\ DOMAIN s = 1 .. Len(s)
         /\ Places(s, b) \subseteq 1 .. Len(s)
         /\ IsFiniteSet(Places(s, b)) /\ Count(s, b) \in Nat
         /\ Count(s, b) = Cardinality(Places(s, b))
<1>1. Len(s) \in Nat /\ DOMAIN s = 1 .. Len(s) /\ Places(s, b) \subseteq 1 .. Len(s)
  BY DEF Places
<1>2. IsFiniteSet(1 .. Len(s))
  BY <1>1, Counted
<1>3. IsFiniteSet(Places(s, b))
  BY <1>1, <1>2, FS_Subset
<1> QED
  BY <1>1, <1>3, FS_CardinalityType DEF Places, Count

\* A nonempty set of natural numbers has a least element.
LEMMA Least ==
  ASSUME NEW T, T \subseteq Nat, T # {}
  PROVE  \E x \in T : \A y \in T : x <= y
<1> DEFINE R == OpToRel(<, Nat)
<1>1. IsWellFoundedOn(R, Nat)
  BY NatLessThanWellFounded, Zenon
<1> HIDE DEF R
<1>2. PICK x \in T : \A y \in T : ~(<<y, x>> \in R)
  BY <1>1, WFMin
<1>3. \A y \in Nat, z \in Nat : y < z => <<y, z>> \in R
  BY DEF OpToRel, R
<1>4. ASSUME NEW y \in T PROVE x <= y
  <2>1. x \in Nat /\ y \in Nat
    OBVIOUS
  <2>2. ~(y < x)
    BY <1>2, <1>3, <2>1
  <2> QED
    BY <2>1, <2>2
<1> QED
  BY <1>4

LEMMA Greatest ==
  ASSUME NEW n \in Nat, NEW K, K \subseteq 1 .. n, K # {}
  PROVE  Max(K) \in K /\ \A k \in K : Max(K) >= k
<1> DEFINE T == {n - k : k \in K}
<1>1. T \subseteq Nat /\ T # {}
  <2>1. \A k \in K : k \in Nat /\ n - k \in Nat
    OBVIOUS
  <2>2. \E k \in K : n - k \in T
    OBVIOUS
  <2> QED
    BY <2>1, <2>2
<1>2. PICK x \in T : \A y \in T : x <= y
  <2> HIDE DEF T
  <2> QED
    BY <1>1, Least
<1>3. PICK m \in K : x = n - m
  OBVIOUS
<1>4. \A k \in K : m >= k
  <2> TAKE k \in K
  <2>1. n - k \in T
    OBVIOUS
  <2>2. n - m <= n - k
    BY <1>2, <1>3, <2>1
  <2> QED
    BY <2>2
<1> QED
  BY <1>3, <1>4 DEF Max

\* A connect adds the new interaction and keeps the others.
LEMMA CountAppend ==
  ASSUME NEW S, NEW s \in Seq(S), NEW c \in S, NEW b
  PROVE  /\ Append(s, c) \in Seq(S)
         /\ Count(Append(s, c), b) = IF b = c THEN Count(s, b) + 1 ELSE Count(s, b)
<1> DEFINE t == Append(s, c)
           n == Len(s)
<1>1. /\ t \in Seq(S) /\ n \in Nat /\ DOMAIN s = 1 .. n /\ DOMAIN t = 1 .. n + 1
      /\ t[n + 1] = c /\ \A k \in 1 .. n : t[k] = s[k]
  OBVIOUS
<1>2. IsFiniteSet(Places(s, b)) /\ Places(s, b) \subseteq 1 .. n
  BY PlacesFinite
<1> HIDE DEF t, n
<1>3. Places(t, b) = IF b = c THEN Places(s, b) \cup {n + 1} ELSE Places(s, b)
  BY <1>1 DEF Places
<1>4. n + 1 \notin Places(s, b)
  BY <1>1, <1>2
<1>5. Cardinality(Places(s, b) \cup {n + 1}) = Cardinality(Places(s, b)) + 1
  BY <1>2, <1>4, FS_AddElement
<1>6. Count(t, b) = Cardinality(Places(t, b)) /\ Count(s, b) = Cardinality(Places(s, b))
  BY DEF Count, Places
<1>7. Count(t, b) = IF b = c THEN Count(s, b) + 1 ELSE Count(s, b)
  BY <1>3, <1>5, <1>6
<1> QED
  BY <1>1, <1>7 DEF t

LEMMA Replaced ==
  ASSUME NEW S, NEW s \in Seq(S), NEW m \in 1 .. Len(s), NEW d \in S
  PROVE  [s EXCEPT ![m] = d] \in Seq(S) /\ Len([s EXCEPT ![m] = d]) = Len(s)
OBVIOUS

\* A disconnect loses one place of the interaction, and those of the others are
\* as many as before, although the last connection has moved.
LEMMA CountRemoved ==
  ASSUME NEW S, NEW s \in Seq(S), NEW c, Contains(s, c), NEW b
  PROVE  /\ Removed(s, c) \in Seq(S)
         /\ Count(Removed(s, c), b) = IF b = c THEN Count(s, b) - 1 ELSE Count(s, b)
<1> DEFINE n == Len(s)
           m == Max(Places(s, c))
           t == Removed(s, c)
<1>1. n \in Nat /\ DOMAIN s = 1 .. n
  OBVIOUS
<1>2. /\ Places(s, c) \subseteq 1 .. n /\ Places(s, c) # {}
      /\ m \in Places(s, c) /\ \A k \in Places(s, c) : m >= k
  <2>1. Places(s, c) \subseteq 1 .. n
    BY PlacesFinite
  <2>2. Places(s, c) # {}
    BY <1>1 DEF Contains, Places
  <2> HIDE DEF m, n
  <2>3. m \in Places(s, c) /\ \A k \in Places(s, c) : m >= k
    BY <1>1, <2>1, <2>2, Greatest DEF m
  <2> QED
    BY <2>1, <2>2, <2>3
<1>3. m \in 1 .. n /\ s[m] = c /\ \A k \in 1 .. n : s[k] = c => k <= m
  <2> HIDE DEF m
  <2> QED
    BY <1>1, <1>2 DEF Places
<1>4. t = SubSeq([s EXCEPT ![m] = s[n]], 1, n - 1)
  <2>1. /\ t = Front(ReplaceAt(s, m, Last(s))) /\ Last(s) = s[n]
        /\ ReplaceAt(s, m, s[n]) = [s EXCEPT ![m] = s[n]]
    BY DEF Removed, Places, Last, ReplaceAt
  <2> DEFINE u == [s EXCEPT ![m] = s[n]]
  <2>2. u \in Seq(S) /\ Len(u) = n
    <3>1. s[n] \in S /\ m \in 1 .. n
      BY <1>1, <1>3
    <3> HIDE DEF m
    <3> QED
      BY <3>1, Replaced
  <2>3. Front(u) = SubSeq(u, 1, n - 1)
    BY <2>2 DEF Front
  <2> QED
    BY <2>1, <2>3
<1> HIDE DEF m, t
<1>5. /\ t \in Seq(S) /\ DOMAIN t = 1 .. n - 1
      /\ \A k \in 1 .. n - 1 : t[k] = IF k = m THEN s[n] ELSE s[k]
  <2> DEFINE u == [s EXCEPT ![m] = s[n]]
  <2>1. /\ u \in Seq(S) /\ Len(u) = n
        /\ \A k \in 1 .. n : u[k] = IF k = m THEN s[n] ELSE s[k]
    BY <1>1, <1>3
  <2>2. t = SubSeq(u, 1, n - 1)
    BY <1>4
  <2> HIDE DEF u
  <2>3. n - 1 \in Nat /\ n - 1 <= Len(u)
    BY <1>1, <1>3, <2>1
  <2>4. /\ SubSeq(u, 1, n - 1) \in Seq(S) /\ DOMAIN SubSeq(u, 1, n - 1) = 1 .. n - 1
        /\ \A k \in 1 .. n - 1 : SubSeq(u, 1, n - 1)[k] = u[k]
    BY <1>1, <2>1, <2>3
  <2> QED
    BY <1>1, <2>1, <2>2, <2>4
<1> HIDE DEF n
<1>6. /\ IsFiniteSet(Places(s, b)) /\ Cardinality(Places(s, b)) \in Nat
      /\ Places(s, b) \subseteq 1 .. n
  BY PlacesFinite, FS_CardinalityType DEF n
<1>7. Count(t, b) = Cardinality(Places(t, b)) /\ Count(s, b) = Cardinality(Places(s, b))
  BY DEF Count, Places
<1>8. CASE m = n
  <2>1. Places(t, b) = Places(s, b) \ {n}
    BY <1>1, <1>3, <1>5, <1>8 DEF Places
  <2>2. n \in Places(s, b) <=> b = c
    BY <1>1, <1>3, <1>8 DEF Places
  <2>3. Cardinality(Places(s, b) \ {n})
          = IF n \in Places(s, b) THEN Cardinality(Places(s, b)) - 1
                                  ELSE Cardinality(Places(s, b))
    BY <1>6, FS_RemoveElement
  <2>4. Count(t, b) = IF b = c THEN Count(s, b) - 1 ELSE Count(s, b)
    BY <1>7, <2>1, <2>2, <2>3
  <2> QED
    BY <1>5, <2>4 DEF t
<1>9. CASE m # n
  <2>1. m \in 1 .. n - 1 /\ n \in 1 .. n /\ s[n] # c
    BY <1>1, <1>3, <1>9
  <2>2. CASE b = c
    <3>1. Places(t, b) = Places(s, b) \ {m} /\ m \in Places(s, b)
      BY <1>1, <1>3, <1>5, <2>1, <2>2 DEF Places
    <3>2. Cardinality(Places(s, b) \ {m}) = Cardinality(Places(s, b)) - 1
      BY <1>6, <3>1, FS_RemoveElement
    <3> QED
      BY <1>5, <1>7, <2>2, <3>1, <3>2 DEF t
  <2>3. CASE b # c /\ b = s[n]
    <3> DEFINE K == Places(s, b) \ {n}
    <3>1. /\ n \in Places(s, b) /\ m \notin K
          /\ Places(t, b) = K \cup {m}
      BY <1>1, <1>3, <1>5, <2>1, <2>3 DEF Places
    <3>2. IsFiniteSet(K) /\ Cardinality(K) = Cardinality(Places(s, b)) - 1
      BY <1>6, <3>1, FS_RemoveElement
    <3> HIDE DEF K
    <3>3. Cardinality(K \cup {m}) = Cardinality(K) + 1
      BY <3>1, <3>2, FS_AddElement
    <3>4. Cardinality(Places(t, b)) = Cardinality(Places(s, b))
      BY <1>6, <3>1, <3>2, <3>3
    <3> QED
      BY <1>5, <1>7, <2>3, <3>4 DEF t
  <2>4. CASE b # c /\ b # s[n]
    <3>1. Places(t, b) = Places(s, b)
      BY <1>1, <1>3, <1>5, <2>1, <2>4 DEF Places
    <3> QED
      BY <1>5, <1>7, <2>4, <3>1 DEF t
  <2> QED
    BY <2>2, <2>3, <2>4
<1> QED
  BY <1>8, <1>9

KInv ==
  /\ conns \in [Ports -> Seq(Iblocks)] /\ wanted \in [Ports -> [Iblocks -> Nat]]
  /\ ConnectionsKept

LEMMA KInvInit == Init => KInv
<1> SUFFICES ASSUME Init PROVE KInv
  OBVIOUS
<1>1. conns \in [Ports -> Seq(Iblocks)]
  BY PortsAssumption DEF Init
<1>2. \A p \in Ports, b \in Iblocks : Count(conns[p], b) \in Nat
  BY <1>1, PlacesFinite
<1>3. wanted = [p \in Ports |-> [b \in Iblocks |-> Count(conns[p], b)]]
  BY DEF Init
<1> QED
  BY <1>1, <1>2, <1>3 DEF KInv, ConnectionsKept

\* one port's array changes, and its count with it
ArrayChanges(p, b, s, w) ==
  /\ conns' = [conns EXCEPT ![p] = s]
  /\ wanted' = [wanted EXCEPT ![p][b] = w]
  /\ \A c \in Iblocks : Count(s, c) = IF c = b THEN w ELSE Count(conns[p], c)

LEMMA KInvChange ==
  ASSUME KInv, NEW p \in Ports, NEW b \in Iblocks, NEW s \in Seq(Iblocks), NEW w \in Nat,
         ArrayChanges(p, b, s, w)
  PROVE  KInv'
<1> USE DEF ArrayChanges
<1>1. conns' \in [Ports -> Seq(Iblocks)] /\ wanted' \in [Ports -> [Iblocks -> Nat]]
  BY DEF KInv
<1>2. ASSUME NEW q \in Ports, NEW c \in Iblocks
      PROVE  Count(conns'[q], c) = wanted'[q][c]
  <2>1. Count(conns[q], c) = wanted[q][c]
    BY DEF KInv, ConnectionsKept
  <2>2. CASE q = p
    <3>1. conns'[q] = s /\ wanted'[q][c] = IF c = b THEN w ELSE wanted[q][c]
      BY <2>2 DEF KInv
    <3> QED
      BY <2>1, <2>2, <3>1
  <2>3. CASE q # p
    <3>1. conns'[q] = conns[q] /\ wanted'[q][c] = wanted[q][c]
      BY <2>3 DEF KInv
    <3> QED
      BY <2>1, <3>1
  <2> QED
    BY <2>2, <2>3
<1> QED
  BY <1>1, <1>2 DEF KInv, ConnectionsKept

LEMMA KInvUnchanged ==
  ASSUME KInv, UNCHANGED <<conns, wanted>>
  PROVE  KInv'
BY DEF KInv, ConnectionsKept

LEMMA KInvConnect ==
  ASSUME KInv, NEW p \in Ports, NEW b \in Iblocks, Connect(p, b)
  PROVE  KInv'
<1>1. /\ conns[p] \in Seq(Iblocks) /\ wanted[p][b] \in Nat
      /\ Count(conns[p], b) = wanted[p][b]
  BY DEF KInv, ConnectionsKept
<1> DEFINE s == Append(conns[p], b)
           w == wanted[p][b] + 1
<1>2. conns' = [conns EXCEPT ![p] = s] /\ wanted' = [wanted EXCEPT ![p][b] = w]
  BY DEF Connect, KInv
<1>3. s \in Seq(Iblocks) /\ w \in Nat
  BY <1>1
<1>4. \A c \in Iblocks : Count(s, c) = IF c = b THEN w ELSE Count(conns[p], c)
  BY <1>1, CountAppend
<1> HIDE DEF s, w
<1>9. ArrayChanges(p, b, s, w)
  BY <1>2, <1>4 DEF ArrayChanges
<1> QED
  BY <1>3, <1>9, KInvChange

LEMMA KInvDisconnect ==
  ASSUME KInv, NEW p \in Ports, NEW b \in Iblocks, Disconnect(p, b)
  PROVE  KInv'
<1>1. /\ conns[p] \in Seq(Iblocks) /\ Contains(conns[p], b) /\ wanted[p][b] \in Nat
      /\ Count(conns[p], b) = wanted[p][b]
  BY DEF KInv, ConnectionsKept, Disconnect
<1> DEFINE s == Removed(conns[p], b)
           w == wanted[p][b] - 1
<1>2. conns' = [conns EXCEPT ![p] = s] /\ wanted' = [wanted EXCEPT ![p][b] = w]
  BY DEF Disconnect, KInv
<1> HIDE DEF s
<1>3. s \in Seq(Iblocks)
  BY <1>1, CountRemoved DEF s
<1>4. \A c \in Iblocks : Count(s, c) = IF c = b THEN w ELSE Count(conns[p], c)
  BY <1>1, CountRemoved DEF s
<1>5. w \in Nat
  <2>1. Count(s, b) \in Nat
    BY <1>3, PlacesFinite
  <2> QED
    BY <1>4, <2>1
<1> HIDE DEF w
<1>9. ArrayChanges(p, b, s, w)
  BY <1>2, <1>4 DEF ArrayChanges
<1> QED
  BY <1>3, <1>5, <1>9, KInvChange

LEMMA KInvNext == KInv /\ [Next]_vars => KInv'
<1> SUFFICES ASSUME KInv, [Next]_vars PROVE KInv'
  OBVIOUS
<1>1. CASE Next
  <2>1. CASE \E p \in Ports, b \in Iblocks : Connect(p, b) \/ Disconnect(p, b)
    BY <2>1, KInvConnect, KInvDisconnect
  <2>2. CASE \E b \in Iblocks : StartStop(b)
    BY <2>2, KInvUnchanged DEF StartStop
  <2>3. CASE \E p \in Ports : \/ SkipTarget(p) \/ EndLoop(p) \/ NoData(p)
                              \/ p \in Outs /\ (BeginWrite(p) \/ MqSend(p))
                              \/ p \in Ins /\ (BeginRead(p) \/ MqReceive(p))
    BY <2>3, KInvUnchanged
       DEF SkipTarget, EndLoop, NoData, BeginWrite, MqSend, BeginRead, MqReceive, mainVars
  <2>4. CASE \E p \in Ports : CopyIn(p) \/ CopyOut(p)
    BY <2>4, KInvUnchanged DEF CopyIn, CopyOut, mainVars
  <2>5. CASE \E o \in Outs : CountOverrun(o) \/ StoreOverrun(o)
    BY <2>5, KInvUnchanged DEF CountOverrun, StoreOverrun, mainVars
  <2>6. CASE \E p \in Ports : \/ p \in Outs /\ (TakeFree(p) \/ TakeOldest(p))
                              \/ p \in Ins /\ TakeRead(p)
    BY <2>6, KInvUnchanged DEF TakeFree, TakeOldest, TakeRead, mainVars
  <2>7. CASE \E p \in Ports : PutWritten(p) \/ PutRead(p)
    BY <2>7, KInvUnchanged DEF PutWritten, PutRead, mainVars
  <2> QED
    BY <1>1, <2>1, <2>2, <2>3, <2>4, <2>5, <2>6, <2>7, StepKinds
<1>2. CASE UNCHANGED vars
  BY <1>2, KInvUnchanged DEF vars, mainVars
<1> QED
  BY <1>1, <1>2

\* For any number of ports and interactions, connected and disconnected in any
\* order: array_block_rm leaves each port with the connections that it has been
\* given and not yet lost, each as often, whichever place they move to.
THEOREM ConnectionsKeptHolds == Spec => []ConnectionsKept
<1>1. KInv => ConnectionsKept
  BY DEF KInv
<1> QED
  BY KInvInit, KInvNext, <1>1, PTL DEF Spec

=============================================================================
