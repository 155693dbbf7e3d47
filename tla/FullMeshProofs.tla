--------------------------- MODULE FullMeshProofs ---------------------------
(***************************************************************************)
(* Whatever the devices of the host do, once the address worker has taken  *)
(* the last event the table of addresses is what the devices are           *)
(* (TableFollowsDevices).  On top of that, what a connection has of the    *)
(* table: its types (TypesHold), that no subflow and no slot of an address *)
(* that has gone is left to it (NoSourceLeftOver), that its IPv4 subflows  *)
(* have the priority of their address (PriorityFollows), that the peer has *)
(* heard of every address (AddressesAnnounced), and that every pair of     *)
(* addresses has been tried (MeshComplete).                                *)
(***************************************************************************)
EXTENDS FullMesh, FoldProofs

(***************************************************************************)
(* The table of addresses                                                  *)
(***************************************************************************)

Table == [bits : SUBSET Slot, addr : [Slot -> Addr \cup {None}], low : [Slot -> BOOLEAN],
          next : 0..MaxAddr]

\* Every slot in use has an address of its family, none has that of another.
TableInv(t) ==
    /\ t \in [Family -> Table]
    /\ \A f \in Family :
         /\ \A i \in t[f].bits : t[f].addr[i] \in Addr /\ Fam(t[f].addr[i]) = f
         /\ \A i, j \in t[f].bits : t[f].addr[i] = t[f].addr[j] => i = j

\* The address a is in the table with the priority low.
HasEntry(t, a, low) ==
    \E i \in t[Fam(a)].bits : t[Fam(a)].addr[i] = a /\ t[Fam(a)].low[i] = low

Event == [addr : Addr, code : {"add", "del", "mod"}, low : BOOLEAN]

LEMMA FamilyOf ==
  ASSUME NEW a \in Addr
  PROVE  Fam(a) \in Family
BY DEF Fam, Family

LEMMA FindAddressFinds ==
  ASSUME NEW t, TableInv(t), NEW a \in Addr
  PROVE  LET i == FindAddress(t, a)
         IN  /\ i # None => i \in t[Fam(a)].bits /\ t[Fam(a)].addr[i] = a
             /\ i = None => \A j \in t[Fam(a)].bits : t[Fam(a)].addr[j] # a
<1> DEFINE hits == {i \in t[Fam(a)].bits : t[Fam(a)].addr[i] = a}
<1>1. t[Fam(a)].bits \subseteq Slot
  BY FamilyOf DEF TableInv, Table
<1>2. CASE hits = {}
  BY <1>2 DEF FindAddress
<1>3. CASE hits # {}
  <2>1. hits \in SUBSET Nat
    BY <1>1 DEF Slot
  <2>2. Min(hits) \in hits
    <3> HIDE DEF hits
    <3> QED
      BY <1>3, <2>1, LeastNumber
  <2>3. FindAddress(t, a) = Min(hits)
    BY <1>3 DEF FindAddress, First
  <2>4. Min(hits) \in Nat
    BY <2>1, <2>2
  <2>5. Min(hits) # None
    BY <2>4, FullMeshAssumption
  <2> QED
    BY <2>2, <2>3, <2>5
<1> QED
  BY <1>2, <1>3

LEMMA FreeIndexFree ==
  ASSUME NEW bits \in SUBSET Slot, NEW base
  PROVE  /\ Slot \ bits # {} => FreeIndex(bits, base) \in Slot \ bits
         /\ Slot \ bits = {} => FreeIndex(bits, base) = None
<1> DEFINE free == Slot \ bits
           high == {i \in free : i >= base}
           among == IF high = {} THEN free ELSE high
<1>1. CASE free = {}
  BY <1>1 DEF FreeIndex
<1>2. CASE free # {}
  <2>1. among \in SUBSET Nat /\ among # {} /\ among \subseteq free
    BY <1>2 DEF Slot
  <2>2. Min(among) \in among
    <3> HIDE DEF among
    <3> QED
      BY <2>1, LeastNumber
  <2>3. FreeIndex(bits, base) = Min(among)
    BY <1>2 DEF FreeIndex, First
  <2> QED
    BY <2>1, <2>2, <2>3
<1> QED
  BY <1>1, <1>2

\* As long as the addresses in a table are of fewer than the slots, one is free.
LEMMA RoomInTable ==
  ASSUME NEW t, TableInv(t), NEW f \in Family, NEW A, IsFiniteSet(A), Cardinality(A) < MaxAddr,
         \A i \in t[f].bits : t[f].addr[i] \in A
  PROVE  Slot \ t[f].bits # {}
<1>1. t[f].bits \in SUBSET Slot /\ MaxAddr \in Nat
  BY FullMeshAssumption DEF TableInv, Table
<1>2. IsFiniteSet(Slot) /\ Cardinality(Slot) = MaxAddr
  <2>1. 0 \in Int /\ MaxAddr - 1 \in Int /\ (MaxAddr - 1) - 0 + 1 = MaxAddr
        /\ ~ (0 > MaxAddr - 1)
    BY <1>1, FullMeshAssumption
  <2> QED
    BY <2>1, FS_Interval DEF Slot
<1> SUFFICES ASSUME t[f].bits = Slot PROVE FALSE
  BY <1>1
<1> DEFINE g == [i \in Slot |-> t[f].addr[i]]
<1>3. g \in Injection(Slot, A)
  BY DEF TableInv, Injection, IsInjective
<1> HIDE DEF g
<1>4. Cardinality(Slot) <= Cardinality(A) /\ Cardinality(A) \in Nat
  BY <1>3, FS_Injection, FS_CardinalityType
<1> QED
  BY <1>1, <1>2, <1>4

\* An address goes into its slot, or into a free one.
LEMMA WithEntry ==
  ASSUME NEW t, TableInv(t), NEW e, e.addr \in Addr, e.low \in BOOLEAN,
         FindAddress(t, e.addr) = None => Slot \ t[Fam(e.addr)].bits # {}
  PROVE  /\ TableInv(With(t, e))
         /\ \A a \in Addr, low \in BOOLEAN :
              HasEntry(With(t, e), a, low) <=> IF a = e.addr THEN low = e.low
                                               ELSE HasEntry(t, a, low)
         /\ \A g \in Family : t[g].bits \subseteq With(t, e)[g].bits
<1> DEFINE f == Fam(e.addr)
           old == FindAddress(t, e.addr)
           i == IF old # None THEN old ELSE FreeIndex(t[f].bits, t[f].next)
           new == With(t, e)
<1>1. f \in Family /\ t[f] \in Table
  BY FamilyOf DEF TableInv
<1>2. /\ old # None => i \in t[f].bits /\ t[f].addr[i] = e.addr
      /\ old = None => i \in Slot \ t[f].bits /\ \A j \in t[f].bits : t[f].addr[j] # e.addr
  BY <1>1, FindAddressFinds, FreeIndexFree DEF Table
<1>3. i \in Slot /\ i + 1 \in 0..MaxAddr
  <2>1. i \in Slot
    BY <1>1, <1>2 DEF Table
  <2> HIDE DEF i
  <2> QED
    BY <2>1, FullMeshAssumption DEF Slot
<1>4. /\ \A g \in Family : g # f => new[g] = t[g]
      /\ new[f].bits = t[f].bits \cup {i}
      /\ new[f].addr = [t[f].addr EXCEPT ![i] = e.addr]
      /\ new[f].low = [t[f].low EXCEPT ![i] = e.low]
      /\ new \in [Family -> Table]
  <2> DEFINE u == [t EXCEPT ![f].addr[i] = e.addr, ![f].low[i] = e.low]
  <2>1. new = IF old # None THEN u ELSE [u EXCEPT ![f].bits = @ \cup {i}, ![f].next = i + 1]
    BY DEF With
  <2>2. old # None => t[f].bits = t[f].bits \cup {i}
    BY <1>2
  <2> HIDE DEF f, old, i, new
  <2>3. /\ u \in [Family -> Table] /\ \A g \in Family : g # f => u[g] = t[g]
        /\ u[f] = [t[f] EXCEPT !.addr = [t[f].addr EXCEPT ![i] = e.addr],
                               !.low = [t[f].low EXCEPT ![i] = e.low]]
    BY <1>1, <1>3 DEF TableInv, Table
  <2>4. /\ u[f].bits = t[f].bits
        /\ u[f].addr = [t[f].addr EXCEPT ![i] = e.addr]
        /\ u[f].low = [t[f].low EXCEPT ![i] = e.low]
    BY <1>1, <2>3 DEF Table
  <2>5. CASE old # None
    BY <2>1, <2>2, <2>3, <2>4, <2>5
  <2>6. CASE old = None
    <3>1. new = [u EXCEPT ![f] = [u[f] EXCEPT !.bits = u[f].bits \cup {i}, !.next = i + 1]]
      BY <1>1, <2>1, <2>3, <2>6 DEF Table
    <3>2. u[f] \in Table
      BY <1>1, <2>3
    <3>3. [u[f] EXCEPT !.bits = u[f].bits \cup {i}, !.next = i + 1] \in Table
      BY <1>3, <3>2 DEF Table
    <3>4. new[f] = [u[f] EXCEPT !.bits = u[f].bits \cup {i}, !.next = i + 1]
          /\ new \in [Family -> Table]
          /\ \A g \in Family : g # f => new[g] = u[g]
      BY <1>1, <2>3, <3>1, <3>3
    <3> QED
      BY <2>3, <2>4, <3>2, <3>4 DEF Table
  <2> QED
    BY <2>5, <2>6
<1>5. /\ \A j \in t[f].bits : j # i => new[f].addr[j] = t[f].addr[j] /\ new[f].low[j] = t[f].low[j]
      /\ new[f].addr[i] = e.addr /\ new[f].low[i] = e.low
      /\ \A j \in t[f].bits : j # i => t[f].addr[j] # e.addr
  <2>1. \A j \in t[f].bits : j # i => t[f].addr[j] # e.addr
    BY <1>1, <1>2 DEF TableInv
  <2> HIDE DEF f, i, new, old
  <2> QED
    BY <1>1, <1>3, <1>4, <2>1 DEF Table
<1> HIDE DEF i, old, new
<1>6. TableInv(new)
  <2>1. ASSUME NEW g \in Family
        PROVE  /\ \A j \in new[g].bits : new[g].addr[j] \in Addr /\ Fam(new[g].addr[j]) = g
               /\ \A j, k \in new[g].bits : new[g].addr[j] = new[g].addr[k] => j = k
    <3>1. CASE g # f
      BY <1>4, <3>1 DEF TableInv
    <3>2. CASE g = f
      <4>1. /\ \A j \in t[f].bits : t[f].addr[j] \in Addr /\ Fam(t[f].addr[j]) = f
            /\ \A j, k \in t[f].bits : t[f].addr[j] = t[f].addr[k] => j = k
        BY <1>1 DEF TableInv
      <4>2. e.addr \in Addr /\ Fam(e.addr) = f
        OBVIOUS
      <4> HIDE DEF f
      <4>3. \A j \in new[f].bits : new[f].addr[j] \in Addr /\ Fam(new[f].addr[j]) = f
        BY <1>4, <1>5, <4>1, <4>2
      <4>4. \A j, k \in new[f].bits : new[f].addr[j] = new[f].addr[k] => j = k
        BY <1>4, <1>5, <4>1
      <4> QED
        BY <3>2, <4>3, <4>4
    <3> QED
      BY <3>1, <3>2
  <2> QED
    BY <1>4, <2>1 DEF TableInv
<1>7. ASSUME NEW a \in Addr, NEW low \in BOOLEAN
      PROVE  HasEntry(new, a, low) <=> IF a = e.addr THEN low = e.low ELSE HasEntry(t, a, low)
  <2>1. CASE Fam(a) # f
    BY <1>4, <2>1, FamilyOf DEF HasEntry
  <2>2. CASE Fam(a) = f
    <3>1. HasEntry(new, a, low) <=>
            \E j \in t[f].bits \cup {i} : new[f].addr[j] = a /\ new[f].low[j] = low
      BY <1>4, <2>2 DEF HasEntry
    <3>2. HasEntry(t, a, low) <=> \E j \in t[f].bits : t[f].addr[j] = a /\ t[f].low[j] = low
      BY <2>2 DEF HasEntry
    <3>3. i \in t[f].bits => t[f].addr[i] = e.addr
      BY <1>2 DEF i, old
    <3> HIDE DEF f
    <3> QED
      BY <1>5, <3>1, <3>2, <3>3
  <2> QED
    BY <2>1, <2>2
<1>8. \A g \in Family : t[g].bits \subseteq new[g].bits
  BY <1>4
<1> QED
  BY <1>6, <1>7, <1>8 DEF new

\* An address that goes takes its entry along.
LEMMA WithoutEntry ==
  ASSUME NEW t, TableInv(t), NEW e, e.addr \in Addr, FindAddress(t, e.addr) # None
  PROVE  /\ TableInv(Without(t, e))
         /\ \A a \in Addr, low \in BOOLEAN :
              HasEntry(Without(t, e), a, low) <=> a # e.addr /\ HasEntry(t, a, low)
         /\ \A g \in Family : g # Fam(e.addr) => Without(t, e)[g] = t[g]
<1> DEFINE f == Fam(e.addr)
           i == FindAddress(t, e.addr)
           new == Without(t, e)
<1>1. f \in Family /\ t \in [Family -> Table] /\ t[f] \in Table
  BY FamilyOf DEF TableInv
<1>2. i \in t[f].bits /\ t[f].addr[i] = e.addr
  BY FindAddressFinds
<1>3. \A j \in t[f].bits : j # i => t[f].addr[j] # e.addr
  BY <1>1, <1>2 DEF TableInv
<1>4. new = [t EXCEPT ![f] = [t[f] EXCEPT !.bits = t[f].bits \ {i}]]
  BY <1>1 DEF Without
<1>5. \A a \in Addr : Fam(a) \in Family
  BY FamilyOf
<1> HIDE DEF f, i, new
<1>6. /\ \A g \in Family : g # f => new[g] = t[g]
      /\ new[f].bits = t[f].bits \ {i} /\ new[f].addr = t[f].addr /\ new[f].low = t[f].low
      /\ new \in [Family -> Table]
  BY <1>1, <1>4 DEF Table
<1>7. TableInv(new)
  BY <1>6 DEF TableInv
<1>8. ASSUME NEW a \in Addr, NEW low \in BOOLEAN
      PROVE  HasEntry(new, a, low) <=> a # e.addr /\ HasEntry(t, a, low)
  <2>1. CASE Fam(a) # f
    BY <1>5, <1>6, <2>1 DEF HasEntry, f
  <2>2. CASE Fam(a) = f
    BY <1>2, <1>3, <1>6, <2>2 DEF HasEntry
  <2> QED
    BY <2>1, <2>2
<1>9. \A g \in Family : g # f => new[g] = t[g]
  BY <1>6
<1> QED
  BY <1>7, <1>8, <1>9 DEF new, f

(***************************************************************************)
(* The table at the start                                                  *)
(***************************************************************************)

LEMMA EmptyTable ==
  /\ TableInv(NoAddress)
  /\ \A a \in Addr, low \in BOOLEAN : ~ HasEntry(NoAddress, a, low)
<1>1. /\ \A f \in Family : NoAddress[f] = [bits |-> {}, addr |-> [i \in Slot |-> None],
                           low |-> [i \in Slot |-> FALSE], next |-> IF f = 4 THEN 1 ELSE 0]
      /\ NoAddress \in [Family -> Table]
  BY FullMeshAssumption DEF NoAddress, Table, Slot
<1>2. TableInv(NoAddress)
  BY <1>1 DEF TableInv
<1> QED
  BY <1>1, <1>2, FamilyOf DEF HasEntry

\* The addresses that are up go into the table one after the other.
LEMMA TableAtStart ==
  LET Ups == {[addr |-> a, low |-> FALSE] : a \in UpAtStart}
      t == FoldLeft(With, NoAddress, SetToSeq(Ups))
  IN  /\ TableInv(t)
      /\ \A a \in Addr, low \in BOOLEAN : HasEntry(t, a, low) <=> a \in UpAtStart /\ low = FALSE
<1> DEFINE Ups == {[addr |-> a, low |-> FALSE] : a \in UpAtStart}
           new == SetToSeq(Ups)
           n == Cardinality(Ups)
           A == {t \in [Family -> Table] : TableInv(t)}
           G == [k \in 1..n |-> [t \in A |-> IF With(t, new[k]) \in A THEN With(t, new[k]) ELSE t]]
           Folds(it) == it = [s \in SUBSET (1..n) |->
                               IF s = {} THEN NoAddress ELSE With(it[s \ {Max(s)}], new[Max(s)])]
           Entered(t, s) == /\ TableInv(t)
                            /\ \A a \in Addr, low \in BOOLEAN :
                                 HasEntry(t, a, low) <=> low = FALSE /\ \E k \in s : new[k].addr = a
<1>1. IsFiniteSet(UpAtStart) /\ UpAtStart \subseteq Addr
  BY FullMeshAssumption, FS_Subset DEF Addr
<1>2. IsFiniteSet(Ups)
  <2> DEFINE g == [a \in UpAtStart |-> [addr |-> a, low |-> FALSE]]
  <2>1. g \in Surjection(UpAtStart, Ups)
    BY DEF Surjection
  <2> HIDE DEF g
  <2> QED
    BY <1>1, <2>1, FS_Surjection
<1>3. n \in Nat /\ new \in Bijection(1..n, Ups)
  <2>1. n \in Nat /\ ExistsBijection(1..n, Ups)
    BY <1>2, FS_CardinalityType
  <2>2. PICK b : b \in Bijection(1..n, Ups)
    BY <2>1 DEF ExistsBijection
  <2>3. b \in [1..n -> Ups] /\ IsInjective(b)
    BY <2>2 DEF Bijection, Injection, IsInjective
  <2>4. new \in [1..n -> Ups] /\ IsInjective(new)
    <3> HIDE DEF Ups
    <3> QED
      BY <2>3 DEF SetToSeq
  <2>5. new \in Injection(1..n, Ups)
    BY <2>4 DEF Injection, IsInjective
  <2>6. Cardinality(1..n) = n
    BY <2>1, FS_Interval
  <2> HIDE DEF new, Ups
  <2>7. new \in Surjection(1..n, Ups)
    BY <1>2, <2>5, <2>6, FS_Injection DEF n
  <2> QED
    BY <2>1, <2>5, <2>7 DEF Bijection
<1> HIDE DEF new
<1>19. /\ \A k \in 1..n : new[k].addr \in UpAtStart /\ new[k].low = FALSE
       /\ \A k, m \in 1..n : new[k].addr = new[m].addr => k = m
       /\ \A a \in UpAtStart : \E k \in 1..n : new[k].addr = a
  <2>1. /\ \A k \in 1..n : new[k] \in Ups
        /\ \A k, m \in 1..n : new[k] = new[m] => k = m
        /\ \A x \in Ups : \E k \in 1..n : new[k] = x
    BY <1>3 DEF Bijection, Surjection, Injection, IsInjective
  <2>2. \A k \in 1..n : /\ new[k] = [addr |-> new[k].addr, low |-> FALSE]
                         /\ new[k].addr \in UpAtStart /\ new[k].low = FALSE
    <3> SUFFICES ASSUME NEW k \in 1..n
                 PROVE  /\ new[k] = [addr |-> new[k].addr, low |-> FALSE]
                        /\ new[k].addr \in UpAtStart /\ new[k].low = FALSE
      OBVIOUS
    <3>1. PICK a \in UpAtStart : new[k] = [addr |-> a, low |-> FALSE]
      BY <2>1
    <3> QED
      BY <3>1
  <2>3. \A a \in UpAtStart : [addr |-> a, low |-> FALSE] \in Ups
    OBVIOUS
  <2> HIDE DEF Ups
  <2>4. \A a \in UpAtStart : \E k \in 1..n : new[k].addr = a
    <3> SUFFICES ASSUME NEW a \in UpAtStart PROVE \E k \in 1..n : new[k].addr = a
      OBVIOUS
    <3>1. PICK k \in 1..n : new[k] = [addr |-> a, low |-> FALSE]
      BY <2>1, <2>3
    <3> QED
      BY <3>1
  <2>5. \A k, m \in 1..n : new[k].addr = new[m].addr => k = m
    <3>1. \A k, m \in 1..n : new[k].addr = new[m].addr => new[k] = new[m]
      BY <2>2
    <3> QED
      BY <2>1, <3>1
  <2> QED
    BY <2>2, <2>4, <2>5
<1>4. ASSUME NEW s \in SUBSET (1..n), NEW m \in s, NEW t, Entered(t, s \ {m})
      PROVE  Entered(With(t, new[m]), s)
  <2> DEFINE e == new[m]
             f == Fam(e.addr)
             Ups_f == {a \in UpAtStart : Fam(a) = f}
             B == Ups_f \ {e.addr}
  <2>2. e.addr \in UpAtStart /\ e.low = FALSE /\ e.addr \in Addr
    BY <1>1, <1>19
  <2>3. TableInv(t) /\ f \in Family
    BY <1>4, <2>2, FamilyOf
  <2>4. IsFiniteSet(B) /\ Cardinality(B) < MaxAddr
    <3>1. IsFiniteSet(Ups_f) /\ Cardinality(Ups_f) <= MaxAddr /\ MaxAddr \in Nat
      <4>1. Ups_f = UpAtStart \cap Addr4 \/ Ups_f = UpAtStart \cap Addr6
        <5>1. \A a \in Addr : Fam(a) = f <=> (a \in Addr4 <=> e.addr \in Addr4)
          BY DEF Fam
        <5>2. \A a \in Addr : a \in Addr6 <=> a \notin Addr4
          BY FullMeshAssumption DEF Addr
        <5> HIDE DEF f
        <5> QED
          BY <1>1, <5>1, <5>2
      <4> QED
        BY <1>1, <4>1, FullMeshAssumption, FS_Subset
    <3>2. e.addr \in Ups_f
      BY <2>2
    <3> HIDE DEF Ups_f
    <3>3. IsFiniteSet(B) /\ Cardinality(B) = Cardinality(Ups_f) - 1 /\ Cardinality(Ups_f) \in Nat
      BY <2>2, <3>1, <3>2, FS_RemoveElement, FS_CardinalityType
    <3> QED
      BY <3>1, <3>3
  <2>5. \A i \in t[f].bits : t[f].addr[i] \in B
    <3> SUFFICES ASSUME NEW i \in t[f].bits PROVE t[f].addr[i] \in B
      OBVIOUS
    <3> DEFINE a == t[f].addr[i]
               low == t[f].low[i]
    <3>1. a \in Addr /\ Fam(a) = f /\ low \in BOOLEAN
      BY <2>3 DEF TableInv, Table
    <3>2. HasEntry(t, a, low)
      BY <3>1 DEF HasEntry
    <3> HIDE DEF a, low, f, B
    <3>3. PICK k \in s \ {m} : new[k].addr = a
      BY <1>4, <3>1, <3>2
    <3>4. k \in 1..n /\ m \in 1..n /\ k # m
      BY <3>3
    <3>5. a \in UpAtStart /\ a # e.addr
      BY <1>19, <3>3, <3>4
    <3> QED
      BY <3>1, <3>5 DEF B, a
  <2> HIDE DEF f, B
  <2>6. Slot \ t[f].bits # {}
    BY <2>3, <2>4, <2>5, RoomInTable
  <2>7. /\ TableInv(With(t, e))
        /\ \A a \in Addr, low \in BOOLEAN :
             HasEntry(With(t, e), a, low) <=> IF a = e.addr THEN low = e.low ELSE HasEntry(t, a, low)
    <3> HIDE DEF e, Entered, A, G, Folds
    <3> QED
      BY <2>2, <2>3, <2>6, WithEntry DEF f
  <2>8. ASSUME NEW a \in Addr, NEW low \in BOOLEAN
        PROVE  HasEntry(With(t, e), a, low) <=> low = FALSE /\ \E k \in s : new[k].addr = a
    <3>1. HasEntry(t, a, low) <=> low = FALSE /\ \E k \in s \ {m} : new[k].addr = a
      BY <1>4
    <3> HIDE DEF Ups, Entered
    <3> QED
      BY <2>2, <2>7, <3>1
  <2> HIDE DEF e, Ups
  <2> QED
    BY <2>7, <2>8 DEF e
<1>5. \A t, s : Entered(t, s) => t \in A
  BY DEF TableInv
<1> HIDE DEF n, Ups
<1>6. G \in [1..n -> [A -> A]]
  OBVIOUS
<1>7. Entered(NoAddress, {})
  BY EmptyTable
<1> HIDE DEF Entered, A
<1>8. NoAddress \in A
  BY <1>5, <1>7
<1>9. PICK g \in [SUBSET (1..n) -> A] :
        \A s \in SUBSET (1..n) :
          g[s] = IF s = {} THEN NoAddress ELSE G[Max(s)][g[s \ {Max(s)}]]
  <2> HIDE DEF G, Folds
  <2>1. FoldsOf(n, A, NoAddress, G) # {}
    BY <1>3, <1>6, <1>8, FoldExists
  <2> QED
    BY <2>1 DEF FoldsOf
<1> DEFINE P == {s \in SUBSET (1..n) : Entered(g[s], s)}
<1>10. ASSUME NEW s \in SUBSET (1..n), s # {}, s \ {Max(s)} \in P
       PROVE  s \in P /\ g[s] = With(g[s \ {Max(s)}], new[Max(s)])
  <2> DEFINE m == Max(s)
             t == g[s \ {m}]
  <2>1. m \in s /\ m \in 1..n
    BY <1>3, <1>10, GreatestNumber
  <2>2. Entered(t, s \ {m}) /\ t \in A
    BY <1>9, <1>10
  <2>3. g[s] = G[m][t]
    BY <1>9, <1>10
  <2> HIDE DEF m, t, G
  <2>4. Entered(With(t, new[m]), s)
    BY <1>4, <2>1, <2>2
  <2>5. With(t, new[m]) \in A
    BY <1>5, <2>4
  <2>6. g[s] = With(t, new[m])
    BY <2>1, <2>2, <2>3, <2>5 DEF G
  <2> QED
    BY <2>4, <2>6 DEF m, t
<1>11. SUBSET (1..n) \subseteq P
  <2>1. {} \in P
    BY <1>7, <1>9
  <2> HIDE DEF P
  <2> QED
    BY <1>3, <1>10, <2>1, IndexInduction
<1>12. Folds(g)
  <2>1. ASSUME NEW s \in SUBSET (1..n), s # {}
        PROVE  g[s] = With(g[s \ {Max(s)}], new[Max(s)])
    BY <1>10, <1>11, <2>1
  <2>2. g[{}] = NoAddress
    BY <1>9
  <2> QED
    BY <2>1, <2>2
<1> DEFINE it == CHOOSE x : Folds(x)
           Q == {s \in SUBSET (1..n) : Entered(it[s], s)}
<1>13. Folds(it)
  <2> HIDE DEF Folds
  <2> QED
    BY <1>12
<1> HIDE DEF it
<1>14. {} \in Q
  BY <1>7, <1>13
<1>15. ASSUME NEW s \in SUBSET (1..n), s # {}, s \ {Max(s)} \in Q
       PROVE  s \in Q
  <2>1. Max(s) \in s
    BY <1>3, <1>15, GreatestNumber
  <2>2. it[s] = With(it[s \ {Max(s)}], new[Max(s)])
    BY <1>13, <1>15
  <2>3. Entered(it[s \ {Max(s)}], s \ {Max(s)})
    BY <1>15
  <2> QED
    BY <1>4, <2>1, <2>2, <2>3
<1>16. Entered(it[1..n], 1..n)
  <2> HIDE DEF Q
  <2>1. SUBSET (1..n) \subseteq Q
    BY <1>3, <1>14, <1>15, IndexInduction
  <2> QED
    BY <2>1 DEF Q
<1>17. FoldLeft(With, NoAddress, new) = it[1..n]
  <2>1. DOMAIN new = 1..n
    BY <1>3 DEF Bijection, Surjection
  <2> QED
    BY <2>1 DEF FoldLeft, MapThenFoldSet, it
<1>18. ASSUME NEW a \in Addr
       PROVE  (\E k \in 1..n : new[k].addr = a) <=> a \in UpAtStart
  BY <1>19
<1> QED
  BY <1>16, <1>17, <1>18 DEF Entered, new, Ups

(***************************************************************************)
(* The events                                                              *)
(***************************************************************************)

\* One event at most waits for an address.
EventsInv(q) ==
    /\ q \in Seq(Event)
    /\ \A j, k \in DOMAIN q : q[j].addr = q[k].addr => j = k

LEMMA EventsTyped ==
  ASSUME NEW q, EventsInv(q), NEW x \in Range(q)
  PROVE  x \in Event /\ x.addr \in Addr
<1>1. PICK k \in DOMAIN q : q[k] = x
  BY DEF Range
<1>2. x \in Event
  BY <1>1 DEF EventsInv
<1> QED
  BY <1>2 DEF Event

LEMMA AddPmEventAdds ==
  ASSUME NEW q, EventsInv(q), NEW e \in Event
  PROVE  /\ EventsInv(AddPmEvent(q, e))
         /\ Range(AddPmEvent(q, e)) = {x \in Range(q) : x.addr # e.addr} \cup {e}
<1> DEFINE similar == Similar(q, e)
           n == Len(q)
           i == First(similar)
           new == AddPmEvent(q, e)
<1>1. n \in Nat /\ DOMAIN q = 1..n /\ q \in Seq(Event)
  BY DEF EventsInv
<1>2. CASE similar = {}
  <2>1. new = Append(q, e) /\ \A k \in 1..n : q[k].addr # e.addr
    BY <1>1, <1>2 DEF AddPmEvent, Similar
  <2> HIDE DEF n, new
  <2>2. /\ new \in Seq(Event) /\ DOMAIN new = 1..n + 1
        /\ \A k \in 1..n : new[k] = q[k]
        /\ new[n + 1] = e
    BY <1>1, <2>1 DEF n
  <2>3. \A k \in 1..n + 1 : k \in 1..n \/ k = n + 1
    BY <1>1
  <2>4. \A k \in 1..n : k \in 1..n + 1
    BY <1>1
  <2>5. n + 1 \in 1..n + 1
    BY <1>1
  <2>6. EventsInv(new)
    BY <1>1, <2>1, <2>2, <2>3 DEF EventsInv
  <2>7. Range(new) = {x \in Range(q) : x.addr # e.addr} \cup {e}
    BY <1>1, <2>1, <2>2, <2>3, <2>4, <2>5 DEF Range
  <2> QED
    BY <2>6, <2>7 DEF new
<1>3. CASE similar # {}
  <2>1. i \in 1..n /\ q[i].addr = e.addr
    <3>1. similar \in SUBSET Nat
      BY <1>1 DEF Similar
    <3>2. i \in similar
      <4> HIDE DEF similar
      <4> QED
        BY <1>3, <3>1, LeastNumber DEF First
    <3> QED
      BY <1>1, <3>2 DEF Similar
  <2>2. \A k \in 1..n : k # i => q[k].addr # e.addr
    BY <1>1, <2>1 DEF EventsInv
  <2>3. CASE e.code = "del"
    <3>1. new = Append(RemoveAt(q, i), e)
      BY <1>3, <2>3 DEF AddPmEvent
    <3> HIDE DEF n, new, i
    <3> DEFINE old(k) == IF k < i THEN k ELSE k + 1
    <3>2. /\ new \in Seq(Event) /\ DOMAIN new = 1..n
          /\ \A k \in 1..n - 1 : new[k] = q[old(k)]
          /\ new[n] = e
      <4> DEFINE r == RemoveAt(q, i)
      <4>1. /\ r \in Seq(Event) /\ Len(r) = n - 1
            /\ \A k \in 1..n - 1 : r[k] = IF k < i THEN q[k] ELSE q[k + 1]
        BY <1>1, <2>1, RemoveAtIs DEF n
      <4>2. \A k \in 1..n - 1 : r[k] = q[old(k)]
        BY <4>1
      <4> HIDE DEF r, old
      <4>3. new = Append(r, e)
        BY <3>1 DEF r
      <4>4. n - 1 \in Nat /\ (n - 1) + 1 = n
        BY <1>1, <2>1
      <4> QED
        BY <4>1, <4>2, <4>3, <4>4
    <3>3. \A k \in 1..n - 1 : old(k) \in 1..n /\ old(k) # i
      BY <1>1, <2>1
    <3>4. \A j, k \in 1..n - 1 : old(j) = old(k) => j = k
      BY <1>1, <2>1
    <3>5. \A j \in 1..n : j # i => \E k \in 1..n - 1 : old(k) = j
      <4> SUFFICES ASSUME NEW j \in 1..n, j # i PROVE \E k \in 1..n - 1 : old(k) = j
        OBVIOUS
      <4>1. CASE j < i
        BY <1>1, <2>1, <4>1
      <4>2. CASE j > i
        <5>1. j - 1 \in 1..n - 1 /\ old(j - 1) = j
          BY <1>1, <2>1, <4>2
        <5> QED
          BY <5>1
      <4> QED
        BY <1>1, <2>1, <4>1, <4>2
    <3> HIDE DEF old
    <3>6. \A k \in 1..n : k \in 1..n - 1 \/ k = n
      BY <1>1
    <3>7. n \in 1..n /\ \A k \in 1..n - 1 : k \in 1..n
      BY <1>1, <2>1
    <3>8. EventsInv(new)
      BY <1>1, <2>2, <3>2, <3>3, <3>4, <3>6 DEF EventsInv
    <3>9. Range(new) = {x \in Range(q) : x.addr # e.addr} \cup {e}
      <4>1. ASSUME NEW x \in Range(new) PROVE x \in {y \in Range(q) : y.addr # e.addr} \cup {e}
        BY <1>1, <2>2, <3>2, <3>3, <3>6, <4>1 DEF Range
      <4>2. ASSUME NEW x \in Range(q), x.addr # e.addr PROVE x \in Range(new)
        <5>1. PICK j \in 1..n : q[j] = x
          BY <1>1 DEF Range
        <5>2. j # i
          BY <2>1, <4>2, <5>1
        <5>3. PICK k \in 1..n - 1 : old(k) = j
          BY <3>5, <5>2
        <5> QED
          BY <3>2, <3>7, <5>1, <5>3 DEF Range
      <4>3. e \in Range(new)
        BY <3>2, <3>7 DEF Range
      <4> QED
        BY <4>1, <4>2, <4>3
    <3> QED
      BY <3>8, <3>9 DEF new
  <2>4. CASE e.code # "del"
    <3>1. new = [q EXCEPT ![i] = e]
      BY <1>3, <2>4 DEF AddPmEvent
    <3> HIDE DEF n, new, i
    <3>2. /\ new \in Seq(Event) /\ DOMAIN new = 1..n
          /\ \A k \in 1..n : k # i => new[k] = q[k]
          /\ new[i] = e
      BY <1>1, <2>1, <3>1 DEF n
    <3>3. EventsInv(new)
      BY <1>1, <2>1, <2>2, <3>2 DEF EventsInv
    <3>4. Range(new) = {x \in Range(q) : x.addr # e.addr} \cup {e}
      BY <1>1, <2>1, <2>2, <3>2 DEF Range
    <3> QED
      BY <3>3, <3>4 DEF new
  <2> QED
    BY <2>3, <2>4
<1> QED
  BY <1>2, <1>3

LEMMA TailEvents ==
  ASSUME NEW q, EventsInv(q), q # <<>>
  PROVE  /\ Head(q) \in Event /\ EventsInv(Tail(q))
         /\ Range(Tail(q)) = {x \in Range(q) : x.addr # Head(q).addr}
         /\ Head(q) \in Range(q)
         /\ \A x \in Range(q) : x.addr = Head(q).addr => x = Head(q)
<1> DEFINE n == Len(q)
           r == Tail(q)
<1>1. n \in Nat /\ n > 0 /\ DOMAIN q = 1..n /\ q \in Seq(Event) /\ Head(q) = q[1]
  BY DEF EventsInv
<1>2. r \in Seq(Event) /\ DOMAIN r = 1..n - 1 /\ \A k \in 1..n - 1 : r[k] = q[k + 1]
  BY <1>1
<1> HIDE DEF n, r
<1>3. 1 \in 1..n /\ \A k \in 1..n - 1 : k + 1 \in 1..n /\ k + 1 # 1
  BY <1>1
<1>4. \A k \in 1..n : k # 1 => k - 1 \in 1..n - 1 /\ (k - 1) + 1 = k
  BY <1>1
<1>5. EventsInv(r)
  <2>1. ASSUME NEW j \in 1..n - 1, NEW k \in 1..n - 1, r[j].addr = r[k].addr
        PROVE  j = k
    <3>1. j + 1 \in 1..n /\ k + 1 \in 1..n /\ r[j] = q[j + 1] /\ r[k] = q[k + 1]
      BY <1>2, <1>3
    <3>2. j + 1 = k + 1
      BY <1>1, <2>1, <3>1 DEF EventsInv
    <3> QED
      BY <1>1, <3>2
  <2> QED
    BY <1>2, <2>1 DEF EventsInv
<1>6. \A k \in 1..n : k # 1 => q[k].addr # q[1].addr
  BY <1>1, <1>3 DEF EventsInv
<1>7. Range(r) = {x \in Range(q) : x.addr # q[1].addr}
  <2>1. ASSUME NEW x \in Range(r) PROVE x \in Range(q) /\ x.addr # q[1].addr
    <3>1. PICK k \in 1..n - 1 : r[k] = x
      BY <1>2, <2>1 DEF Range
    <3>2. k + 1 \in 1..n /\ k + 1 # 1 /\ q[k + 1] = x
      BY <1>2, <1>3, <3>1
    <3> QED
      BY <1>1, <1>6, <3>2 DEF Range
  <2>2. ASSUME NEW x \in Range(q), x.addr # q[1].addr PROVE x \in Range(r)
    <3>1. PICK k \in 1..n : q[k] = x
      BY <1>1 DEF Range
    <3>2. k - 1 \in 1..n - 1 /\ r[k - 1] = x
      BY <1>2, <1>4, <2>2, <3>1
    <3> QED
      BY <1>2, <3>2 DEF Range
  <2> QED
    BY <2>1, <2>2
<1>8. q[1] \in Range(q) /\ \A x \in Range(q) : x.addr = q[1].addr => x = q[1]
  BY <1>1, <1>3, <1>6 DEF Range
<1> QED
  BY <1>1, <1>3, <1>5, <1>7, <1>8 DEF r

(***************************************************************************)
(* The invariant                                                           *)
(***************************************************************************)

Waits(q, a) == \E x \in Range(q) : x.addr = a

Fits(a) == Cardinality({b \in Addr : Fam(b) = Fam(a)}) <= MaxAddr

\* An event that waits tells what its device is, for the other addresses the
\* table does.
EventsTell(d, q) ==
  \A x \in Range(q) : IF d[x.addr].up THEN x.code # "del" /\ x.low = d[x.addr].low
                      ELSE x.code = "del"

TableTells(d, q, t) ==
  \A a \in Addr : Fits(a) /\ ~ Waits(q, a) =>
    \A low \in BOOLEAN : HasEntry(t, a, low) <=> d[a].up /\ low = d[a].low

FMInv ==
  /\ dev \in [Addr -> [up : BOOLEAN, low : BOOLEAN]]
  /\ ns = [loc |-> ns.loc, events |-> ns.events, now |-> ns.now]
  /\ TableInv(ns.loc)
  /\ EventsInv(ns.events)
  /\ EventsTell(dev, ns.events)
  /\ TableTells(dev, ns.events, ns.loc)

LEMMA InitMeets ==
  Init => FMInv
<1> SUFFICES ASSUME Init PROVE FMInv
  OBVIOUS
<1> DEFINE t == FoldLeft(With, NoAddress, SetToSeq({[addr |-> a, low |-> FALSE] : a \in UpAtStart}))
<1>1. /\ TableInv(t)
      /\ \A a \in Addr, low \in BOOLEAN : HasEntry(t, a, low) <=> a \in UpAtStart /\ low = FALSE
  BY TableAtStart
<1>2. /\ dev = [a \in Addr |-> [up |-> a \in UpAtStart, low |-> FALSE]]
      /\ ns = [loc |-> t, events |-> <<>>, now |-> None]
  BY DEF Init
<1> HIDE DEF t
<1>3. ns.loc = t /\ ns.events = <<>> /\ ns = [loc |-> ns.loc, events |-> ns.events, now |-> ns.now]
  BY <1>2
<1>4. EventsInv(<<>>) /\ Range(<<>>) = {}
  BY DEF EventsInv, Range
<1>5. EventsTell(dev, ns.events)
  BY <1>3, <1>4 DEF EventsTell
<1>6. dev \in [Addr -> [up : BOOLEAN, low : BOOLEAN]]
      /\ \A a \in Addr : dev[a].up = (a \in UpAtStart) /\ dev[a].low = FALSE
  BY <1>2
<1>7. TableTells(dev, ns.events, ns.loc)
  BY <1>1, <1>3, <1>6 DEF TableTells
<1> QED
  BY <1>1, <1>3, <1>4, <1>5, <1>6, <1>7 DEF FMInv

LEMMA DeviceMeets ==
  ASSUME FMInv, NEW a \in Addr, DeviceChanges(a)
  PROVE  FMInv'
<1>1. PICK new \in {[dev[a] EXCEPT !.up = ~@], [dev[a] EXCEPT !.low = ~@]} :
        /\ dev' = [dev EXCEPT ![a] = new]
        /\ ns' = [ns EXCEPT !.events = Notified(ns.events, a, dev[a], new)]
  BY DEF DeviceChanges
<1> DEFINE q == ns.events
           e == [addr |-> a, code |-> EventCode(dev[a], new), low |-> new.low]
<1>2. dev[a] \in [up : BOOLEAN, low : BOOLEAN] /\ new \in [up : BOOLEAN, low : BOOLEAN]
  BY DEF FMInv
<1>3. /\ dev' \in [Addr -> [up : BOOLEAN, low : BOOLEAN]]
      /\ dev'[a] = new /\ \A b \in Addr : b # a => dev'[b] = dev[b]
  BY <1>1, <1>2 DEF FMInv
<1>4. /\ ns'.loc = ns.loc /\ ns'.events = Notified(q, a, dev[a], new)
      /\ ns' = [loc |-> ns'.loc, events |-> ns'.events, now |-> ns'.now]
  <2>1. ns = [loc |-> ns.loc, events |-> ns.events, now |-> ns.now]
    BY DEF FMInv
  <2>2. ns' = [loc |-> ns.loc, events |-> Notified(q, a, dev[a], new), now |-> ns.now]
    BY <1>1, <2>1
  <2> QED
    BY <2>2
<1>5. EventsInv(q) /\ EventsTell(dev, q) /\ TableTells(dev, q, ns.loc) /\ TableInv(ns.loc)
  BY DEF FMInv
<1> HIDE DEF q
<1>6. CASE ~ dev[a].up /\ ~ new.up
  <2>1. ns'.events = q
    BY <1>4, <1>6 DEF Notified
  <2>2. EventsTell(dev', q)
    <3> SUFFICES ASSUME NEW x \in Range(q)
                 PROVE  IF dev'[x.addr].up THEN x.code # "del" /\ x.low = dev'[x.addr].low
                        ELSE x.code = "del"
      BY DEF EventsTell
    <3>1. x.addr \in Addr
      BY <1>5, EventsTyped
    <3>2. IF dev[x.addr].up THEN x.code # "del" /\ x.low = dev[x.addr].low ELSE x.code = "del"
      BY <1>5 DEF EventsTell
    <3> QED
      BY <1>3, <1>6, <3>1, <3>2
  <2>3. TableTells(dev', q, ns.loc)
    BY <1>3, <1>5, <1>6 DEF TableTells
  <2> QED
    BY <1>3, <1>4, <1>5, <2>1, <2>2, <2>3 DEF FMInv
<1>7. CASE dev[a].up \/ new.up
  <2>1. ns'.events = AddPmEvent(q, e)
    BY <1>4, <1>7 DEF Notified
  <2>2. e \in Event /\ e.addr = a
        /\ IF new.up THEN e.code # "del" /\ e.low = new.low ELSE e.code = "del"
    BY <1>2 DEF Event, EventCode
  <2> HIDE DEF e
  <2>3. /\ EventsInv(ns'.events)
        /\ Range(ns'.events) = {x \in Range(q) : x.addr # a} \cup {e}
    BY <1>5, <2>1, <2>2, AddPmEventAdds
  <2>4. EventsTell(dev', ns'.events)
    <3> SUFFICES ASSUME NEW x \in Range(ns'.events)
                 PROVE  IF dev'[x.addr].up THEN x.code # "del" /\ x.low = dev'[x.addr].low
                        ELSE x.code = "del"
      BY DEF EventsTell
    <3>1. CASE x = e
      BY <1>3, <2>2, <3>1
    <3>2. CASE x \in Range(q) /\ x.addr # a
      <4>1. x.addr \in Addr
        BY <1>5, <3>2, EventsTyped
      <4>2. IF dev[x.addr].up THEN x.code # "del" /\ x.low = dev[x.addr].low ELSE x.code = "del"
        BY <1>5, <3>2 DEF EventsTell
      <4> QED
        BY <1>3, <3>2, <4>1, <4>2
    <3> QED
      BY <2>3, <3>1, <3>2
  <2>5. TableTells(dev', ns'.events, ns.loc)
    <3>1. \A b \in Addr : ~ Waits(ns'.events, b) => b # a /\ ~ Waits(q, b)
      BY <2>2, <2>3 DEF Waits
    <3> QED
      BY <1>3, <1>5, <3>1 DEF TableTells
  <2> QED
    BY <1>3, <1>4, <1>5, <2>3, <2>4, <2>5 DEF FMInv
<1> QED
  BY <1>6, <1>7

LEMMA TakeMeets ==
  ASSUME FMInv, TakeEvent
  PROVE  FMInv'
<1> DEFINE q == ns.events
           e == Head(q)
           t == ns.loc
           f == Fam(e.addr)
           new == IF Dropped(t, e) THEN t ELSE IF e.code = "del" THEN Without(t, e) ELSE With(t, e)
           i == FindAddress(t, e.addr)
<1>1. q # <<>> /\ dev' = dev
      /\ ns' = [loc |-> new, events |-> Tail(q), now |-> IF Dropped(t, e) THEN None ELSE Taken(t, e)]
  BY DEF TakeEvent
<1>2. EventsInv(q) /\ EventsTell(dev, q) /\ TableTells(dev, q, t) /\ TableInv(t)
      /\ dev \in [Addr -> [up : BOOLEAN, low : BOOLEAN]]
  BY DEF FMInv
<1>3. ns'.loc = new /\ ns'.events = Tail(q)
      /\ ns' = [loc |-> ns'.loc, events |-> ns'.events, now |-> ns'.now]
  BY <1>1
<1> HIDE DEF q, new, t
<1>4. /\ e \in Event /\ e \in Range(q)
      /\ EventsInv(Tail(q))
      /\ Range(Tail(q)) = {x \in Range(q) : x.addr # e.addr}
      /\ \A x \in Range(q) : x.addr = e.addr => x = e
  BY <1>1, <1>2, TailEvents
<1>5. e.addr \in Addr /\ e.low \in BOOLEAN /\ f \in Family
  BY <1>4, FamilyOf DEF Event
<1>6. IF dev[e.addr].up THEN e.code # "del" /\ e.low = dev[e.addr].low ELSE e.code = "del"
  BY <1>2, <1>4 DEF EventsTell
<1>7. /\ i # None => i \in t[f].bits /\ t[f].addr[i] = e.addr
      /\ i = None => \A j \in t[f].bits : t[f].addr[j] # e.addr
  BY <1>2, <1>5, FindAddressFinds
<1>8. t[f].bits \in SUBSET Slot
  BY <1>2, <1>5 DEF TableInv, Table
<1>9. /\ Slot \ t[f].bits # {} => FreeIndex(t[f].bits, t[f].next) # None
      /\ Slot \ t[f].bits = {} => FreeIndex(t[f].bits, t[f].next) = None
  <2>1. None \notin Slot
    BY FullMeshAssumption DEF Slot
  <2> QED
    BY <1>8, <2>1, FreeIndexFree
<1> HIDE DEF e, f, i
<1>10. Fits(e.addr) /\ i = None => Slot \ t[f].bits # {}
  <2> SUFFICES ASSUME Fits(e.addr), i = None PROVE Slot \ t[f].bits # {}
    OBVIOUS
  <2> DEFINE F == {b \in Addr : Fam(b) = f}
  <2>1. IsFiniteSet(F)
    BY FullMeshAssumption, FS_Subset DEF Addr
  <2>2. e.addr \in F /\ Cardinality(F) <= MaxAddr
    BY <1>5 DEF Fits, f
  <2> HIDE DEF F
  <2>3. IsFiniteSet(F \ {e.addr}) /\ Cardinality(F \ {e.addr}) = Cardinality(F) - 1
        /\ Cardinality(F) \in Nat
    BY <2>1, <2>2, FS_RemoveElement, FS_CardinalityType
  <2>4. \A j \in t[f].bits : t[f].addr[j] \in F \ {e.addr}
    BY <1>2, <1>5, <1>7 DEF TableInv, F
  <2>5. Cardinality(F \ {e.addr}) < MaxAddr
    BY <2>2, <2>3, FullMeshAssumption
  <2> QED
    BY <1>2, <1>5, <2>3, <2>4, <2>5, RoomInTable
<1> DEFINE Told == \A low \in BOOLEAN :
                     HasEntry(new, e.addr, low) <=> dev[e.addr].up /\ low = dev[e.addr].low
<1>11. /\ TableInv(new)
       /\ Fits(e.addr) => Told
       /\ \A a \in Addr, low \in BOOLEAN : a # e.addr => (HasEntry(new, a, low) <=> HasEntry(t, a, low))
  <2>1. CASE Dropped(t, e)
    <3>1. new = t
      BY <2>1 DEF new
    <3>2. CASE e.code = "del"
      <4>1. i = None
        BY <2>1, <3>2 DEF Dropped, i
      <4>2. \A low \in BOOLEAN : ~ HasEntry(t, e.addr, low)
        BY <1>7, <4>1 DEF HasEntry, f
      <4> QED
        BY <1>2, <1>6, <3>1, <3>2, <4>2
    <3>3. CASE e.code # "del" /\ i = None
      <4>1. FreeIndex(t[f].bits, t[f].next) = None
        BY <2>1, <3>3 DEF Dropped, i, f
      <4> QED
        BY <1>2, <1>9, <1>10, <3>1, <3>3, <4>1
    <3>4. CASE e.code # "del" /\ i # None
      <4>1. t[f].low[i] = e.low
        BY <2>1, <3>4 DEF Dropped, i, f
      <4>2. \A j \in t[f].bits : t[f].addr[j] = e.addr <=> j = i
        BY <1>2, <1>5, <1>7, <3>4 DEF TableInv
      <4>3. \A low \in BOOLEAN : HasEntry(t, e.addr, low) <=> low = e.low
        BY <1>7, <3>4, <4>1, <4>2 DEF HasEntry, f
      <4> QED
        BY <1>2, <1>5, <1>6, <3>1, <3>4, <4>3
    <3> QED
      BY <3>2, <3>3, <3>4
  <2>2. CASE ~ Dropped(t, e) /\ e.code = "del"
    <3>1. new = Without(t, e) /\ i # None
      BY <2>2 DEF new, Dropped, i
    <3>2. /\ TableInv(new)
          /\ \A a \in Addr, low \in BOOLEAN : HasEntry(new, a, low) <=> a # e.addr /\ HasEntry(t, a, low)
      BY <1>2, <1>5, <3>1, WithoutEntry DEF i
    <3> QED
      BY <1>5, <1>6, <2>2, <3>2
  <2>3. CASE ~ Dropped(t, e) /\ e.code # "del"
    <3>1. new = With(t, e)
      BY <2>3 DEF new
    <3>2. i = None => Slot \ t[f].bits # {}
      <4>1. i = None => FreeIndex(t[f].bits, t[f].next) # None
        BY <2>3 DEF Dropped, i, f
      <4> QED
        BY <1>9, <4>1
    <3>3. /\ TableInv(new)
          /\ \A a \in Addr, low \in BOOLEAN :
               HasEntry(new, a, low) <=> IF a = e.addr THEN low = e.low ELSE HasEntry(t, a, low)
      BY <1>2, <1>5, <3>1, <3>2, WithEntry DEF i, f
    <3> QED
      BY <1>5, <1>6, <2>3, <3>3
  <2> QED
    BY <2>1, <2>2, <2>3
<1>12. EventsTell(dev, Tail(q))
  BY <1>2, <1>4 DEF EventsTell
<1>13. TableTells(dev, Tail(q), new)
  <2>1. \A a \in Addr : a # e.addr /\ ~ Waits(Tail(q), a) => ~ Waits(q, a)
    BY <1>4 DEF Waits
  <2> SUFFICES ASSUME NEW a \in Addr, Fits(a), ~ Waits(Tail(q), a), NEW low \in BOOLEAN
               PROVE  HasEntry(new, a, low) <=> dev[a].up /\ low = dev[a].low
    BY DEF TableTells
  <2>2. CASE a = e.addr
    BY <1>11, <2>2
  <2>3. CASE a # e.addr
    BY <1>2, <1>11, <2>1, <2>3 DEF TableTells
  <2> QED
    BY <2>2, <2>3
<1> QED
  BY <1>1, <1>2, <1>3, <1>4, <1>11, <1>12, <1>13 DEF FMInv

LEMMA StepMeets ==
  FMInv /\ [Next]_vars => FMInv'
<1> SUFFICES ASSUME FMInv, [Next]_vars PROVE FMInv'
  OBVIOUS
<1>1. ASSUME UNCHANGED <<dev, ns>> PROVE FMInv'
  BY <1>1 DEF FMInv
<1>2. CASE \E a \in Addr : DeviceChanges(a)
  BY <1>2, DeviceMeets
<1>3. CASE TakeEvent
  BY <1>3, TakeMeets
<1>4. CASE ApplyEvent
  <2>1. dev' = dev /\ ns' = [ns EXCEPT !.now = None]
    BY <1>4 DEF ApplyEvent
  <2>2. ns = [loc |-> ns.loc, events |-> ns.events, now |-> ns.now]
    BY DEF FMInv
  <2>3. ns'.loc = ns.loc /\ ns'.events = ns.events
        /\ ns' = [loc |-> ns'.loc, events |-> ns'.events, now |-> ns'.now]
    BY <2>1, <2>2
  <2> QED
    BY <2>1, <2>3 DEF FMInv
<1>5. CASE NewSession \/ FullyEstablished \/ Release
  BY <1>1, <1>5 DEF NewSession, FullyEstablished, Release
<1>6. CASE WorkerStart \/ WorkerStep \/ RetryStart \/ RetryStep
  BY <1>1, <1>6 DEF WorkerStart, WorkerStep, RetryStart, RetryStep
<1>7. CASE RecvAddAddr \/ RecvRemAddr \/ SubflowLost \/ Reap
  BY <1>1, <1>7 DEF RecvAddAddr, RecvRemAddr, SubflowLost, Reap
<1>8. CASE JoinRequest \/ JoinDone \/ JoinExpires \/ AddrSignal \/ Ends
  BY <1>1, <1>8 DEF JoinRequest, JoinDone, JoinExpires, AddrSignal, Ends
<1>9. CASE UNCHANGED vars
  BY <1>1, <1>9 DEF vars
<1> QED
  BY <1>2, <1>3, <1>4, <1>5, <1>6, <1>7, <1>8, <1>9 DEF Next

LEMMA InvSuffices ==
  FMInv => TableIsDevices
<1> SUFFICES ASSUME FMInv, ns.events = <<>>, NEW f \in Family
             PROVE  LET up == {a \in Addr : dev[a].up /\ Fam(a) = f}
                        of == {<<ns.loc[f].addr[i], ns.loc[f].low[i]>> : i \in ns.loc[f].bits}
                    IN  /\ Cardinality(ns.loc[f].bits) = Cardinality({p[1] : p \in of})
                        /\ Cardinality({a \in Addr : Fam(a) = f}) <= MaxAddr =>
                             of = {<<a, dev[a].low>> : a \in up}
  BY DEF TableIsDevices
<1> DEFINE up == {a \in Addr : dev[a].up /\ Fam(a) = f}
           bits == ns.loc[f].bits
           addr == ns.loc[f].addr
           low == ns.loc[f].low
           of == {<<addr[i], low[i]>> : i \in bits}
<1>1. /\ bits \in SUBSET Slot
      /\ addr \in [Slot -> Addr \cup {None}] /\ low \in [Slot -> BOOLEAN]
      /\ \A i \in bits : addr[i] \in Addr /\ Fam(addr[i]) = f
      /\ \A i, j \in bits : addr[i] = addr[j] => i = j
  BY DEF FMInv, TableInv, Table
<1>2. TableTells(dev, <<>>, ns.loc)
  BY DEF FMInv
<1>3. \A a \in Addr : ~ Waits(<<>>, a)
  BY DEF Waits, Range
<1>4. Cardinality(bits) = Cardinality({p[1] : p \in of})
  <2> DEFINE g == [i \in bits |-> addr[i]]
             D == {addr[i] : i \in bits}
  <2>1. {p[1] : p \in of} = D
    <3>1. \A i \in bits : <<addr[i], low[i]>>[1] = addr[i]
      OBVIOUS
    <3>2. ASSUME NEW x \in D PROVE x \in {p[1] : p \in of}
      <4>1. PICK i \in bits : x = addr[i]
        OBVIOUS
      <4>2. <<addr[i], low[i]>> \in of /\ <<addr[i], low[i]>>[1] = x
        BY <4>1
      <4> HIDE DEF of
      <4> QED
        BY <4>2
    <3>3. ASSUME NEW x \in {p[1] : p \in of} PROVE x \in D
      <4>1. PICK p \in of : x = p[1]
        OBVIOUS
      <4>2. PICK i \in bits : p = <<addr[i], low[i]>>
        OBVIOUS
      <4> QED
        BY <4>1, <4>2
    <3> HIDE DEF D, of
    <3> QED
      BY <3>2, <3>3
  <2>2. g \in Bijection(bits, D)
    BY <1>1 DEF Bijection, Injection, IsInjective, Surjection
  <2>3. IsFiniteSet(bits)
    <3>1. 0 \in Int /\ MaxAddr - 1 \in Int
      BY FullMeshAssumption
    <3>2. IsFiniteSet(Slot)
      BY <3>1, FS_Interval DEF Slot
    <3> QED
      BY <1>1, <3>2, FS_Subset
  <2> HIDE DEF g, D, of, bits
  <2>4. Cardinality(bits) = Cardinality(D)
    BY <2>2, <2>3, FS_Bijection DEF ExistsBijection
  <2>5. Cardinality({p[1] : p \in of}) = Cardinality(D)
    BY <2>1
  <2> QED
    BY <2>4, <2>5
<1>5. ASSUME Cardinality({a \in Addr : Fam(a) = f}) <= MaxAddr
      PROVE  of = {<<a, dev[a].low>> : a \in up}
  <2>1. ASSUME NEW a \in Addr, Fam(a) = f, NEW l \in BOOLEAN
        PROVE  (\E i \in bits : addr[i] = a /\ low[i] = l) <=> dev[a].up /\ l = dev[a].low
    <3>1. Fits(a)
      BY <1>5, <2>1 DEF Fits
    <3>2. HasEntry(ns.loc, a, l) <=> dev[a].up /\ l = dev[a].low
      BY <1>2, <1>3, <3>1 DEF TableTells
    <3> QED
      BY <2>1, <3>2 DEF HasEntry
  <2>2. \A a \in Addr : dev[a].low \in BOOLEAN
    BY DEF FMInv
  <2> HIDE DEF bits, addr, low
  <2>3. ASSUME NEW i \in bits PROVE <<addr[i], low[i]>> \in {<<a, dev[a].low>> : a \in up}
    <3>1. addr[i] \in Addr /\ Fam(addr[i]) = f /\ low[i] \in BOOLEAN
      BY <1>1
    <3>2. dev[addr[i]].up /\ low[i] = dev[addr[i]].low
      BY <2>1, <3>1
    <3> QED
      BY <3>1, <3>2
  <2>4. ASSUME NEW a \in up PROVE <<a, dev[a].low>> \in of
    <3>1. PICK i \in bits : addr[i] = a /\ low[i] = dev[a].low
      BY <2>1, <2>2
    <3> QED
      BY <3>1
  <2> QED
    BY <2>3, <2>4
<1> QED
  BY <1>4, <1>5

(***************************************************************************)
(* Whatever the devices do and however their events merge, once no event   *)
(* waits the table of addresses is what the devices are, as far as it has  *)
(* room for them, and no address is in it twice: add_pm_event() and        *)
(* mptcp_address_worker() of mptcp_fullmesh.c.                             *)
(***************************************************************************)
THEOREM TableFollowsDevices == Spec => []TableIsDevices
<1>1. Init => FMInv
  BY InitMeets
<1>2. FMInv /\ [Next]_vars => FMInv'
  BY StepMeets
<1>3. FMInv => TableIsDevices
  BY InvSuffices
<1> QED
  BY <1>1, <1>2, <1>3, PTL DEF Spec

(***************************************************************************)
(* A connection and the table                                              *)
(***************************************************************************)

\* The identifiers of the slots of both families.
Lid == 0..2 * MaxAddr - 1

ConnFields ==
    {"phase", "kind", "source", "pm", "master", "infinite", "dead", "owned", "first", "sub", "req",
     "add", "ann", "remove", "rem", "work", "retry", "told", "late"}

\* A record with these fields.
IsConn(c) == c = [x \in ConnFields |-> c[x]]

SubFields == {"src", "dst", "lid", "rid", "low", "master", "open"}

IsSub(s) == s = [x \in SubFields |-> s[x]] /\ s.src \in Addr /\ s.lid \in Lid

\* An address of the peer and the slots it has been tried from.
IsRemote(r) ==
    /\ r = [x \in {"id", "addr", "port", "bits", "retry"} |-> r[x]]
    /\ r.bits \in SUBSET Slot /\ r.retry \in SUBSET Slot

\* struct fullmesh_priv: the addresses of the peer.
IsRem(m) ==
    /\ m = [f \in Family |-> [j \in Slot |-> m[f][j]]]
    /\ \A f \in Family, j \in Slot : m[f][j] = None \/ IsRemote(m[f][j])

\* A work item, and the copy of the table it works on.
IsWork(w) ==
    /\ w = [x \in {"pending", "run"} |-> w[x]]
    /\ w.run # None => w.run = [x \in {"loc", "again"} |-> w.run[x]] /\ TableInv(w.run.loc)

\* A join under way.
IsReq(q) == q # None => q.src \in Addr /\ q.lid \in Lid

\* Before the connection is there nothing is under way.
Idle(c) ==
    /\ ~c.owned /\ ~c.work.pending /\ c.work.run = None /\ ~c.retry.pending /\ c.retry.run = None
    /\ c.req = None /\ DOMAIN c.sub = {} /\ \A f \in Family : c.ann[f] = {}

\* A connection is there with a first subflow from some address, or not at all.
Begun(c) == IF c.phase = "none" THEN Idle(c) ELSE c.phase = "open" /\ c.source \in Addr

\* The fields of the connection that the proofs below use.
Typed(c) ==
    /\ IsConn(c)
    /\ \A s \in DOMAIN c.sub : IsSub(s)
    /\ c.kind.flows \in Nat /\ c.add \in Nat /\ c.remove \in SUBSET Lid
    /\ c.ann \in [Family -> SUBSET Slot] /\ IsRem(c.rem)
    /\ IsWork(c.work) /\ IsWork(c.retry) /\ IsReq(c.req)
    /\ Begun(c)

\* The table has the address a.
InTable(t, a) == \E i \in t[Fam(a)].bits : t[Fam(a)].addr[i] = a

\* The path manager acts on the connection.
Serving(c) == c.phase = "open" /\ c.pm = "fullmesh" /\ ~c.infinite

\* The event the address worker is applying.
IsNow(e) ==
    e # None => /\ e.addr \in Addr /\ e.code \in {"add", "del", "mod"}
                /\ e.code = "del" => e.id \in Slot

\* The event takes this address, or one of this family, away.
Leaves(e, a) == e # None /\ e.code = "del" /\ e.addr = a
LeavesFam(e, f) == e # None /\ e.code = "del" /\ Fam(e.addr) = f

\* The slots noted as announced are in use, or an event or the release will see to it.
SlotsKnown(c, t, e) ==
    Serving(c) => \A f \in Family :
      Concerns(c, f) => c.owned \/ LeavesFam(e, f) \/ c.ann[f] \subseteq t[f].bits

\* So are the sources of the subflows.
FromTable(c, t, e) ==
    Serving(c) /\ c.late \cap {"copy", "source"} = {} =>
      \A s \in DOMAIN c.sub :
        s.open /\ Concerns(c, Fam(s.src)) => c.owned \/ Leaves(e, s.src) \/ InTable(t, s.src)

\* The table still has what the worker's copy of it has.
CopyCurrent(w, t) ==
    w.run # None => \A f \in Family : \A i \in w.run.loc[f].bits : InTable(t, w.run.loc[f].addr[i])

\* What the workers and a join have seen of the table is still there.
Current(c, t) ==
    "copy" \notin c.late =>
      /\ CopyCurrent(c.work, t) /\ CopyCurrent(c.retry, t)
      /\ c.req # None => InTable(t, c.req.src)

\* The connection c, the table t and the event e under way agree.
ConnInv(c, t, e) == Typed(c) /\ SlotsKnown(c, t, e) /\ FromTable(c, t, e) /\ Current(c, t)

\* It is inductive together with FMInv.
MeshInv == ConnInv(conn, ns.loc, ns.now) /\ IsNow(ns.now)

LEMMA BagPlus ==
  ASSUME NEW A, NEW B
  PROVE  DOMAIN (A (+) B) = DOMAIN A \cup DOMAIN B
BY DEF (+)

LEMMA BagMinus ==
  ASSUME NEW A, NEW B
  PROVE  DOMAIN (A (-) B) \subseteq DOMAIN A
BY DEF (-)

LEMMA BagCounts ==
  ASSUME NEW A, NEW B, NEW s \in DOMAIN A, s \notin DOMAIN B
  PROVE  /\ A[s] \in Nat => (A (+) B)[s] = A[s]
         /\ A[s] \in Nat \ {0} => s \in DOMAIN (A (-) B) /\ (A (-) B)[s] = A[s]
BY DEF (+), (-)

LEMMA BagTaken ==
  ASSUME NEW A, NEW s, A[s] = 1
  PROVE  s \notin DOMAIN (A (-) SetToBag({s}))
<1>1. DOMAIN SetToBag({s}) = {s} /\ SetToBag({s})[s] = 1
  BY DEF SetToBag
<1> QED
  BY <1>1 DEF (-)

LEMMA BagOfSet ==
  ASSUME NEW S
  PROVE  DOMAIN SetToBag(S) = S /\ DOMAIN EmptyBag = {} /\ \A s \in S : SetToBag(S)[s] = 1
BY DEF SetToBag, EmptyBag

\* All fields but those of F are as they were.
Keeps(c, d, F) == IsConn(d) /\ \A x \in ConnFields \ F : d[x] = c[x]

LEMMA CreateKeeps ==
  ASSUME NEW c, IsConn(c), IsWork(c.work)
  PROVE  LET d == CreateSubflows(c)
         IN  Keeps(c, d, {"work"}) /\ d.work.run = c.work.run /\ IsWork(d.work)
<1> DEFINE d == [c EXCEPT !.work.pending = TRUE]
<1>1. Keeps(c, d, {"work"}) /\ d.work = [c.work EXCEPT !.pending = TRUE]
  BY DEF IsConn, ConnFields, Keeps
<1>2. /\ [c.work EXCEPT !.pending = TRUE].run = c.work.run
      /\ [c.work EXCEPT !.pending = TRUE] = [x \in {"pending", "run"} |-> [c.work EXCEPT !.pending = TRUE][x]]
  BY DEF IsWork
<1> HIDE DEF d
<1>3. Keeps(c, c, {"work"})
  BY DEF Keeps
<1> QED
  <2>1. CreateSubflows(c) \in {c, d}
    BY DEF CreateSubflows, d
  <2> QED
    BY <1>1, <1>2, <1>3, <2>1 DEF IsWork

LEMMA CreatedTyped ==
  ASSUME NEW c, NEW t, Typed(c), c.phase # "none"
  PROVE  LET d == CreateSubflows(c)
         IN  /\ Keeps(c, d, {"work"}) /\ Typed(d)
             /\ Current(c, t) => Current(d, t)
<1> DEFINE d == CreateSubflows(c)
<1>1. Keeps(c, d, {"work"}) /\ d.work.run = c.work.run /\ IsWork(d.work)
  BY CreateKeeps DEF Typed
<1>2. /\ IsConn(d) /\ d.kind = c.kind /\ d.phase = c.phase /\ d.source = c.source /\ d.sub = c.sub
      /\ d.req = c.req /\ d.add = c.add /\ d.ann = c.ann /\ d.remove = c.remove
      /\ d.rem = c.rem /\ d.retry = c.retry /\ d.late = c.late
  BY <1>1 DEF Keeps, ConnFields
<1> HIDE DEF d
<1>3. Typed(d)
  BY <1>1, <1>2 DEF Typed, Begun
<1>4. Current(c, t) => Current(d, t)
  BY <1>1, <1>2 DEF Current, CopyCurrent
<1> QED
  BY <1>1, <1>3, <1>4 DEF d

LEMMA CreateKept ==
  ASSUME NEW c, NEW t, NEW e, ConnInv(c, t, e), c.phase # "none"
  PROVE  ConnInv(CreateSubflows(c), t, e)
<1> DEFINE d == CreateSubflows(c)
<1>1. Keeps(c, d, {"work"}) /\ Typed(d) /\ Current(d, t)
  BY CreatedTyped DEF ConnInv
<1>2. /\ d.phase = c.phase /\ d.kind = c.kind /\ d.pm = c.pm /\ d.infinite = c.infinite
      /\ d.owned = c.owned /\ d.sub = c.sub /\ d.ann = c.ann /\ d.late = c.late
  BY <1>1 DEF Keeps, ConnFields
<1> HIDE DEF d
<1>3. SlotsKnown(d, t, e) /\ FromTable(d, t, e)
  BY <1>2 DEF ConnInv, SlotsKnown, FromTable, Serving, Concerns
<1> QED
  BY <1>1, <1>3 DEF ConnInv, d

\* Fields in which a handler may change the connection without touching its workers.
Loose == {"master", "infinite", "dead", "first", "told", "add", "remove", "sub", "rem", "late"}

LEMMA TypedKept ==
  ASSUME NEW c, NEW d, Typed(c), c.phase # "none", Keeps(c, d, Loose),
         d.add \in Nat, d.remove \in SUBSET Lid, IsRem(d.rem), \A s \in DOMAIN d.sub : IsSub(s)
  PROVE  Typed(d)
<1>1. /\ IsConn(d) /\ d.kind = c.kind /\ d.phase = c.phase /\ d.source = c.source
      /\ d.req = c.req /\ d.ann = c.ann /\ d.work = c.work /\ d.retry = c.retry
  BY DEF Keeps, ConnFields, Loose
<1> QED
  BY <1>1 DEF Typed, Begun

LEMMA CurrentKept ==
  ASSUME NEW c, NEW d, NEW t, Current(c, t), Keeps(c, d, Loose), c.late \subseteq d.late
  PROVE  Current(d, t)
<1>1. d.req = c.req /\ d.work = c.work /\ d.retry = c.retry
  BY DEF Keeps, ConnFields, Loose
<1> QED
  BY <1>1 DEF Current

LEMMA SlotsKept ==
  ASSUME NEW c, NEW d, NEW t, NEW e, SlotsKnown(c, t, e), Keeps(c, d, Loose),
         c.infinite => d.infinite
  PROVE  SlotsKnown(d, t, e)
<1>1. d.phase = c.phase /\ d.kind = c.kind /\ d.pm = c.pm /\ d.owned = c.owned /\ d.ann = c.ann
  BY DEF Keeps, ConnFields, Loose
<1> QED
  BY <1>1 DEF SlotsKnown, Serving, Concerns

\* A subflow from a source that one was open from, or that is in the table.
LEMMA SourcesKept ==
  ASSUME NEW c, NEW d, NEW t, NEW e, FromTable(c, t, e), Keeps(c, d, Loose),
         c.infinite => d.infinite, c.late \subseteq d.late,
         d.late \cap {"copy", "source"} = {} =>
           \A s \in DOMAIN d.sub :
             s.open => InTable(t, s.src) \/ \E u \in DOMAIN c.sub : u.open /\ u.src = s.src
  PROVE  FromTable(d, t, e)
<1>1. d.phase = c.phase /\ d.kind = c.kind /\ d.pm = c.pm /\ d.owned = c.owned
  BY DEF Keeps, ConnFields, Loose
<1>2. Serving(d) => Serving(c)
  BY <1>1 DEF Serving
<1>3. \A f : Concerns(d, f) <=> Concerns(c, f)
  BY <1>1 DEF Concerns
<1> SUFFICES ASSUME Serving(d), d.late \cap {"copy", "source"} = {}, NEW s \in DOMAIN d.sub,
                    s.open, Concerns(d, Fam(s.src))
             PROVE  d.owned \/ Leaves(e, s.src) \/ InTable(t, s.src)
  BY DEF FromTable
<1>4. CASE InTable(t, s.src)
  BY <1>4
<1>5. ASSUME NEW u \in DOMAIN c.sub, u.open, u.src = s.src
      PROVE  d.owned \/ Leaves(e, s.src) \/ InTable(t, s.src)
  <2>1. c.late \cap {"copy", "source"} = {}
    OBVIOUS
  <2> QED
    BY <1>1, <1>2, <1>3, <1>5, <2>1 DEF FromTable
<1> QED
  BY <1>4, <1>5

LEMMA InvKept ==
  ASSUME NEW c, NEW d, NEW t, NEW e, ConnInv(c, t, e), c.phase # "none", Keeps(c, d, Loose),
         c.infinite => d.infinite, c.late \subseteq d.late,
         d.add \in Nat, d.remove \in SUBSET Lid, IsRem(d.rem), \A s \in DOMAIN d.sub : IsSub(s),
         d.late \cap {"copy", "source"} = {} =>
           \A s \in DOMAIN d.sub :
             s.open => InTable(t, s.src) \/ \E u \in DOMAIN c.sub : u.open /\ u.src = s.src
  PROVE  ConnInv(d, t, e)
BY TypedKept, CurrentKept, SlotsKept, SourcesKept DEF ConnInv

LEMMA ChangedSubs ==
  ASSUME NEW c, IsConn(c), NEW new
  PROVE  LET d == Changed(c, new)
         IN  Keeps(c, d, {"sub"}) /\ DOMAIN d.sub = {new[s] : s \in DOMAIN new}
<1> DEFINE b == [e \in Range(new) |->
                   MapThenSumSet(LAMBDA s : c.sub[s], {s \in DOMAIN new : new[s] = e})]
<1>1. Changed(c, new) = [c EXCEPT !.sub = b]
  BY DEF Changed
<1>2. DOMAIN b = {new[s] : s \in DOMAIN new}
  BY DEF Range
<1> HIDE DEF b
<1>3. Keeps(c, [c EXCEPT !.sub = b], {"sub"}) /\ [c EXCEPT !.sub = b].sub = b
  BY DEF IsConn, Keeps, ConnFields
<1> QED
  BY <1>1, <1>2, <1>3

\* The subflows of d are those of c, closed or with another priority.
SubsOf(c, d) ==
    \A s \in DOMAIN d.sub : IsSub(s) /\ \E u \in DOMAIN c.sub : s.src = u.src /\ (s.open => u.open)

\* s is the first subflow, listed once.
Single(c, s) ==
    /\ s \in DOMAIN c.sub /\ s.master /\ c.sub[s] = 1
    /\ \A u \in DOMAIN c.sub : u.master => u = s

\* The first subflow of c is there in d.
MastersOf(c, d) == \A u : Single(c, u) => \E s : Single(d, s) /\ s.src = u.src

LEMMA SumOfOne ==
  ASSUME NEW b, NEW u, b[u] \in Nat
  PROVE  MapThenSumSet(LAMBDA s : b[s], {u}) = b[u]
<1> DEFINE it == CHOOSE it : it = [s \in SUBSET {u} |->
                   IF s = {} THEN 0 ELSE b[CHOOSE x \in s : TRUE] + it[s \ {CHOOSE x \in s : TRUE}]]
           w == [s \in SUBSET {u} |-> IF s = {} THEN 0 ELSE b[u]]
<1>1. \A s \in SUBSET {u} : s # {} => s = {u}
  OBVIOUS
<1>2. (CHOOSE x \in {u} : TRUE) = u
  OBVIOUS
<1>3. w[{}] = 0 /\ w[{u}] = b[u] /\ {u} \ {u} = {} /\ b[u] + 0 = b[u]
  OBVIOUS
<1>4. w = [s \in SUBSET {u} |->
             IF s = {} THEN 0 ELSE b[CHOOSE x \in s : TRUE] + w[s \ {CHOOSE x \in s : TRUE}]]
  <2>1. \A s \in SUBSET {u} :
          (IF s = {} THEN 0 ELSE b[u])
            = IF s = {} THEN 0 ELSE b[CHOOSE x \in s : TRUE] + w[s \ {CHOOSE x \in s : TRUE}]
    <3> SUFFICES ASSUME NEW s \in SUBSET {u}, s # {}
                 PROVE  b[u] = b[CHOOSE x \in s : TRUE] + w[s \ {CHOOSE x \in s : TRUE}]
      OBVIOUS
    <3>1. s = {u}
      BY <1>1
    <3> HIDE DEF w
    <3> QED
      BY <1>2, <1>3, <3>1
  <2> QED
    BY <2>1
<1> HIDE DEF w
<1>5. it = [s \in SUBSET {u} |->
              IF s = {} THEN 0 ELSE b[CHOOSE x \in s : TRUE] + it[s \ {CHOOSE x \in s : TRUE}]]
  BY <1>4
<1>6. MapThenSumSet(LAMBDA s : b[s], {u}) = it[{u}]
  BY DEF MapThenSumSet, MapThenFoldSet
<1> HIDE DEF it
<1>7. it[{}] = 0 /\ it[{u}] = b[CHOOSE x \in {u} : TRUE] + it[{u} \ {CHOOSE x \in {u} : TRUE}]
  BY <1>5
<1> QED
  BY <1>2, <1>3, <1>6, <1>7

LEMMA ChangedMaster ==
  ASSUME NEW c, IsConn(c), NEW new, DOMAIN new = DOMAIN c.sub,
         \A s \in DOMAIN c.sub : new[s].master = s.master /\ new[s].src = s.src
  PROVE  MastersOf(c, Changed(c, new))
<1> DEFINE b == [e \in Range(new) |->
                   MapThenSumSet(LAMBDA s : c.sub[s], {s \in DOMAIN new : new[s] = e})]
           d == Changed(c, new)
<1>1. d = [c EXCEPT !.sub = b]
  BY DEF Changed
<1> SUFFICES ASSUME NEW u, Single(c, u)
             PROVE  Single(d, new[u])
  BY DEF MastersOf, Single
<1>2. {s \in DOMAIN new : new[s] = new[u]} = {u}
  BY DEF Single
<1>3. new[u] \in DOMAIN b /\ \A s \in DOMAIN b : \E v \in DOMAIN c.sub : s = new[v]
  BY DEF Single, Range
<1>4. c.sub[u] \in Nat
  BY DEF Single
<1>5. MapThenSumSet(LAMBDA s : c.sub[s], {u}) = c.sub[u]
  BY <1>4, SumOfOne
<1>6. b[new[u]] = c.sub[u]
  BY <1>2, <1>3, <1>5
<1> HIDE DEF b, d
<1>7. d.sub = b
  BY <1>1 DEF IsConn, ConnFields
<1> QED
  BY <1>3, <1>6, <1>7 DEF Single

LEMMA ClosedSubs ==
  ASSUME NEW c, IsConn(c), \A s \in DOMAIN c.sub : IsSub(s), NEW S
  PROVE  LET d == Closed(c, S)
         IN  /\ Keeps(c, d, {"sub"}) /\ SubsOf(c, d) /\ MastersOf(c, d)
             /\ \A s \in DOMAIN d.sub : s.open => s \in DOMAIN c.sub /\ s \notin S
<1> DEFINE new == [s \in DOMAIN c.sub |-> IF s \in S THEN [s EXCEPT !.open = FALSE] ELSE s]
           d == Changed(c, new)
<1>1. Closed(c, S) = d
  BY DEF Closed
<1>2. \A s \in DOMAIN c.sub : /\ IsSub(new[s]) /\ new[s].src = s.src /\ new[s].master = s.master
                              /\ new[s].open => s.open /\ new[s] = s /\ s \notin S
  <2> SUFFICES ASSUME NEW s \in DOMAIN c.sub
               PROVE  /\ IsSub(new[s]) /\ new[s].src = s.src /\ new[s].master = s.master
                      /\ new[s].open => s.open /\ new[s] = s /\ s \notin S
    OBVIOUS
  <2> DEFINE r == [s EXCEPT !.open = FALSE]
  <2>1. IsSub(s)
    OBVIOUS
  <2>2. IsSub(r) /\ r.src = s.src /\ r.master = s.master /\ r.open = FALSE
    BY <2>1 DEF IsSub, SubFields
  <2>3. new[s] = IF s \in S THEN r ELSE s
    OBVIOUS
  <2> HIDE DEF r, new
  <2> QED
    BY <2>1, <2>2, <2>3
<1>3. DOMAIN new = DOMAIN c.sub
  OBVIOUS
<1> HIDE DEF new
<1>4. Keeps(c, d, {"sub"}) /\ DOMAIN d.sub = {new[s] : s \in DOMAIN c.sub}
  BY <1>3, ChangedSubs
<1>6. MastersOf(c, d)
  BY <1>2, <1>3, ChangedMaster
<1> HIDE DEF d
<1>5. ASSUME NEW s \in DOMAIN d.sub
      PROVE  /\ IsSub(s) /\ \E u \in DOMAIN c.sub : s.src = u.src /\ (s.open => u.open)
             /\ s.open => s \in DOMAIN c.sub /\ s \notin S
  <2>1. PICK u \in DOMAIN c.sub : s = new[u]
    BY <1>4
  <2> QED
    BY <1>2, <2>1
<1> QED
  BY <1>1, <1>4, <1>5, <1>6 DEF SubsOf

LEMMA RemovedSubs ==
  ASSUME NEW c, IsConn(c), \A s \in DOMAIN c.sub : IsSub(s), c.remove \in SUBSET Lid,
         NEW S \in SUBSET DOMAIN c.sub
  PROVE  LET d == Removed(c, S)
         IN  /\ Keeps(c, d, {"sub", "remove"}) /\ SubsOf(c, d) /\ MastersOf(c, d) /\ d.remove \in SUBSET Lid
             /\ \A s \in DOMAIN d.sub : s.open => s \in DOMAIN c.sub /\ s \notin S
<1> DEFINE b == Closed(c, S)
           ids == {s.lid : s \in S}
           d == [b EXCEPT !.remove = @ \cup ids]
<1>1. /\ Keeps(c, b, {"sub"}) /\ SubsOf(c, b) /\ MastersOf(c, b)
      /\ \A s \in DOMAIN b.sub : s.open => s \in DOMAIN c.sub /\ s \notin S
  BY ClosedSubs
<1>2. ids \subseteq Lid
  BY DEF IsSub
<1>3. Removed(c, S) = d
  BY DEF Removed
<1> HIDE DEF b, ids
<1>4. IsConn(b) /\ b.remove = c.remove
  BY <1>1 DEF Keeps, ConnFields
<1>5. Keeps(b, d, {"remove"}) /\ d.sub = b.sub /\ d.remove = b.remove \cup ids
  BY <1>4 DEF IsConn, Keeps, ConnFields
<1> HIDE DEF d
<1>6. Keeps(c, d, {"sub", "remove"})
  BY <1>1, <1>5 DEF Keeps
<1> QED
  BY <1>1, <1>2, <1>3, <1>4, <1>5, <1>6 DEF SubsOf, MastersOf, Single

LEMMA PrioritisedSubs ==
  ASSUME NEW c, IsConn(c), \A s \in DOMAIN c.sub : IsSub(s), NEW low
  PROVE  LET d == Prioritised(c, low)
         IN  /\ Keeps(c, d, {"sub"}) /\ SubsOf(c, d) /\ MastersOf(c, d)
             /\ \A s \in DOMAIN d.sub : \E u \in DOMAIN c.sub :
                  /\ s.src = u.src /\ s.lid = u.lid /\ s.master = u.master /\ s.open = u.open
                  /\ s.low = IF u \in DOMAIN low THEN low[u] ELSE u.low
<1> DEFINE new == [s \in DOMAIN c.sub |-> IF s \in DOMAIN low THEN [s EXCEPT !.low = low[s]] ELSE s]
           d == Changed(c, new)
<1>1. Prioritised(c, low) = d
  BY DEF Prioritised
<1>2. \A s \in DOMAIN c.sub :
        /\ IsSub(new[s]) /\ new[s].src = s.src /\ new[s].open = s.open
        /\ new[s].lid = s.lid /\ new[s].master = s.master
        /\ new[s].low = IF s \in DOMAIN low THEN low[s] ELSE s.low
  <2> SUFFICES ASSUME NEW s \in DOMAIN c.sub
               PROVE  /\ IsSub(new[s]) /\ new[s].src = s.src /\ new[s].open = s.open
                      /\ new[s].lid = s.lid /\ new[s].master = s.master
                      /\ new[s].low = IF s \in DOMAIN low THEN low[s] ELSE s.low
    OBVIOUS
  <2> DEFINE r == [s EXCEPT !.low = low[s]]
  <2>1. IsSub(s)
    OBVIOUS
  <2>2. /\ IsSub(r) /\ r.src = s.src /\ r.open = s.open
        /\ r.lid = s.lid /\ r.master = s.master /\ r.low = low[s]
    BY <2>1 DEF IsSub, SubFields
  <2>3. new[s] = IF s \in DOMAIN low THEN r ELSE s
    OBVIOUS
  <2> HIDE DEF r, new
  <2> QED
    BY <2>1, <2>2, <2>3
<1>3. DOMAIN new = DOMAIN c.sub
  OBVIOUS
<1> HIDE DEF new
<1>4. Keeps(c, d, {"sub"}) /\ DOMAIN d.sub = {new[s] : s \in DOMAIN c.sub}
  BY <1>3, ChangedSubs
<1>6. MastersOf(c, d)
  BY <1>2, <1>3, ChangedMaster
<1> HIDE DEF d
<1>5. \A s \in DOMAIN d.sub : \E u \in DOMAIN c.sub : s = new[u]
  BY <1>4
<1> QED
  BY <1>1, <1>2, <1>4, <1>5, <1>6 DEF SubsOf

LEMMA FoundInTable ==
  ASSUME NEW t, TableInv(t), NEW a \in Addr
  PROVE  FindAddress(t, a) # None <=> InTable(t, a)
BY FindAddressFinds DEF InTable

\* An address in use has its priority in the table.
LEMMA FoundEntry ==
  ASSUME NEW t, TableInv(t), NEW a \in Addr, FindAddress(t, a) # None
  PROVE  HasEntry(t, a, t[Fam(a)].low[FindAddress(t, a)])
BY FindAddressFinds DEF HasEntry

LEMMA SlotAddresses ==
  ASSUME NEW t, TableInv(t), NEW f \in Family, NEW i \in t[f].bits
  PROVE  t[f].addr[i] \in Addr /\ t[f].addr[i] # None /\ InTable(t, t[f].addr[i])
<1>1. t[f].addr[i] \in Addr /\ Fam(t[f].addr[i]) = f
  BY DEF TableInv
<1>2. None \notin Addr
  BY FullMeshAssumption DEF Addr
<1> QED
  BY <1>1, <1>2 DEF InTable

LEMMA RemoteChanged ==
  ASSUME NEW m, IsRem(m), NEW f \in Family, NEW j \in Slot, NEW r, r = None \/ IsRemote(r)
  PROVE  LET new == [m EXCEPT ![f] = [m[f] EXCEPT ![j] = r]]
         IN  /\ IsRem(new)
             /\ \A g \in Family, k \in Slot : new[g][k] = IF g = f /\ k = j THEN r ELSE m[g][k]
<1> DEFINE row == [m[f] EXCEPT ![j] = r]
           new == [m EXCEPT ![f] = row]
<1>1. m = [g \in Family |-> [k \in Slot |-> m[g][k]]]
      /\ \A g \in Family, k \in Slot : m[g][k] = None \/ IsRemote(m[g][k])
  BY DEF IsRem
<1>2. m[f] = [k \in Slot |-> m[f][k]]
  BY <1>1
<1>3. row = [k \in Slot |-> IF k = j THEN r ELSE m[f][k]]
  BY <1>2
<1>4. DOMAIN m = Family
  BY <1>1
<1> HIDE DEF row
<1>5. /\ new[f] = row /\ DOMAIN new = Family
      /\ \A g \in Family : g # f => new[g] = m[g]
  BY <1>4
<1>6. new = [g \in Family |-> new[g]]
  BY <1>4
<1> HIDE DEF new
<1>7. \A g \in Family : new[g] = [k \in Slot |-> new[g][k]]
  BY <1>1, <1>3, <1>5
<1>8. \A g \in Family, k \in Slot : new[g][k] = IF g = f /\ k = j THEN r ELSE m[g][k]
  BY <1>1, <1>3, <1>5
<1>9. \A g \in Family, k \in Slot : new[g][k] = None \/ IsRemote(new[g][k])
  BY <1>1, <1>8
<1>10. new = [g \in Family |-> [k \in Slot |-> new[g][k]]]
  BY <1>6, <1>7
<1> QED
  BY <1>8, <1>9, <1>10 DEF IsRem, new

LEMMA BitsChanged ==
  ASSUME NEW r, IsRemote(r), NEW S \in SUBSET Slot
  PROVE  /\ IsRemote([r EXCEPT !.bits = S]) /\ IsRemote([r EXCEPT !.retry = S])
         /\ \A a, p : IsRemote([r EXCEPT !.addr = a, !.port = p])
BY DEF IsRemote

(***************************************************************************)
(* The addresses of the peer                                               *)
(***************************************************************************)

LEMMA UpdatedBitfields ==
  ASSUME NEW c, IsConn(c), c.ann \in [Family -> SUBSET Slot], IsRem(c.rem), NEW t, TableInv(t)
  PROVE  LET d == UpdateBitfields(c, t)
         IN  /\ Keeps(c, d, {"told", "ann", "rem"})
             /\ d.ann \in [Family -> SUBSET Slot] /\ IsRem(d.rem)
             /\ \A f \in Family : d.ann[f] = c.ann[f] \cap t[f].bits
             /\ d.told = {a \in c.told : FindAddress(t, a) # None}
             /\ \A f \in Family, j \in Slot :
                  d.rem[f][j] # None =>
                    /\ c.rem[f][j] # None
                    /\ d.rem[f][j].bits = c.rem[f][j].bits \cap t[f].bits
                    /\ d.rem[f][j].retry = c.rem[f][j].retry \cap t[f].bits
<1> DEFINE told == {a \in c.told : FindAddress(t, a) # None}
           ann == [f \in Family |-> c.ann[f] \cap t[f].bits]
           remote(f, j) == IF c.rem[f][j] = None THEN None
                           ELSE [c.rem[f][j] EXCEPT !.bits = @ \cap t[f].bits,
                                                    !.retry = @ \cap t[f].bits]
           rem == [f \in Family |-> [j \in Slot |-> remote(f, j)]]
           d == [c EXCEPT !.told = told, !.ann = ann, !.rem = rem]
<1>1. UpdateBitfields(c, t) = d
  BY DEF UpdateBitfields
<1>2. ann \in [Family -> SUBSET Slot] /\ \A f \in Family : ann[f] = c.ann[f] \cap t[f].bits
  OBVIOUS
<1>3. ASSUME NEW f \in Family, NEW j \in Slot
      PROVE  /\ remote(f, j) = None \/ IsRemote(remote(f, j))
             /\ remote(f, j) # None =>
                  /\ c.rem[f][j] # None
                  /\ remote(f, j).bits = c.rem[f][j].bits \cap t[f].bits
                  /\ remote(f, j).retry = c.rem[f][j].retry \cap t[f].bits
  <2> DEFINE r == c.rem[f][j]
             B == r.bits \cap t[f].bits
             R == r.retry \cap t[f].bits
             new == [r EXCEPT !.bits = B, !.retry = R]
  <2>1. r = None \/ IsRemote(r)
    BY DEF IsRem
  <2>2. remote(f, j) = IF r = None THEN None ELSE new
    OBVIOUS
  <2> HIDE DEF r
  <2>3. IsRemote(r) => IsRemote(new) /\ new.bits = B /\ new.retry = R
    BY DEF IsRemote
  <2> HIDE DEF new, B, R
  <2>4. /\ remote(f, j) = None \/ IsRemote(remote(f, j))
        /\ remote(f, j) # None => r # None /\ remote(f, j).bits = B /\ remote(f, j).retry = R
    BY <2>1, <2>2, <2>3
  <2> QED
    BY <2>4 DEF r, B, R
<1> HIDE DEF remote
<1>4. \A f \in Family, j \in Slot : rem[f][j] = remote(f, j)
  OBVIOUS
<1>5. rem = [f \in Family |-> [j \in Slot |-> rem[f][j]]]
  OBVIOUS
<1>6. IsRem(rem)
  <2> HIDE DEF rem
  <2> QED
    BY <1>3, <1>4, <1>5 DEF IsRem
<1> HIDE DEF told, ann, rem
<1>7. Keeps(c, d, {"told", "ann", "rem"}) /\ d.ann = ann /\ d.told = told /\ d.rem = rem
  BY DEF IsConn, Keeps, ConnFields
<1> QED
  BY <1>1, <1>2, <1>3, <1>4, <1>6, <1>7 DEF told

\* Only the addresses of the peer change.
PeersOf(c, d) == Keeps(c, d, {"rem"}) /\ IsRem(d.rem)

\* An address that was known has been tried from the same slots, a new one from none.
SamePeer(c, d, f, j) ==
    /\ c.rem[f][j] # None
    /\ d.rem[f][j].bits = c.rem[f][j].bits /\ d.rem[f][j].retry = c.rem[f][j].retry

NewPeer(d, f, j) == d.rem[f][j].bits = {} /\ d.rem[f][j].retry = {}

SamePeers(c, d) == \A f \in Family, j \in Slot : d.rem[f][j] # None => SamePeer(c, d, f, j)
MorePeers(c, d) ==
    \A f \in Family, j \in Slot : d.rem[f][j] # None => SamePeer(c, d, f, j) \/ NewPeer(d, f, j)

LEMMA PeerChanged ==
  ASSUME NEW c, IsConn(c), IsRem(c.rem), NEW f \in Family, NEW j \in Slot, NEW r,
         r = None \/ IsRemote(r)
  PROVE  LET d == [c EXCEPT !.rem[f][j] = r]
         IN  /\ PeersOf(c, d)
             /\ \A g \in Family, k \in Slot : d.rem[g][k] = IF g = f /\ k = j THEN r ELSE c.rem[g][k]
<1> DEFINE m == [c.rem EXCEPT ![f] = [c.rem[f] EXCEPT ![j] = r]]
           d == [c EXCEPT !.rem = m]
<1>1. /\ IsRem(m)
      /\ \A g \in Family, k \in Slot : m[g][k] = IF g = f /\ k = j THEN r ELSE c.rem[g][k]
  BY RemoteChanged
<1>2. [c EXCEPT !.rem[f][j] = r] = d
  BY DEF IsConn, ConnFields, IsRem
<1> HIDE DEF m
<1>3. Keeps(c, d, {"rem"}) /\ d.rem = m
  BY DEF IsConn, Keeps, ConnFields
<1> HIDE DEF d
<1>4. /\ PeersOf(c, d)
      /\ \A g \in Family, k \in Slot : d.rem[g][k] = IF g = f /\ k = j THEN r ELSE c.rem[g][k]
  BY <1>1, <1>3 DEF PeersOf
<1> QED
  BY <1>2, <1>4

LEMMA FirstSlot ==
  ASSUME NEW S \in SUBSET Slot, S # {}
  PROVE  First(S) \in S
<1>1. S \in SUBSET Nat
  BY DEF Slot
<1> QED
  BY <1>1, LeastNumber DEF First

LEMMA PeersStay ==
  ASSUME NEW c, IsConn(c), IsRem(c.rem)
  PROVE  PeersOf(c, c) /\ SamePeers(c, c)
BY DEF PeersOf, Keeps, SamePeers, SamePeer

LEMMA AddRaddrPeers ==
  ASSUME NEW c, IsConn(c), IsRem(c.rem), NEW r, r.fam \in Family
  PROVE  PeersOf(c, AddRaddr(c, r)) /\ MorePeers(c, AddRaddr(c, r))
<1> DEFINE f == r.fam
           table == c.rem[f]
           same == SameId(table, r)
           used == {k \in Slot : table[k] # None}
           free == FreeIndex(used, 0)
           j == First(same)
           moved == [c EXCEPT !.rem[f][j] = [@ EXCEPT !.addr = r.addr, !.port = r.port]]
           more == [c EXCEPT !.rem[f][free] = Remote(r)]
<1>1. used \in SUBSET Slot
  OBVIOUS
<1>2. PeersOf(c, c) /\ MorePeers(c, c)
  BY PeersStay DEF SamePeers, MorePeers
<1>3. CASE same # {}
  <2>1. j \in Slot /\ c.rem[f][j] # None
    <3>1. same \in SUBSET Slot
      BY DEF SameId
    <3>2. j \in same
      <4> HIDE DEF same
      <4> QED
        BY <1>3, <3>1, FirstSlot
    <3> QED
      BY <3>2 DEF SameId
  <2> DEFINE s == [c.rem[f][j] EXCEPT !.addr = r.addr, !.port = r.port]
  <2>2. IsRemote(s) /\ s.bits = c.rem[f][j].bits /\ s.retry = c.rem[f][j].retry
    <3>1. IsRemote(c.rem[f][j])
      BY <2>1 DEF IsRem
    <3> QED
      BY <3>1, BitsChanged DEF IsRemote
  <2>3. moved = [c EXCEPT !.rem[f][j] = s]
    BY <2>1 DEF IsConn, ConnFields, IsRem
  <2>4. AddRaddr(c, r) = moved
    BY <1>3 DEF AddRaddr
  <2> HIDE DEF table, j, s, moved
  <2>5. PeersOf(c, moved)
        /\ \A g \in Family, k \in Slot : moved.rem[g][k] = IF g = f /\ k = j THEN s ELSE c.rem[g][k]
    <3>1. f \in Family
      OBVIOUS
    <3> HIDE DEF f
    <3> QED
      BY <2>1, <2>2, <2>3, <3>1, PeerChanged
  <2>6. MorePeers(c, moved)
    BY <2>1, <2>2, <2>5 DEF MorePeers, SamePeer
  <2> QED
    BY <1>2, <2>4, <2>5, <2>6
<1>4. CASE same = {} /\ free = None
  <2>1. AddRaddr(c, r) = c
    BY <1>4 DEF AddRaddr
  <2> QED
    BY <1>2, <2>1
<1>5. CASE same = {} /\ free # None
  <2>1. AddRaddr(c, r) = more
    BY <1>5 DEF AddRaddr
  <2>2. free \in Slot
    <3> HIDE DEF used
    <3> QED
      BY <1>1, <1>5, FreeIndexFree
  <2> HIDE DEF free
  <2>3. IsRemote(Remote(r)) /\ Remote(r).bits = {} /\ Remote(r).retry = {}
    BY DEF IsRemote, Remote
  <2>4. PeersOf(c, more)
        /\ \A g \in Family, k \in Slot :
             more.rem[g][k] = IF g = f /\ k = free THEN Remote(r) ELSE c.rem[g][k]
    <3>1. f \in Family
      OBVIOUS
    <3> HIDE DEF f
    <3> QED
      BY <2>2, <2>3, <3>1, PeerChanged
  <2>5. MorePeers(c, more)
    BY <2>2, <2>3, <2>4 DEF MorePeers, SamePeer, NewPeer
  <2> QED
    BY <2>1, <2>4, <2>5
<1> QED
  BY <1>3, <1>4, <1>5

\* An option is known, or notes an address and asks for the worker.
LEMMA AddAddrIs ==
  ASSUME MeshInv, RecvAddAddr
  PROVE  \/ conn' = conn
         \/ \E c, d : /\ PeersOf(conn, c) /\ MorePeers(conn, c)
                       /\ Keeps(c, d, {"late"}) /\ c.late \subseteq d.late
                       /\ conn' = CreateSubflows(d)
<1>1. PICK r \in RemAddrs :
        LET c == AddRaddr(conn, r)
        IN  conn' = IF c = conn THEN c ELSE CreateSubflows([c EXCEPT !.late = @ \cup Ports(c, r)])
  BY DEF RecvAddAddr
<1> DEFINE c == AddRaddr(conn, r)
           S == Ports(c, r)
           d == [c EXCEPT !.late = @ \cup S]
<1>2. IsConn(conn) /\ IsRem(conn.rem) /\ r.fam \in Family
  BY FullMeshAssumption DEF MeshInv, ConnInv, Typed, Family
<1>3. PeersOf(conn, c) /\ MorePeers(conn, c)
  BY <1>2, AddRaddrPeers
<1>4. conn' = conn \/ conn' = CreateSubflows(d)
  BY <1>1
<1> HIDE DEF c, S
<1>5. Keeps(c, d, {"late"}) /\ d.late = c.late \cup S
  BY <1>3 DEF PeersOf, IsConn, Keeps, ConnFields
<1> QED
  BY <1>3, <1>4, <1>5

LEMMA SetInitAddrBitPeers ==
  ASSUME NEW c, IsConn(c), IsRem(c.rem), NEW f \in Family, NEW a, NEW i \in Slot
  PROVE  LET d == SetInitAddrBit(c, f, a, i)
         IN  /\ PeersOf(c, d)
             /\ \A g \in Family, j \in Slot :
                  d.rem[g][j] # None =>
                    /\ c.rem[g][j] # None /\ d.rem[g][j].retry = c.rem[g][j].retry
                    /\ d.rem[g][j].bits \subseteq
                         IF g = f THEN c.rem[g][j].bits \cup {i} ELSE c.rem[g][j].bits
<1> DEFINE hits == {j \in Slot : c.rem[f][j] # None /\ c.rem[f][j].addr = a}
           k == First(hits)
           noted == [c EXCEPT !.rem[f][k].bits = @ \cup {i}]
<1>1. SetInitAddrBit(c, f, a, i) = IF hits = {} THEN c ELSE noted
  BY DEF SetInitAddrBit
<1>2. CASE hits = {}
  BY <1>1, <1>2, PeersStay
<1>3. CASE hits # {}
  <2>1. k \in Slot /\ c.rem[f][k] # None
    <3>1. hits \in SUBSET Slot
      OBVIOUS
    <3>2. k \in hits
      <4> HIDE DEF hits
      <4> QED
        BY <1>3, <3>1, FirstSlot
    <3> QED
      BY <3>2
  <2> HIDE DEF k
  <2> DEFINE B == c.rem[f][k].bits \cup {i}
             s == [c.rem[f][k] EXCEPT !.bits = B]
  <2>2. IsRemote(s) /\ s.bits = c.rem[f][k].bits \cup {i} /\ s.retry = c.rem[f][k].retry
    <3>1. IsRemote(c.rem[f][k])
      BY <2>1 DEF IsRem
    <3>2. B \in SUBSET Slot
      BY <3>1 DEF IsRemote
    <3>3. s.bits = B /\ s.retry = c.rem[f][k].retry
      BY <3>1 DEF IsRemote
    <3> HIDE DEF B
    <3>4. IsRemote(s)
      BY <3>1, <3>2, BitsChanged
    <3> QED
      BY <3>3, <3>4 DEF B
  <2>3. noted = [c EXCEPT !.rem[f][k] = s]
    BY <2>1 DEF IsConn, ConnFields, IsRem
  <2> HIDE DEF s, noted, hits
  <2>4. PeersOf(c, noted)
        /\ \A g \in Family, j \in Slot : noted.rem[g][j] = IF g = f /\ j = k THEN s ELSE c.rem[g][j]
    BY <2>1, <2>2, <2>3, PeerChanged
  <2>5. ASSUME NEW g \in Family, NEW j \in Slot, noted.rem[g][j] # None
        PROVE  /\ c.rem[g][j] # None /\ noted.rem[g][j].retry = c.rem[g][j].retry
               /\ noted.rem[g][j].bits \subseteq
                    IF g = f THEN c.rem[g][j].bits \cup {i} ELSE c.rem[g][j].bits
    BY <2>1, <2>2, <2>4, <2>5
  <2> QED
    BY <1>1, <1>3, <2>4, <2>5
<1> QED
  BY <1>2, <1>3

LEMMA RemRaddrPeers ==
  ASSUME NEW c, IsConn(c), IsRem(c.rem), NEW id
  PROVE  PeersOf(c, RemRaddr(c, id)) /\ SamePeers(c, RemRaddr(c, id))
<1> DEFINE hits(f) == {j \in Slot : c.rem[f][j] # None /\ c.rem[f][j].id = id}
           row(f) == IF hits(f) = {} THEN c.rem[f] ELSE [c.rem[f] EXCEPT ![First(hits(f))] = None]
           m == [f \in Family |-> row(f)]
           d == [c EXCEPT !.rem = m]
<1>1. RemRaddr(c, id) = d
  BY DEF RemRaddr
<1>2. ASSUME NEW f \in Family
      PROVE  /\ row(f) = [j \in Slot |-> row(f)[j]]
             /\ \A j \in Slot : row(f)[j] = None \/ IsRemote(row(f)[j])
             /\ \A j \in Slot : row(f)[j] = None \/ row(f)[j] = c.rem[f][j]
  <2>1. c.rem[f] = [j \in Slot |-> c.rem[f][j]]
        /\ \A j \in Slot : c.rem[f][j] = None \/ IsRemote(c.rem[f][j])
    BY DEF IsRem
  <2> DEFINE k == First(hits(f))
             less == [c.rem[f] EXCEPT ![k] = None]
  <2>2. row(f) \in {c.rem[f], less}
    OBVIOUS
  <2> HIDE DEF k, row
  <2>3. /\ less = [j \in Slot |-> less[j]]
        /\ \A j \in Slot : less[j] = None \/ less[j] = c.rem[f][j]
    BY <2>1
  <2> HIDE DEF less
  <2> QED
    BY <2>1, <2>2, <2>3
<1> HIDE DEF row
<1>3. /\ m = [f \in Family |-> [j \in Slot |-> m[f][j]]]
      /\ \A f \in Family : m[f] = row(f)
  BY <1>2
<1> HIDE DEF m
<1>4. IsRem(m)
  BY <1>2, <1>3 DEF IsRem
<1>5. Keeps(c, d, {"rem"}) /\ d.rem = m
  BY DEF IsConn, Keeps, ConnFields
<1>6. SamePeers(c, d)
  BY <1>2, <1>3, <1>5 DEF SamePeers, SamePeer
<1> QED
  BY <1>1, <1>4, <1>5, <1>6 DEF PeersOf

LEMMA WithSubflowsAdds ==
  ASSUME NEW c, IsConn(c), NEW src \in Addr, NEW dst, NEW lid \in Lid, NEW rid, NEW low, NEW k
  PROVE  LET d == WithSubflows(c, src, dst, lid, rid, low, k)
         IN  /\ Keeps(c, d, {"sub", "told"})
             /\ k = 0 => d.sub = c.sub
             /\ \A s \in DOMAIN d.sub : s \in DOMAIN c.sub \/ (IsSub(s) /\ s.src = src)
<1> DEFINE s == [src |-> src, dst |-> dst, lid |-> lid, rid |-> rid, low |-> low,
                 master |-> FALSE, open |-> TRUE]
           b == c.sub (+) [new \in {s} |-> k]
           told == c.told \cup {src}
           d == [c EXCEPT !.sub = b, !.told = told]
<1>1. WithSubflows(c, src, dst, lid, rid, low, k) = IF k = 0 THEN c ELSE d
  BY DEF WithSubflows
<1>2. IsSub(s) /\ s.src = src
  BY DEF IsSub, SubFields
<1>3. DOMAIN b = DOMAIN c.sub \cup {s}
  BY BagPlus
<1> HIDE DEF s, b, told
<1>4. Keeps(c, d, {"sub", "told"}) /\ d.sub = b
  BY DEF IsConn, Keeps, ConnFields
<1>5. Keeps(c, c, {"sub", "told"})
  BY DEF Keeps
<1> HIDE DEF d
<1> QED
  BY <1>1, <1>2, <1>3, <1>4, <1>5

LEMMA UpdatedInv ==
  ASSUME NEW c, Typed(c), c.phase # "none", NEW t, TableInv(t), Current(c, t)
  PROVE  LET d == UpdateBitfields(c, t)
         IN  /\ Keeps(c, d, {"told", "ann", "rem"}) /\ Typed(d) /\ Current(d, t)
             /\ \A e : SlotsKnown(d, t, e)
<1> DEFINE d == UpdateBitfields(c, t)
<1>1. /\ Keeps(c, d, {"told", "ann", "rem"})
      /\ d.ann \in [Family -> SUBSET Slot] /\ IsRem(d.rem)
      /\ \A f \in Family : d.ann[f] \subseteq t[f].bits
  BY UpdatedBitfields DEF Typed
<1> HIDE DEF d
<1>2. /\ IsConn(d) /\ d.kind = c.kind /\ d.phase = c.phase /\ d.source = c.source /\ d.sub = c.sub
      /\ d.req = c.req /\ d.add = c.add /\ d.remove = c.remove
      /\ d.work = c.work /\ d.retry = c.retry /\ d.late = c.late
  BY <1>1 DEF Keeps, ConnFields
<1>3. Typed(d)
  BY <1>1, <1>2 DEF Typed, Begun
<1>4. Current(d, t)
  BY <1>2 DEF Current
<1>5. \A e : SlotsKnown(d, t, e)
  BY <1>1 DEF SlotsKnown
<1> QED
  BY <1>1, <1>3, <1>4, <1>5 DEF d

LEMMA EntryInTable ==
  ASSUME NEW t, TableInv(t), NEW a \in Addr
  PROVE  InTable(t, a) <=> \E low \in BOOLEAN : HasEntry(t, a, low)
<1>1. t[Fam(a)].low \in [Slot -> BOOLEAN] /\ t[Fam(a)].bits \subseteq Slot
  BY FamilyOf DEF TableInv, Table
<1> QED
  BY <1>1 DEF InTable, HasEntry

\* The table grows but for what the event e takes away.
LEMMA TableGrows ==
  ASSUME NEW c, NEW t, NEW u, NEW e, NEW n, ConnInv(c, t, e),
         \A f : LeavesFam(e, f) => LeavesFam(n, f), \A a : Leaves(e, a) => Leaves(n, a),
         \A f \in Family : t[f].bits \subseteq u[f].bits \/ LeavesFam(n, f),
         \A a \in Addr : InTable(t, a) => InTable(u, a) \/ Leaves(n, a)
  PROVE  Typed(c) /\ SlotsKnown(c, u, n) /\ FromTable(c, u, n)
<1>1. Typed(c) /\ SlotsKnown(c, t, e) /\ FromTable(c, t, e)
  BY DEF ConnInv
<1>2. SlotsKnown(c, u, n)
  BY <1>1 DEF SlotsKnown
<1>3. \A s \in DOMAIN c.sub : s.src \in Addr
  BY <1>1 DEF Typed, IsSub
<1>4. FromTable(c, u, n)
  BY <1>1, <1>3 DEF FromTable
<1> QED
  BY <1>1, <1>2, <1>4

LEMMA LateGrows ==
  ASSUME NEW c, Typed(c), NEW S
  PROVE  LET d == [c EXCEPT !.late = @ \cup S]
         IN  Keeps(c, d, {"late"}) /\ d.late = c.late \cup S /\ Typed(d)
<1> DEFINE d == [c EXCEPT !.late = @ \cup S]
<1>1. Keeps(c, d, {"late"}) /\ d.late = c.late \cup S
  BY DEF Typed, IsConn, Keeps, ConnFields
<1> HIDE DEF d
<1>2. /\ IsConn(d) /\ d.kind = c.kind /\ d.phase = c.phase /\ d.source = c.source /\ d.sub = c.sub
      /\ d.req = c.req /\ d.add = c.add /\ d.ann = c.ann /\ d.remove = c.remove
      /\ d.rem = c.rem /\ d.work = c.work /\ d.retry = c.retry /\ d.owned = c.owned
  BY <1>1 DEF Keeps, ConnFields
<1>3. Typed(d)
  BY <1>2 DEF Typed, Begun, Idle
<1> QED
  BY <1>1, <1>3 DEF d

LEMMA SubsOfKept ==
  ASSUME NEW c, NEW d, NEW t, NEW e, ConnInv(c, t, e), c.phase # "none",
         Keeps(c, d, {"sub", "remove"}), SubsOf(c, d), d.remove \in SUBSET Lid
  PROVE  ConnInv(d, t, e)
<1>1. /\ Keeps(c, d, Loose) /\ d.infinite = c.infinite /\ d.late = c.late
      /\ d.add = c.add /\ d.rem = c.rem
  BY DEF Keeps, ConnFields, Loose
<1>2. c.add \in Nat /\ IsRem(c.rem)
  BY DEF ConnInv, Typed
<1> QED
  BY <1>1, <1>2, InvKept DEF SubsOf

LEMMA AddKeeps ==
  ASSUME NEW c, NEW t, NEW e, ConnInv(c, t, e), c.phase # "none", NEW n \in Nat
  PROVE  /\ ConnInv([c EXCEPT !.add = n], t, e)
         /\ ConnInv(CreateSubflows([c EXCEPT !.add = n]), t, e)
<1> DEFINE d == [c EXCEPT !.add = n]
<1>1. c.remove \in SUBSET Lid /\ IsRem(c.rem) /\ \A s \in DOMAIN c.sub : IsSub(s)
  BY DEF ConnInv, Typed
<1>2. Keeps(c, d, {"add"}) /\ d.add = n
  BY DEF ConnInv, Typed, IsConn, Keeps, ConnFields
<1> HIDE DEF d
<1>3. /\ Keeps(c, d, Loose) /\ d.infinite = c.infinite /\ d.late = c.late /\ d.phase = c.phase
      /\ d.remove = c.remove /\ d.rem = c.rem /\ d.sub = c.sub
  BY <1>2 DEF Keeps, ConnFields, Loose
<1>4. ConnInv(d, t, e)
  BY <1>1, <1>2, <1>3, InvKept
<1>5. ConnInv(CreateSubflows(d), t, e)
  BY <1>3, <1>4, CreateKept
<1> QED
  BY <1>4, <1>5 DEF d

LEMMA LidOfSlot ==
  /\ Slot \subseteq Lid
  /\ \A f \in Family, i \in Slot : LocId(f, i) \in Lid
BY FullMeshAssumption DEF Slot, Lid, Family, LocId

(***************************************************************************)
(* The events of the address worker                                        *)
(***************************************************************************)

LEMMA TakenIsNow ==
  ASSUME NEW t, TableInv(t), NEW e \in Event, e.code = "del" => FindAddress(t, e.addr) # None
  PROVE  LET n == Taken(t, e)
         IN  /\ n # None /\ IsNow(n) /\ n.addr = e.addr
             /\ n.code = "del" <=> e.code = "del"
<1> DEFINE i == FindAddress(t, e.addr)
           n == Taken(t, e)
           code == IF e.code # "del" /\ i = None THEN "add" ELSE e.code
           id == IF e.code = "del" THEN i ELSE None
<1>1. e.addr \in Addr /\ e.low \in BOOLEAN /\ e.code \in {"add", "del", "mod"}
  BY DEF Event
<1>2. e.code = "del" => i \in Slot
  <2>1. Fam(e.addr) \in Family
    BY <1>1, FamilyOf
  <2>2. e.code = "del" => i \in t[Fam(e.addr)].bits
    BY <1>1, FindAddressFinds
  <2> HIDE DEF i
  <2> QED
    BY <2>1, <2>2 DEF TableInv, Table
<1>3. n = [addr |-> e.addr, low |-> e.low, code |-> code, id |-> id]
  BY DEF Taken
<1> HIDE DEF n, i
<1>4. code \in {"add", "del", "mod"} /\ (code = "del" <=> e.code = "del")
      /\ id \in Slot \cup {None} /\ (code = "del" => id \in Slot)
  BY <1>1, <1>2
<1> HIDE DEF code, id
<1>5. n \in [addr : Addr4 \cup Addr6, low : BOOLEAN, code : {"add", "del", "mod"},
             id : (0..MaxAddr - 1) \cup {None}]
  BY <1>1, <1>3, <1>4 DEF Addr, Slot
<1>6. n # None
  BY <1>5, FullMeshAssumption
<1> QED
  BY <1>1, <1>3, <1>4, <1>6 DEF IsNow, n

\* An address that goes: the event tells of it, and "copy" of those who have seen it.
LEMMA LossKeeps ==
  ASSUME FMInv, MeshInv, ns.now = None, NEW e \in Event, e.code = "del",
         FindAddress(ns.loc, e.addr) # None
  PROVE  ConnInv([conn EXCEPT !.late = @ \cup Late(e)], Without(ns.loc, e), Taken(ns.loc, e))
<1> DEFINE t == ns.loc
           u == Without(t, e)
           n == Taken(t, e)
           S == Late(e)
           d == [conn EXCEPT !.late = @ \cup S]
           busy == conn.work.run # None \/ conn.retry.run # None \/ conn.req # None
<1>1. TableInv(t) /\ ConnInv(conn, t, None) /\ Typed(conn) /\ e.addr \in Addr
  BY DEF FMInv, MeshInv, ConnInv, Event
<1>2. n # None /\ n.addr = e.addr /\ n.code = "del"
  BY <1>1, TakenIsNow
<1>3. /\ TableInv(u)
      /\ \A a \in Addr, low \in BOOLEAN : HasEntry(u, a, low) <=> a # e.addr /\ HasEntry(t, a, low)
      /\ \A g \in Family : g # Fam(e.addr) => u[g] = t[g]
  BY <1>1, WithoutEntry
<1>4. busy => "copy" \in S
  BY DEF Late
<1> HIDE DEF n, u, t, S
<1>5. \A a \in Addr : InTable(t, a) => InTable(u, a) \/ Leaves(n, a)
  BY <1>1, <1>2, <1>3, EntryInTable DEF Leaves
<1>6. \A f \in Family : t[f].bits \subseteq u[f].bits \/ LeavesFam(n, f)
  BY <1>2, <1>3 DEF LeavesFam
<1>7. SlotsKnown(conn, u, n) /\ FromTable(conn, u, n)
  BY <1>1, <1>5, <1>6, TableGrows DEF Leaves, LeavesFam
<1>8. Keeps(conn, d, {"late"}) /\ d.late = conn.late \cup S /\ Typed(d)
  BY <1>1, LateGrows
<1> HIDE DEF d
<1>9. /\ Keeps(conn, d, Loose) /\ d.infinite = conn.infinite /\ d.sub = conn.sub
      /\ d.work = conn.work /\ d.retry = conn.retry /\ d.req = conn.req
  BY <1>8 DEF Keeps, ConnFields, Loose
<1>10. SlotsKnown(d, u, n)
  BY <1>7, <1>9, SlotsKept
<1>11. FromTable(d, u, n)
  BY <1>7, <1>8, <1>9, SourcesKept
<1>12. Current(d, u)
  BY <1>4, <1>8, <1>9 DEF Current, CopyCurrent
<1> QED
  BY <1>8, <1>10, <1>11, <1>12 DEF ConnInv, d, u, n, t, S

\* An address that comes, or changes its priority.
LEMMA GainKeeps ==
  ASSUME FMInv, MeshInv, ns.now = None, NEW e \in Event, e.code # "del",
         FindAddress(ns.loc, e.addr) = None => Slot \ ns.loc[Fam(e.addr)].bits # {}
  PROVE  ConnInv([conn EXCEPT !.late = @ \cup Late(e)], With(ns.loc, e), Taken(ns.loc, e))
<1> DEFINE t == ns.loc
           u == With(t, e)
           n == Taken(t, e)
           S == Late(e)
           d == [conn EXCEPT !.late = @ \cup S]
<1>1. TableInv(t) /\ ConnInv(conn, t, None) /\ Typed(conn) /\ Current(conn, t)
      /\ e.addr \in Addr /\ e.low \in BOOLEAN
  BY DEF FMInv, MeshInv, ConnInv, Event
<1>2. n # None /\ n.code # "del"
  BY <1>1, TakenIsNow
<1>3. /\ TableInv(u)
      /\ \A a \in Addr, low \in BOOLEAN :
           HasEntry(u, a, low) <=> IF a = e.addr THEN low = e.low ELSE HasEntry(t, a, low)
      /\ \A g \in Family : t[g].bits \subseteq u[g].bits
  BY <1>1, WithEntry
<1> HIDE DEF n, u, t, S
<1>4. \A a \in Addr : InTable(t, a) => InTable(u, a)
  BY <1>1, <1>3, EntryInTable
<1>5. SlotsKnown(conn, u, n) /\ FromTable(conn, u, n)
  BY <1>1, <1>3, <1>4, TableGrows DEF Leaves, LeavesFam
<1>6. Keeps(conn, d, {"late"}) /\ d.late = conn.late \cup S /\ Typed(d)
  BY <1>1, LateGrows
<1> HIDE DEF d
<1>7. /\ Keeps(conn, d, Loose) /\ d.infinite = conn.infinite /\ d.sub = conn.sub
      /\ d.work = conn.work /\ d.retry = conn.retry /\ d.req = conn.req
  BY <1>6 DEF Keeps, ConnFields, Loose
<1>8. SlotsKnown(d, u, n)
  BY <1>5, <1>7, SlotsKept
<1>9. FromTable(d, u, n)
  BY <1>5, <1>6, <1>7, SourcesKept
<1>10. Current(conn, u)
  <2>1. \A w : IsWork(w) /\ CopyCurrent(w, t) => CopyCurrent(w, u)
    <3> SUFFICES ASSUME NEW w, IsWork(w), CopyCurrent(w, t), w.run # None,
                        NEW f \in Family, NEW i \in w.run.loc[f].bits
                 PROVE  InTable(u, w.run.loc[f].addr[i])
      BY DEF CopyCurrent
    <3>1. InTable(t, w.run.loc[f].addr[i])
      BY DEF CopyCurrent
    <3>2. w.run.loc[f].addr[i] \in Addr
      BY SlotAddresses DEF IsWork
    <3> QED
      BY <1>4, <3>1, <3>2
  <2>2. IsWork(conn.work) /\ IsWork(conn.retry) /\ IsReq(conn.req)
    BY <1>1 DEF Typed
  <2> QED
    BY <1>1, <1>4, <2>1, <2>2 DEF Current, IsReq
<1>11. Current(d, u)
  BY <1>6, <1>7, <1>10, CurrentKept
<1> QED
  BY <1>6, <1>8, <1>9, <1>11 DEF ConnInv, d, u, n, t, S

\* A new address that is not dropped finds a slot.
LEMMA NotDroppedRoom ==
  ASSUME NEW t, TableInv(t), NEW e, e.addr \in Addr, e.code # "del", ~Dropped(t, e),
         FindAddress(t, e.addr) = None
  PROVE  Slot \ t[Fam(e.addr)].bits # {}
<1> DEFINE f == Fam(e.addr)
<1>1. FreeIndex(t[f].bits, t[f].next) # None
  BY DEF Dropped
<1>2. t[f].bits \in SUBSET Slot
  BY FamilyOf DEF TableInv, Table
<1> QED
  BY <1>1, <1>2, FreeIndexFree

LEMMA TakeKeeps ==
  ASSUME FMInv, MeshInv, TakeEvent
  PROVE  MeshInv'
<1> DEFINE q == ns.events
           e == Head(q)
           t == ns.loc
           f == Fam(e.addr)
           i == FindAddress(t, e.addr)
<1>1. /\ q # <<>> /\ ns.now = None
      /\ ns'.loc = IF Dropped(t, e) THEN t ELSE IF e.code = "del" THEN Without(t, e) ELSE With(t, e)
      /\ ns'.now = IF Dropped(t, e) THEN None ELSE Taken(t, e)
      /\ conn' = IF Dropped(t, e) THEN conn ELSE [conn EXCEPT !.late = @ \cup Late(e)]
  BY DEF TakeEvent
<1>2. e \in Event /\ TableInv(t) /\ e.addr \in Addr
  BY <1>1, TailEvents DEF FMInv, Event
<1>3. CASE Dropped(t, e)
  <2>1. ns'.loc = ns.loc /\ ns'.now = ns.now /\ conn' = conn
    BY <1>1, <1>3
  <2> QED
    BY <2>1 DEF MeshInv
<1> HIDE DEF q, e
<1>4. CASE ~ Dropped(t, e) /\ e.code = "del"
  <2>1. i # None
    BY <1>4 DEF Dropped
  <2>2. ConnInv([conn EXCEPT !.late = @ \cup Late(e)], Without(t, e), Taken(t, e))
    BY <1>1, <1>2, <1>4, <2>1, LossKeeps
  <2>3. IsNow(Taken(t, e))
    BY <1>2, <2>1, TakenIsNow
  <2> QED
    BY <1>1, <1>4, <2>2, <2>3 DEF MeshInv
<1>5. CASE ~ Dropped(t, e) /\ e.code # "del"
  <2>1. i = None => Slot \ t[f].bits # {}
    BY <1>2, <1>5, NotDroppedRoom
  <2>2. ConnInv([conn EXCEPT !.late = @ \cup Late(e)], With(t, e), Taken(t, e))
    BY <1>1, <1>2, <1>5, <2>1, GainKeeps
  <2>3. IsNow(Taken(t, e))
    BY <1>2, <1>5, TakenIsNow
  <2> QED
    BY <1>1, <1>5, <2>2, <2>3 DEF MeshInv
<1> QED
  BY <1>3, <1>4, <1>5

\* What is applied of an address that went.
LEMMA AppliedDelKeeps ==
  ASSUME NEW c, NEW t, NEW e, ConnInv(c, t, e), c.phase # "none", TableInv(t),
         IsNow(e), e # None, e.code = "del"
  PROVE  LET d == AppliedDel(c, e, t)
         IN  /\ ConnInv(d, t, None) /\ Keeps(c, d, {"told", "ann", "rem", "sub", "remove"})
             /\ \A s \in DOMAIN d.sub : s.open => s \in DOMAIN c.sub /\ s.src # e.addr
<1> DEFINE d == UpdateBitfields(c, t)
           from == {s \in DOMAIN c.sub : s.src = e.addr}
           r == Removed(d, from)
           m == [d EXCEPT !.remove = @ \cup {e.id}]
<1>1. /\ Typed(c) /\ Current(c, t) /\ FromTable(c, t, e)
      /\ e.addr \in Addr /\ e.id \in Slot
  BY DEF ConnInv, IsNow
<1>2. /\ Keeps(c, d, {"told", "ann", "rem"}) /\ Typed(d) /\ Current(d, t)
      /\ SlotsKnown(d, t, None)
  BY <1>1, UpdatedInv
<1>3. AppliedDel(c, e, t) = IF from # {} THEN r ELSE IF e.id > 0 THEN m ELSE d
  BY DEF AppliedDel
<1> HIDE DEF d
<1>4. /\ d.phase = c.phase /\ d.kind = c.kind /\ d.pm = c.pm /\ d.infinite = c.infinite
      /\ d.owned = c.owned /\ d.sub = c.sub /\ d.late = c.late
  BY <1>2 DEF Keeps, ConnFields
<1>5. FromTable(d, t, e)
  BY <1>1, <1>4 DEF FromTable, Serving, Concerns
<1>6. CASE from # {}
  <2>1. /\ Keeps(d, r, {"sub", "remove"}) /\ SubsOf(d, r) /\ r.remove \in SUBSET Lid
        /\ \A s \in DOMAIN r.sub : s.open => s \in DOMAIN d.sub /\ s \notin from
    <3>1. from \in SUBSET DOMAIN d.sub
      BY <1>4
    <3>2. IsConn(d) /\ d.remove \in SUBSET Lid /\ \A s \in DOMAIN d.sub : IsSub(s)
      BY <1>2 DEF Typed
    <3> HIDE DEF from
    <3> QED
      BY <3>1, <3>2, RemovedSubs
  <2>2. AppliedDel(c, e, t) = r
    BY <1>3, <1>6
  <2> HIDE DEF r
  <2>3. /\ Keeps(d, r, Loose) /\ r.add = d.add /\ r.rem = d.rem /\ r.late = d.late
        /\ r.infinite = d.infinite /\ r.phase = d.phase /\ r.pm = d.pm /\ r.kind = d.kind
        /\ r.owned = d.owned
    BY <2>1 DEF Keeps, ConnFields, Loose
  <2>4. Typed(r)
    BY <1>2, <1>4, <2>1, <2>3, TypedKept DEF Typed, SubsOf
  <2>5. Current(r, t) /\ SlotsKnown(r, t, None)
    BY <1>2, <2>3, CurrentKept, SlotsKept
  <2>6. FromTable(r, t, None)
    <3>1. \A s \in DOMAIN r.sub : s.open => s \in DOMAIN d.sub /\ ~ Leaves(e, s.src)
      BY <1>4, <2>1 DEF Leaves
    <3> QED
      BY <1>5, <2>3, <3>1 DEF FromTable, Serving, Concerns
  <2>7. /\ Keeps(c, r, {"told", "ann", "rem", "sub", "remove"})
        /\ \A s \in DOMAIN r.sub : s.open => s \in DOMAIN c.sub /\ s.src # e.addr
    BY <1>2, <1>4, <2>1 DEF Keeps
  <2> QED
    BY <2>2, <2>4, <2>5, <2>6, <2>7 DEF ConnInv
<1>7. CASE from = {}
  <2>1. FromTable(d, t, None)
    <3>1. \A s \in DOMAIN d.sub : ~ Leaves(e, s.src)
      BY <1>4, <1>7 DEF Leaves
    <3> QED
      BY <1>5, <3>1 DEF FromTable
  <2>2. ConnInv(d, t, None)
    BY <1>2, <2>1 DEF ConnInv
  <2>3. ConnInv(m, t, None)
    <3> DEFINE R == d.remove \cup {e.id}
    <3>1. R \in SUBSET Lid
      BY <1>1, <1>2, LidOfSlot DEF Typed
    <3> HIDE DEF R
    <3>2. Keeps(d, [d EXCEPT !.remove = R], {"remove"}) /\ [d EXCEPT !.remove = R].remove = R
      BY <1>2 DEF Typed, IsConn, Keeps, ConnFields
    <3>3. m = [d EXCEPT !.remove = R]
      BY DEF R
    <3> HIDE DEF m
    <3>4. Keeps(d, m, {"sub", "remove"}) /\ m.sub = d.sub
      BY <3>2, <3>3 DEF Keeps, ConnFields
    <3>5. SubsOf(d, m)
      BY <1>2, <3>4 DEF SubsOf, Typed
    <3> QED
      BY <1>4, <2>2, <3>1, <3>2, <3>3, <3>4, <3>5, SubsOfKept
  <2>4. Keeps(d, m, {"remove"})
    BY <1>2 DEF Typed, IsConn, Keeps, ConnFields
  <2> HIDE DEF m
  <2>5. /\ Keeps(c, m, {"told", "ann", "rem", "sub", "remove"}) /\ m.sub = c.sub
        /\ Keeps(c, d, {"told", "ann", "rem", "sub", "remove"})
    BY <1>2, <1>4, <2>4 DEF Keeps, ConnFields
  <2> QED
    BY <1>3, <1>4, <1>7, <2>2, <2>3, <2>5
<1> QED
  BY <1>6, <1>7

LEMMA ApplyKeeps ==
  ASSUME FMInv, MeshInv, ApplyEvent
  PROVE  MeshInv'
<1> DEFINE e == ns.now
           t == ns.loc
           applies == /\ conn.phase = "open" /\ Concerns(conn, Fam(e.addr))
                      /\ ~conn.infinite /\ conn.pm = "fullmesh"
<1>1. /\ e # None /\ ns' = [ns EXCEPT !.now = None]
      /\ \/ ~applies /\ conn' = conn
         \/ applies /\ conn' = [conn EXCEPT !.owned = TRUE]
         \/ applies /\ conn' = Applied(conn, e, t)
  BY DEF ApplyEvent
<1>2. ns'.loc = t /\ ns'.now = None /\ TableInv(t)
  <2>1. ns = [loc |-> ns.loc, events |-> ns.events, now |-> ns.now] /\ TableInv(t)
    BY DEF FMInv
  <2> QED
    BY <1>1, <2>1
<1>3. /\ ConnInv(conn, t, e) /\ IsNow(e)
      /\ Typed(conn) /\ SlotsKnown(conn, t, e) /\ FromTable(conn, t, e) /\ Current(conn, t)
  BY DEF MeshInv, ConnInv
<1> SUFFICES ConnInv(conn', t, None)
  BY <1>2 DEF MeshInv, IsNow
<1>4. CASE ~applies /\ conn' = conn
  <2>1. Serving(conn) => ~ Concerns(conn, Fam(e.addr))
    BY <1>4 DEF Serving
  <2>2. SlotsKnown(conn, t, None)
    BY <1>3, <2>1 DEF SlotsKnown, LeavesFam
  <2>3. FromTable(conn, t, None)
    BY <1>3, <2>1 DEF FromTable, Leaves
  <2> QED
    BY <1>3, <1>4, <2>2, <2>3 DEF ConnInv
<1>5. CASE applies /\ conn' = [conn EXCEPT !.owned = TRUE]
  <2> DEFINE d == [conn EXCEPT !.owned = TRUE]
  <2>1. Keeps(conn, d, {"owned"}) /\ d.owned = TRUE
    BY <1>3 DEF Typed, IsConn, Keeps, ConnFields
  <2> HIDE DEF d
  <2>2. /\ IsConn(d) /\ d.kind = conn.kind /\ d.phase = conn.phase /\ d.source = conn.source /\ d.sub = conn.sub
        /\ d.req = conn.req /\ d.add = conn.add /\ d.ann = conn.ann /\ d.remove = conn.remove
        /\ d.rem = conn.rem /\ d.work = conn.work /\ d.retry = conn.retry /\ d.late = conn.late
    BY <2>1 DEF Keeps, ConnFields
  <2>3. Typed(d)
    BY <1>3, <1>5, <2>2 DEF Typed, Begun
  <2>4. SlotsKnown(d, t, None) /\ FromTable(d, t, None)
    BY <2>1 DEF SlotsKnown, FromTable
  <2>5. Current(d, t)
    BY <1>3, <2>2 DEF Current
  <2> QED
    BY <1>5, <2>3, <2>4, <2>5 DEF ConnInv, d
<1>6. CASE applies /\ conn' = Applied(conn, e, t)
  <2> HIDE DEF e, t
  <2>1. conn.phase # "none" /\ e.code \in {"add", "del", "mod"}
    BY <1>1, <1>3, <1>6 DEF IsNow
  <2>2. CASE e.code = "del"
    <3>1. conn' = AppliedDel(conn, e, t)
      BY <1>6, <2>2 DEF Applied
    <3> QED
      BY <1>1, <1>2, <1>3, <2>1, <2>2, <3>1, AppliedDelKeeps
  <2>3. e.code # "del" => ConnInv(conn, t, None)
    BY <1>3 DEF ConnInv, SlotsKnown, FromTable, Leaves, LeavesFam
  <2>4. CASE e.code = "add"
    <3>1. conn' = CreateSubflows([conn EXCEPT !.add = conn.add + 1])
      BY <1>6, <2>4 DEF Applied, AppliedAdd
    <3>2. conn.add + 1 \in Nat
      BY <1>3 DEF Typed
    <3> QED
      BY <2>1, <2>3, <2>4, <3>1, <3>2, AddKeeps
  <2>5. CASE e.code = "mod"
    <3>1. PICK low : conn' = Prioritised(conn, low)
      BY <1>6, <2>5 DEF Applied, AppliedMod
    <3>2. Keeps(conn, conn', {"sub"}) /\ SubsOf(conn, conn')
      BY <1>3, <3>1, PrioritisedSubs DEF Typed
    <3>3. Keeps(conn, conn', {"sub", "remove"}) /\ conn'.remove \in SUBSET Lid
      BY <1>3, <3>2 DEF Keeps, ConnFields, Typed
    <3> QED
      BY <2>1, <2>3, <2>5, <3>2, <3>3, SubsOfKept
  <2> QED
    BY <2>1, <2>2, <2>4, <2>5
<1> QED
  BY <1>1, <1>4, <1>5, <1>6

(***************************************************************************)
(* The release of the socket and the new session                           *)
(***************************************************************************)

LEMMA PairsFinite ==
  IsFiniteSet(Family \X Slot)
<1>1. IsFiniteSet(Slot)
  <2>1. 0 \in Int /\ MaxAddr - 1 \in Int
    BY FullMeshAssumption
  <2> QED
    BY <2>1, FS_Interval DEF Slot
<1>2. IsFiniteSet(Family)
  <2>1. IsFiniteSet({4})
    BY FS_Singleton
  <2>2. IsFiniteSet({4} \cup {6})
    BY <2>1, FS_Singleton, FS_Union
  <2>3. Family = {4} \cup {6}
    BY DEF Family
  <2> QED
    BY <2>2, <2>3
<1> QED
  BY <1>1, <1>2, FS_Product

LEMMA SlotPairsFinite ==
  ASSUME NEW S \in SUBSET (Family \X Slot)
  PROVE  Cardinality(S) \in Nat
BY PairsFinite, FS_Subset, FS_CardinalityType

LEMMA UnusedFinite ==
  ASSUME NEW c, NEW t, TableInv(t)
  PROVE  Cardinality(Unused(c, t)) \in Nat
<1>1. \A f \in Family : t[f].bits \subseteq Slot
  BY DEF TableInv, Table
<1>2. Unused(c, t) \in SUBSET (Family \X Slot)
  BY <1>1 DEF Unused
<1> QED
  BY <1>2, SlotPairsFinite

\* The release compares the connection with the table.
LEMMA Released ==
  ASSUME NEW c, NEW t, TableInv(t), Typed(c), Current(c, t), c.phase # "none"
  PROVE  LET d == ReleaseSock(c, t)
         IN  /\ Keeps(c, d, {"sub", "add", "work", "remove", "told", "ann", "rem"})
             /\ d.work.run = c.work.run
             /\ Typed(d) /\ Current(d, t) /\ \A e : SlotsKnown(d, t, e)
             /\ \A s \in DOMAIN d.sub : s.open =>
                  /\ InTable(t, s.src)
                  /\ Concerns(c, Fam(s.src)) => HasEntry(t, s.src, s.low)
<1> DEFINE known == {s \in DOMAIN c.sub : FindAddress(t, s.src) # None}
           new == Cardinality(Unused(c, t))
           low == [s \in {x \in known : Concerns(c, Fam(x.src))} |->
                     t[Fam(s.src)].low[FindAddress(t, s.src)]]
           p == Prioritised(c, low)
           b == [p EXCEPT !.add = @ + new]
           a == IF new = 0 THEN p ELSE CreateSubflows(b)
           gone == {s \in DOMAIN a.sub : FindAddress(t, s.src) = None}
           r == Removed(a, gone)
           d == UpdateBitfields(r, t)
<1>1. ReleaseSock(c, t) = d
  BY DEF ReleaseSock
<1>2. \A s \in known : Concerns(c, Fam(s.src)) => s \in DOMAIN low /\ HasEntry(t, s.src, low[s])
  BY FoundEntry DEF Typed, IsSub
<1>3. \A s \in DOMAIN c.sub : s \in known <=> InTable(t, s.src)
  BY FoundInTable DEF Typed, IsSub
<1> HIDE DEF low, new, known
<1>4. new \in Nat
  BY UnusedFinite DEF new
<1>5. /\ Typed(p) /\ Current(p, t) /\ p.phase # "none" /\ Keeps(c, p, {"sub"})
      /\ \A s \in DOMAIN p.sub :
           InTable(t, s.src) /\ Concerns(c, Fam(s.src)) => HasEntry(t, s.src, s.low)
  <2>1. /\ Keeps(c, p, {"sub"}) /\ SubsOf(c, p)
        /\ \A s \in DOMAIN p.sub : \E u \in DOMAIN c.sub :
             /\ s.src = u.src
             /\ s.low = IF u \in DOMAIN low THEN low[u] ELSE u.low
    BY PrioritisedSubs DEF Typed
  <2> HIDE DEF p
  <2>2. /\ Keeps(c, p, Loose) /\ p.add = c.add /\ p.remove = c.remove /\ p.rem = c.rem
        /\ p.late = c.late /\ p.phase = c.phase
    BY <2>1 DEF Keeps, ConnFields, Loose
  <2>3. c.add \in Nat /\ c.remove \in SUBSET Lid /\ IsRem(c.rem)
    BY DEF Typed
  <2>4. Typed(p)
    BY <2>1, <2>2, <2>3, TypedKept DEF SubsOf
  <2>5. \A s \in DOMAIN p.sub :
          InTable(t, s.src) /\ Concerns(c, Fam(s.src)) => HasEntry(t, s.src, s.low)
    BY <1>2, <1>3, <2>1
  <2> QED
    BY <2>1, <2>2, <2>4, <2>5, CurrentKept
<1> HIDE DEF p
<1>6. /\ Typed(b) /\ Current(b, t) /\ b.phase # "none"
      /\ Keeps(c, b, {"sub", "add"}) /\ b.sub = p.sub
  <2> DEFINE n == p.add + new
  <2>1. n \in Nat /\ p.remove \in SUBSET Lid /\ IsRem(p.rem) /\ \A s \in DOMAIN p.sub : IsSub(s)
    BY <1>4, <1>5 DEF Typed
  <2>2. b = [p EXCEPT !.add = n]
    OBVIOUS
  <2> HIDE DEF n, b
  <2>3. Keeps(p, b, {"add"}) /\ b.add = n
    BY <1>5, <2>2 DEF Typed, IsConn, Keeps, ConnFields
  <2>4. /\ Keeps(p, b, Loose) /\ b.remove = p.remove /\ b.rem = p.rem /\ b.sub = p.sub
        /\ b.late = p.late /\ b.phase = p.phase
    BY <2>3 DEF Keeps, ConnFields, Loose
  <2>5. Typed(b)
    BY <1>5, <2>1, <2>3, <2>4, TypedKept
  <2>6. Keeps(c, b, {"sub", "add"})
    BY <1>5, <2>3 DEF Keeps
  <2> QED
    BY <1>5, <2>4, <2>5, <2>6, CurrentKept
<1> HIDE DEF b
<1>7. /\ Typed(a) /\ Current(a, t) /\ a.phase # "none"
      /\ Keeps(c, a, {"sub", "add", "work"}) /\ a.sub = p.sub /\ a.work.run = c.work.run
  <2> DEFINE m == CreateSubflows(b)
  <2>1. /\ Keeps(b, m, {"work"}) /\ Typed(m) /\ Current(m, t)
    BY <1>6, CreatedTyped
  <2>2. m.work.run = b.work.run
    BY <1>6, CreateKeeps DEF Typed
  <2>3. a = p \/ a = m
    OBVIOUS
  <2> HIDE DEF m, a
  <2>4. /\ m.phase = b.phase /\ m.sub = p.sub /\ m.work.run = c.work.run
        /\ Keeps(c, m, {"sub", "add", "work"})
    BY <1>6, <2>1, <2>2 DEF Keeps, ConnFields
  <2>5. Keeps(c, p, {"sub", "add", "work"}) /\ p.work = c.work
    BY <1>5 DEF Keeps, ConnFields
  <2> QED
    BY <1>5, <1>6, <2>1, <2>3, <2>4, <2>5
<1> HIDE DEF a
<1>8. /\ Typed(r) /\ Current(r, t) /\ r.phase # "none" /\ Keeps(a, r, {"sub", "remove"})
      /\ \A s \in DOMAIN r.sub : s.open => InTable(t, s.src) /\ s \in DOMAIN a.sub
  <2>1. IsConn(a) /\ a.remove \in SUBSET Lid /\ \A s \in DOMAIN a.sub : IsSub(s)
    BY <1>7 DEF Typed
  <2>2. gone \in SUBSET DOMAIN a.sub
    OBVIOUS
  <2>3. \A s \in DOMAIN a.sub : s \notin gone => InTable(t, s.src)
    <3>1. \A s \in DOMAIN a.sub : s.src \in Addr
      BY <2>1 DEF IsSub
    <3> QED
      BY <3>1, FoundInTable
  <2> HIDE DEF gone
  <2>4. /\ Keeps(a, r, {"sub", "remove"}) /\ SubsOf(a, r) /\ r.remove \in SUBSET Lid
        /\ \A s \in DOMAIN r.sub : s.open => s \in DOMAIN a.sub /\ s \notin gone
    BY <2>1, <2>2, RemovedSubs
  <2> HIDE DEF r
  <2>5. /\ Keeps(a, r, Loose) /\ r.add = a.add /\ r.rem = a.rem /\ r.late = a.late
        /\ r.phase = a.phase
    BY <2>4 DEF Keeps, ConnFields, Loose
  <2>6. Typed(r)
    BY <1>7, <2>4, <2>5, TypedKept DEF Typed, SubsOf
  <2> QED
    BY <1>7, <2>3, <2>4, <2>5, <2>6, CurrentKept
<1> HIDE DEF r
<1>9. /\ Keeps(r, d, {"told", "ann", "rem"}) /\ Typed(d) /\ Current(d, t)
      /\ \A e : SlotsKnown(d, t, e)
  BY <1>8, UpdatedInv
<1> HIDE DEF d
<1>10. d.sub = r.sub /\ d.work.run = c.work.run
  BY <1>7, <1>8, <1>9 DEF Keeps, ConnFields
<1>11. Keeps(c, d, {"sub", "add", "work", "remove", "told", "ann", "rem"})
  BY <1>7, <1>8, <1>9 DEF Keeps
<1>12. \A s \in DOMAIN d.sub : s.open =>
         InTable(t, s.src) /\ (Concerns(c, Fam(s.src)) => HasEntry(t, s.src, s.low))
  BY <1>5, <1>7, <1>8, <1>10
<1> QED
  BY <1>1, <1>9, <1>10, <1>11, <1>12

LEMMA ReleaseKeeps ==
  ASSUME FMInv, MeshInv, Release
  PROVE  MeshInv'
<1> DEFINE t == ns.loc
           S == Unsaid(conn, t)
           c == [conn EXCEPT !.owned = FALSE, !.late = @ \cup S]
           d == ReleaseSock(c, t)
<1>1. conn.owned /\ ns' = ns /\ conn' = d
  BY DEF Release
<1>2. /\ TableInv(t) /\ IsNow(ns.now) /\ Typed(conn) /\ Current(conn, t)
      /\ conn.phase # "none"
  BY <1>1 DEF FMInv, MeshInv, ConnInv, Typed, Begun, Idle
<1> HIDE DEF t, S
<1>3. Typed(c) /\ Current(c, t) /\ c.phase # "none"
  <2>1. Keeps(conn, c, {"owned", "late"}) /\ c.late = conn.late \cup S
    BY <1>2 DEF Typed, IsConn, Keeps, ConnFields
  <2> HIDE DEF c
  <2>2. /\ IsConn(c) /\ c.kind = conn.kind /\ c.phase = conn.phase /\ c.source = conn.source /\ c.sub = conn.sub
        /\ c.req = conn.req /\ c.add = conn.add /\ c.ann = conn.ann /\ c.remove = conn.remove
        /\ c.rem = conn.rem /\ c.work = conn.work /\ c.retry = conn.retry
    BY <2>1 DEF Keeps, ConnFields
  <2> QED
    BY <1>2, <2>1, <2>2 DEF Typed, Begun, Current
<1> HIDE DEF c
<1>4. /\ Typed(d) /\ Current(d, t) /\ SlotsKnown(d, t, ns.now)
      /\ \A s \in DOMAIN d.sub : s.open => InTable(t, s.src)
  BY <1>2, <1>3, Released
<1> HIDE DEF d
<1>5. FromTable(d, t, ns.now)
  BY <1>4 DEF FromTable
<1> QED
  BY <1>1, <1>2, <1>4, <1>5 DEF MeshInv, ConnInv, t

\* The slots of the families of the connection, but for that of its first subflow.
OtherSlots(c, t, f, i) ==
    (UNION {{<<g, k>> : k \in t[g].bits} : g \in {h \in Family : Concerns(c, h)}}) \ {<<f, i>>}

\* The first subflow of a connection is there, its address is known to the peer.
Opens(c, d, t, src, low) ==
    /\ Keeps(c, d, {"phase", "source", "pm", "add", "ann", "sub", "told", "rem"})
    /\ d.phase = "open" /\ d.source = src /\ d.add \in Nat /\ IsRem(d.rem)
    /\ d.ann \in [Family -> SUBSET Slot] /\ \A f \in Family : d.ann[f] \subseteq t[f].bits
    /\ d.sub = SetToBag({Master(src, low)}) /\ (d.pm = "fullmesh" => HasEntry(t, src, low))
    /\ d.pm = "fullmesh" => \E i \in t[Fam(src)].bits :
         /\ t[Fam(src)].addr[i] = src /\ d.told = {src}
         /\ d.ann = [c.ann EXCEPT ![Fam(src)] = {i}]
         /\ d.add = Cardinality(OtherSlots(c, t, Fam(src), i))
    /\ (\A f \in Family, j \in Slot : c.rem[f][j] = None) =>
         \A f \in Family, j \in Slot : d.rem[f][j] # None =>
           d.rem[f][j].retry = {} /\ d.rem[f][j].bits \subseteq t[f].bits

LEMMA OpenedInv ==
  ASSUME NEW c, Typed(c), c.phase = "none", NEW t, NEW e, NEW d, NEW src \in Addr, NEW low,
         Opens(c, d, t, src, low)
  PROVE  ConnInv(d, t, e)
<1>1. /\ IsConn(d) /\ d.kind = c.kind /\ d.req = c.req /\ d.remove = c.remove
      /\ d.work = c.work /\ d.retry = c.retry
  BY DEF Opens, Keeps, ConnFields
<1>2. c.work.run = None /\ c.retry.run = None /\ c.req = None
  BY DEF Typed, Begun, Idle
<1>3. DOMAIN d.sub = {Master(src, low)} /\ IsSub(Master(src, low)) /\ Master(src, low).src = src
  <2>1. 0 \in Lid
    BY FullMeshAssumption DEF Lid
  <2> QED
    BY <2>1, BagOfSet DEF Opens, Master, IsSub, SubFields
<1>4. Typed(d)
  BY <1>1, <1>3 DEF Opens, Typed, Begun
<1>5. SlotsKnown(d, t, e)
  BY DEF Opens, SlotsKnown
<1>6. FromTable(d, t, e)
  BY <1>3 DEF Opens, HasEntry, InTable, FromTable, Serving
<1>7. Current(d, t)
  BY <1>1, <1>2 DEF Current, CopyCurrent
<1> QED
  BY <1>4, <1>5, <1>6, <1>7 DEF ConnInv

LEMMA SessionOpens ==
  ASSUME FMInv, MeshInv, NewSession
  PROVE  \E src \in Addr : \E low : Opens(conn, conn', ns.loc, src, low)
<1>1. PICK src \in Addr :
        /\ conn.phase = "none"
        /\ conn' = Session([conn EXCEPT !.phase = "open", !.source = src], ns.loc, src)
  BY DEF NewSession
<1> DEFINE t == ns.loc
           c == [conn EXCEPT !.phase = "open", !.source = src]
           f == Fam(src)
           i == FindAddress(t, src)
           others == OtherSlots(c, t, f, i)
           dst == MasterDst[f]
           known == AddRaddr(c, [id |-> 0, addr |-> dst, port |-> 0, fam |-> f])
           m == SetInitAddrBit(known, f, dst, i)
<1>2. /\ TableInv(t) /\ Typed(conn) /\ Idle(conn)
      /\ f \in Family
  BY <1>1, FamilyOf DEF FMInv, MeshInv, ConnInv, Typed, Begun
<1>3. Keeps(conn, c, {"phase", "source"}) /\ c.phase = "open" /\ c.source = src
  BY <1>2 DEF Typed, IsConn, Keeps, ConnFields
<1>4. conn' = Session(c, t, src)
  BY <1>1
<1> SUFFICES \E low : Opens(conn, conn', t, src, low)
  OBVIOUS
<1>5. CASE i = None
  <2> DEFINE b == SetToBag({Master(src, FALSE)})
  <2>1. conn' = [c EXCEPT !.pm = "default", !.sub = b]
    BY <1>4, <1>5 DEF Session
  <2> HIDE DEF c, b
  <2>2. Keeps(c, conn', {"pm", "sub"}) /\ conn'.sub = b /\ conn'.pm = "default"
    BY <1>3, <2>1 DEF IsConn, Keeps, ConnFields
  <2>3. /\ Keeps(conn, conn', {"phase", "source", "pm", "add", "ann", "sub", "told", "rem"})
        /\ conn'.phase = "open" /\ conn'.source = src /\ conn'.add = conn.add
        /\ conn'.rem = conn.rem /\ conn'.ann = conn.ann
    BY <1>3, <2>2 DEF Keeps, ConnFields
  <2>4. \A g \in Family : conn.ann[g] \subseteq t[g].bits
    BY <1>2 DEF Idle
  <2>5. conn.add \in Nat /\ IsRem(conn.rem) /\ conn.ann \in [Family -> SUBSET Slot]
    BY <1>2 DEF Typed
  <2> HIDE DEF t
  <2> QED
    BY <2>2, <2>3, <2>4, <2>5 DEF Opens, b
<1>6. CASE i # None
  <2>1. i \in t[f].bits /\ i \in Slot /\ t[f].addr[i] = src /\ HasEntry(t, src, t[f].low[i])
    <3>1. i \in t[f].bits /\ t[f].addr[i] = src /\ HasEntry(t, src, t[f].low[i])
      BY <1>2, <1>6, FindAddressFinds, FoundEntry
    <3> HIDE DEF i
    <3> QED
      BY <1>2, <3>1 DEF TableInv, Table
  <2>2. Cardinality(others) \in Nat
    <3>1. \A g \in Family : t[g].bits \subseteq Slot
      BY <1>2 DEF TableInv, Table
    <3>2. others \in SUBSET (Family \X Slot)
      BY <3>1 DEF OtherSlots
    <3> HIDE DEF others
    <3> QED
      BY <3>2, SlotPairsFinite
  <2> DEFINE add == Cardinality(others)
             low == t[f].low[i]
             b == SetToBag({Master(src, low)})
             ann == [conn.ann EXCEPT ![f] = {i}]
             told == {src}
             d == [m EXCEPT !.add = add, !.ann[f] = {i}, !.sub = b, !.told = told]
  <2>3. conn' = d
    BY <1>4, <1>6 DEF Session, OtherSlots
  <2>4. IsConn(c) /\ IsRem(c.rem) /\ c.rem = conn.rem /\ c.ann = conn.ann
    BY <1>2, <1>3 DEF Keeps, ConnFields, Typed
  <2>5. PeersOf(c, known) /\ MorePeers(c, known)
    <3> DEFINE rec == [id |-> 0, addr |-> dst, port |-> 0, fam |-> f]
    <3>1. rec.fam \in Family
      BY <1>2
    <3> HIDE DEF rec, c
    <3> QED
      BY <2>4, <3>1, AddRaddrPeers DEF rec
  <2>6. /\ PeersOf(known, m)
        /\ \A g \in Family, j \in Slot :
             m.rem[g][j] # None =>
               /\ known.rem[g][j] # None /\ m.rem[g][j].retry = known.rem[g][j].retry
               /\ m.rem[g][j].bits \subseteq
                    IF g = f THEN known.rem[g][j].bits \cup {i} ELSE known.rem[g][j].bits
    <3>1. IsConn(known) /\ IsRem(known.rem)
      BY <2>5 DEF PeersOf, Keeps
    <3> HIDE DEF known, f, i, dst
    <3> QED
      BY <1>2, <2>1, <3>1, SetInitAddrBitPeers
  <2>12. others = OtherSlots(conn, t, f, i)
    <3>1. c.kind = conn.kind
      BY <1>3 DEF Keeps, ConnFields
    <3>2. \A h : Concerns(c, h) <=> Concerns(conn, h)
      BY <3>1 DEF Concerns
    <3> HIDE DEF c, f, i, t
    <3> QED
      BY <3>2 DEF OtherSlots
  <2> HIDE DEF c, known, m, others, f, i, t
  <2>7. Keeps(c, m, {"rem"}) /\ IsRem(m.rem) /\ m.ann = conn.ann
    BY <2>4, <2>5, <2>6 DEF PeersOf, Keeps, ConnFields
  <2>8. ann \in [Family -> SUBSET Slot] /\ \A g \in Family : ann[g] \subseteq t[g].bits
    BY <1>2, <2>1 DEF Typed, Idle
  <2>9. d = [m EXCEPT !.add = add, !.ann = ann, !.sub = b, !.told = told]
    BY <2>7 DEF IsConn, Keeps, ConnFields
  <2> HIDE DEF add, b, ann, told, d
  <2>10. Keeps(m, d, {"add", "ann", "sub", "told"}) /\ d.add = add /\ d.ann = ann /\ d.sub = b
         /\ d.told = told
    BY <2>7, <2>9 DEF IsConn, Keeps, ConnFields
  <2>11. /\ Keeps(conn, d, {"phase", "source", "pm", "add", "ann", "sub", "told", "rem"})
         /\ d.phase = "open" /\ d.source = src /\ d.rem = m.rem
    BY <1>3, <2>7, <2>10 DEF Keeps, ConnFields
  <2> QED
    <3>1. /\ t[Fam(src)].addr[i] = src /\ i \in t[Fam(src)].bits /\ d.told = {src}
          /\ d.ann = [conn.ann EXCEPT ![Fam(src)] = {i}]
          /\ d.add = Cardinality(OtherSlots(conn, t, Fam(src), i))
      BY <2>1, <2>10, <2>12 DEF f, told, ann, add
    <3>2. ASSUME \A g \in Family, j \in Slot : c.rem[g][j] = None, NEW g \in Family, NEW j \in Slot,
                 d.rem[g][j] # None
          PROVE  d.rem[g][j].retry = {} /\ d.rem[g][j].bits \subseteq t[g].bits
      <4>1. /\ known.rem[g][j] # None /\ d.rem[g][j].retry = known.rem[g][j].retry
            /\ d.rem[g][j].bits \subseteq
                 IF g = f THEN known.rem[g][j].bits \cup {i} ELSE known.rem[g][j].bits
        BY <2>6, <2>11, <3>2
      <4>2. known.rem[g][j].retry = {} /\ known.rem[g][j].bits = {}
        BY <2>5, <3>2, <4>1 DEF MorePeers, SamePeer, NewPeer
      <4> QED
        BY <2>1, <4>1, <4>2
    <3>3. c.rem = conn.rem
      BY <1>3 DEF Keeps, ConnFields
    <3>4. (\A g \in Family, j \in Slot : conn.rem[g][j] = None) =>
            \A g \in Family, j \in Slot : d.rem[g][j] # None =>
              d.rem[g][j].retry = {} /\ d.rem[g][j].bits \subseteq t[g].bits
      BY <3>2, <3>3
    <3>5. d.add \in Nat /\ IsRem(d.rem) /\ d.ann \in [Family -> SUBSET Slot]
          /\ \A g \in Family : d.ann[g] \subseteq t[g].bits
      BY <2>2, <2>7, <2>8, <2>10, <2>11 DEF add
    <3>6. d.sub = SetToBag({Master(src, t[f].low[i])}) /\ HasEntry(t, src, t[f].low[i])
      BY <2>1, <2>2, <2>10 DEF b
    <3>7. \E l \in t[Fam(src)].bits :
            /\ t[Fam(src)].addr[l] = src /\ d.told = {src}
            /\ d.ann = [conn.ann EXCEPT ![Fam(src)] = {l}]
            /\ d.add = Cardinality(OtherSlots(conn, t, Fam(src), l))
      BY <3>1 DEF f
    <3> HIDE DEF t, f, i
    <3>8. Opens(conn, d, t, src, t[f].low[i])
      BY <2>11, <3>4, <3>5, <3>6, <3>7 DEF Opens
    <3> QED
      BY <2>1, <2>3, <3>8
<1> QED
  BY <1>5, <1>6

LEMMA NewSessionKeeps ==
  ASSUME FMInv, MeshInv, NewSession
  PROVE  MeshInv'
<1>1. conn.phase = "none" /\ ns' = ns
  BY DEF NewSession
<1>2. Typed(conn) /\ IsNow(ns.now)
  BY DEF MeshInv, ConnInv
<1>3. ConnInv(conn', ns.loc, ns.now)
  BY <1>1, <1>2, SessionOpens, OpenedInv
<1> QED
  BY <1>1, <1>2, <1>3 DEF MeshInv

LEMMA EstablishedKeeps ==
  ASSUME FMInv, MeshInv, FullyEstablished
  PROVE  MeshInv'
<1> DEFINE d == [conn EXCEPT !.master = "est"]
<1>1. conn.phase = "open" /\ conn' = CreateSubflows(d) /\ ns' = ns
  BY DEF FullyEstablished, Live
<1>2. ConnInv(conn, ns.loc, ns.now) /\ IsNow(ns.now)
  BY DEF MeshInv
<1>3. Keeps(conn, d, {"master"})
  BY <1>2 DEF ConnInv, Typed, IsConn, Keeps, ConnFields
<1> HIDE DEF d
<1>4. /\ Keeps(conn, d, Loose) /\ d.infinite = conn.infinite /\ d.late = conn.late
      /\ d.add = conn.add /\ d.remove = conn.remove /\ d.rem = conn.rem /\ d.sub = conn.sub
      /\ d.phase = conn.phase
  BY <1>3 DEF Keeps, ConnFields, Loose
<1>5. conn.add \in Nat /\ conn.remove \in SUBSET Lid /\ IsRem(conn.rem)
      /\ \A s \in DOMAIN conn.sub : IsSub(s)
  BY <1>2 DEF ConnInv, Typed
<1>6. ConnInv(d, ns.loc, ns.now)
  BY <1>1, <1>2, <1>4, <1>5, InvKept
<1> QED
  BY <1>1, <1>2, <1>4, <1>6, CreateKept DEF MeshInv

(***************************************************************************)
(* The work items                                                          *)
(***************************************************************************)

LEMMA WorkKept ==
  ASSUME NEW c, NEW d, NEW t, NEW e, ConnInv(c, t, e), c.phase # "none",
         Keeps(c, d, {"work", "retry", "req"}), IsWork(d.work), IsWork(d.retry), IsReq(d.req),
         "copy" \notin c.late =>
           /\ CopyCurrent(d.work, t) /\ CopyCurrent(d.retry, t)
           /\ d.req # None => InTable(t, d.req.src)
  PROVE  ConnInv(d, t, e)
<1>1. /\ IsConn(d) /\ d.phase = c.phase /\ d.kind = c.kind /\ d.source = c.source /\ d.pm = c.pm
      /\ d.infinite = c.infinite /\ d.owned = c.owned /\ d.sub = c.sub /\ d.add = c.add
      /\ d.ann = c.ann /\ d.remove = c.remove /\ d.rem = c.rem /\ d.late = c.late
  BY DEF Keeps, ConnFields
<1>2. Typed(d)
  BY <1>1 DEF ConnInv, Typed, Begun
<1>3. SlotsKnown(d, t, e) /\ FromTable(d, t, e)
  BY <1>1 DEF ConnInv, SlotsKnown, FromTable, Serving, Concerns
<1>4. Current(d, t)
  BY <1>1 DEF Current
<1> QED
  BY <1>2, <1>3, <1>4 DEF ConnInv

LEMMA StartedWork ==
  ASSUME FMInv
  PROVE  IsWork(Started) /\ CopyCurrent(Started, ns.loc)
<1>1. TableInv(ns.loc) /\ Started.run.loc = ns.loc
  BY DEF FMInv, Started
<1>2. IsWork(Started)
  BY <1>1 DEF Started, IsWork
<1>3. CopyCurrent(Started, ns.loc)
  BY <1>1, SlotAddresses DEF CopyCurrent
<1> QED
  BY <1>2, <1>3

LEMMA WorkerStartKeeps ==
  ASSUME FMInv, MeshInv, WorkerStart \/ RetryStart
  PROVE  MeshInv'
<1>1. ConnInv(conn, ns.loc, ns.now) /\ IsNow(ns.now)
  BY DEF MeshInv
<1>2. /\ Typed(conn) /\ Current(conn, ns.loc) /\ IsConn(conn)
      /\ IsWork(conn.work) /\ IsWork(conn.retry) /\ IsReq(conn.req)
  BY <1>1 DEF ConnInv, Typed
<1>3. ns' = ns /\ conn.phase # "none"
  BY <1>2 DEF WorkerStart, RetryStart, Typed, Begun, Idle
<1>4. CASE WorkerStart
  <2>1. conn' = [conn EXCEPT !.work = Started]
    BY <1>4 DEF WorkerStart
  <2>2. Keeps(conn, conn', {"work"}) /\ conn'.work = Started
    BY <1>2, <2>1 DEF IsConn, Keeps, ConnFields
  <2>3. Keeps(conn, conn', {"work", "retry", "req"}) /\ conn'.retry = conn.retry /\ conn'.req = conn.req
    BY <2>2 DEF Keeps, ConnFields
  <2>4. ConnInv(conn', ns.loc, ns.now)
    BY <1>1, <1>2, <1>3, <2>2, <2>3, StartedWork, WorkKept DEF Current
  <2> QED
    BY <1>1, <1>3, <2>4 DEF MeshInv
<1>5. CASE RetryStart
  <2>1. conn' = [conn EXCEPT !.retry = Started]
    BY <1>5 DEF RetryStart
  <2>2. Keeps(conn, conn', {"retry"}) /\ conn'.retry = Started
    BY <1>2, <2>1 DEF IsConn, Keeps, ConnFields
  <2>3. Keeps(conn, conn', {"work", "retry", "req"}) /\ conn'.work = conn.work /\ conn'.req = conn.req
    BY <2>2 DEF Keeps, ConnFields
  <2>4. ConnInv(conn', ns.loc, ns.now)
    BY <1>1, <1>2, <1>3, <2>2, <2>3, StartedWork, WorkKept DEF Current
  <2> QED
    BY <1>1, <1>3, <2>4 DEF MeshInv
<1> QED
  BY <1>4, <1>5

\* The next combination is one of those that are left.
LEMMA NextPairOf ==
  ASSUME NEW todo \in SUBSET Pairs, todo # {}
  PROVE  LET n == NextPair(todo)
         IN  n \in todo /\ n[1] \in Family /\ n[2] \in Slot /\ n[3] \in Slot
<1> DEFINE F == {p[1] : p \in todo}
           f == First(F)
           J == {p[2] : p \in {q \in todo : q[1] = f}}
           j == First(J)
           I == {p[3] : p \in {q \in todo : q[1] = f /\ q[2] = j}}
           i == First(I)
<1>1. \A p \in todo : p = <<p[1], p[2], p[3]>> /\ p[1] \in Family /\ p[2] \in Slot /\ p[3] \in Slot
  BY DEF Pairs
<1>2. NextPair(todo) = <<f, j, i>>
  BY DEF NextPair
<1>3. Family \subseteq Nat /\ Slot \subseteq Nat
  BY DEF Family, Slot
<1>4. f \in F
  <2>1. F \in SUBSET Nat /\ F # {}
    BY <1>1, <1>2, <1>3
  <2> HIDE DEF F
  <2> QED
    BY <2>1, LeastNumber DEF First
<1>5. \E p \in todo : p[1] = f
  <2> HIDE DEF f
  <2> QED
    BY <1>4
<1> HIDE DEF f
<1>6. j \in J
  <2>1. J \in SUBSET Nat /\ J # {}
    BY <1>1, <1>3, <1>5
  <2> HIDE DEF J
  <2> QED
    BY <2>1, LeastNumber DEF First
<1>7. \E p \in todo : p[1] = f /\ p[2] = j
  <2> HIDE DEF j
  <2> QED
    BY <1>6
<1> HIDE DEF j
<1>8. i \in I
  <2>1. I \in SUBSET Nat /\ I # {}
    BY <1>1, <1>3, <1>7
  <2> HIDE DEF I
  <2> QED
    BY <2>1, LeastNumber DEF First
<1>9. PICK p \in todo : p[1] = f /\ p[2] = j /\ p[3] = i
  <2> HIDE DEF i
  <2> QED
    BY <1>8
<1> HIDE DEF i
<1> QED
  BY <1>1, <1>2, <1>9

LEMMA NoPairLeft ==
  ASSUME NEW todo \in SUBSET Pairs
  PROVE  NextPair(todo) = None <=> todo = {}
<1>1. CASE todo = {}
  BY <1>1 DEF NextPair
<1>2. CASE todo # {}
  <2>1. NextPair(todo) \in Pairs
    BY <1>2, NextPairOf
  <2>2. None \notin Pairs
    BY NoneAssumption DEF Pairs, Family, Slot
  <2> QED
    BY <1>2, <2>1, <2>2
<1> QED
  BY <1>1, <1>2

LEMMA LateKeeps ==
  ASSUME NEW c, NEW t, NEW e, ConnInv(c, t, e), c.phase # "none", NEW S
  PROVE  LET d == [c EXCEPT !.late = @ \cup S]
         IN  ConnInv(d, t, e) /\ Keeps(c, d, {"late"}) /\ d.late = c.late \cup S
<1> DEFINE d == [c EXCEPT !.late = @ \cup S]
<1>1. /\ c.add \in Nat /\ c.remove \in SUBSET Lid /\ IsRem(c.rem)
      /\ \A s \in DOMAIN c.sub : IsSub(s)
  BY DEF ConnInv, Typed
<1>2. Keeps(c, d, {"late"}) /\ d.late = c.late \cup S
  BY DEF ConnInv, Typed, IsConn, Keeps, ConnFields
<1> HIDE DEF d
<1>3. /\ Keeps(c, d, Loose) /\ d.infinite = c.infinite /\ d.add = c.add /\ d.remove = c.remove
      /\ d.rem = c.rem /\ d.sub = c.sub
  BY <1>2 DEF Keeps, ConnFields, Loose
<1>4. ConnInv(d, t, e)
  BY <1>1, <1>2, <1>3, InvKept
<1> QED
  BY <1>2, <1>4 DEF d

LEMMA PeersKept ==
  ASSUME NEW c, NEW d, NEW t, NEW e, ConnInv(c, t, e), c.phase # "none", PeersOf(c, d)
  PROVE  ConnInv(d, t, e)
<1>1. /\ c.add \in Nat /\ c.remove \in SUBSET Lid /\ \A s \in DOMAIN c.sub : IsSub(s)
  BY DEF ConnInv, Typed
<1>2. Keeps(c, d, Loose) /\ d.infinite = c.infinite /\ d.add = c.add /\ d.remove = c.remove
      /\ d.late = c.late /\ d.sub = c.sub /\ IsRem(d.rem)
  BY DEF PeersOf, Keeps, ConnFields, Loose
<1> QED
  BY <1>1, <1>2, InvKept

\* Slot i is noted as tried, as to be tried again, or no longer as such.
Marked(c, d, f, j, i) ==
    \/ d = [c EXCEPT !.rem[f][j].bits = @ \cup {i}]
    \/ d = [c EXCEPT !.rem[f][j].retry = @ \cup {i}]
    \/ d = [c EXCEPT !.rem[f][j].retry = @ \ {i}]

LEMMA MarkedPeers ==
  ASSUME NEW c, IsConn(c), IsRem(c.rem), NEW f \in Family, NEW j \in Slot, IsRemote(c.rem[f][j]),
         NEW i \in Slot, NEW d, Marked(c, d, f, j, i)
  PROVE  LET r == c.rem[f][j]
             s == d.rem[f][j]
         IN  /\ PeersOf(c, d) /\ IsRemote(s)
             /\ \A g \in Family, k \in Slot : (g # f \/ k # j) => d.rem[g][k] = c.rem[g][k]
             /\ d = [c EXCEPT !.rem[f][j].bits = @ \cup {i}] =>
                  s.bits = r.bits \cup {i} /\ s.retry = r.retry
             /\ d = [c EXCEPT !.rem[f][j].retry = @ \cup {i}] =>
                  s.bits = r.bits /\ s.retry = r.retry \cup {i}
             /\ d = [c EXCEPT !.rem[f][j].retry = @ \ {i}] =>
                  s.bits = r.bits /\ s.retry = r.retry \ {i}
<1> DEFINE r == c.rem[f][j]
           new(B, R) == [c EXCEPT !.rem[f][j] = [r EXCEPT !.bits = B, !.retry = R]]
<1>1. r = [x \in {"id", "addr", "port", "bits", "retry"} |-> r[x]] /\ r.bits \in SUBSET Slot /\ r.retry \in SUBSET Slot
  BY DEF IsRemote
<1>2. ASSUME NEW B \in SUBSET Slot, NEW R \in SUBSET Slot, d = new(B, R)
      PROVE  /\ PeersOf(c, d) /\ IsRemote(d.rem[f][j])
             /\ \A g \in Family, k \in Slot : (g # f \/ k # j) => d.rem[g][k] = c.rem[g][k]
             /\ d.rem[f][j].bits = B /\ d.rem[f][j].retry = R
  <2> DEFINE s == [r EXCEPT !.bits = B, !.retry = R]
  <2>1. IsRemote(s) /\ s.bits = B /\ s.retry = R
    BY <1>1 DEF IsRemote
  <2>2. d = [c EXCEPT !.rem[f][j] = s]
    BY <1>2
  <2> HIDE DEF s, r
  <2>3. /\ PeersOf(c, d)
        /\ \A g \in Family, k \in Slot : d.rem[g][k] = IF g = f /\ k = j THEN s ELSE c.rem[g][k]
    BY <2>1, <2>2, PeerChanged
  <2> QED
    BY <2>1, <2>3
<1>3. d = [c EXCEPT !.rem[f][j].bits = @ \cup {i}] => d = new(r.bits \cup {i}, r.retry)
  BY <1>1 DEF IsConn, ConnFields, IsRem
<1>4. d = [c EXCEPT !.rem[f][j].retry = @ \cup {i}] => d = new(r.bits, r.retry \cup {i})
  BY <1>1 DEF IsConn, ConnFields, IsRem
<1>5. d = [c EXCEPT !.rem[f][j].retry = @ \ {i}] => d = new(r.bits, r.retry \ {i})
  BY <1>1 DEF IsConn, ConnFields, IsRem
<1> HIDE DEF r, new
<1>6. /\ r.bits \cup {i} \in SUBSET Slot /\ r.retry \cup {i} \in SUBSET Slot
      /\ r.retry \ {i} \in SUBSET Slot
  BY <1>1
<1> DEFINE Rest == PeersOf(c, d) /\ IsRemote(d.rem[f][j])
                  /\ \A g \in Family, k \in Slot : (g # f \/ k # j) => d.rem[g][k] = c.rem[g][k]
           Got(B, R) == d.rem[f][j].bits = B /\ d.rem[f][j].retry = R
<1>7. \A B \in SUBSET Slot, R \in SUBSET Slot : d = new(B, R) => Rest /\ Got(B, R)
  BY <1>2
<1> HIDE DEF Rest, Got
<1>8. d = [c EXCEPT !.rem[f][j].bits = @ \cup {i}] => Rest /\ Got(r.bits \cup {i}, r.retry)
  BY <1>1, <1>3, <1>6, <1>7
<1>9. d = [c EXCEPT !.rem[f][j].retry = @ \cup {i}] => Rest /\ Got(r.bits, r.retry \cup {i})
  BY <1>1, <1>4, <1>6, <1>7
<1>10. d = [c EXCEPT !.rem[f][j].retry = @ \ {i}] => Rest /\ Got(r.bits, r.retry \ {i})
  BY <1>1, <1>5, <1>6, <1>7
<1>11. Rest
  BY <1>8, <1>9, <1>10 DEF Marked
<1> QED
  BY <1>8, <1>9, <1>10, <1>11 DEF Rest, Got, r

LEMMA RowKeeps ==
  ASSUME NEW c, NEW t, NEW e, ConnInv(c, t, e), c.phase # "none", NEW f \in Family,
         NEW j \in Slot, IsRemote(c.rem[f][j]), NEW i \in Slot, NEW d,
         Marked(c, d, f, j, i)
  PROVE  ConnInv(d, t, e) /\ Keeps(c, d, {"rem"}) /\ IsRemote(d.rem[f][j])
<1>1. IsConn(c) /\ IsRem(c.rem)
  BY DEF ConnInv, Typed
<1>2. PeersOf(c, d) /\ IsRemote(d.rem[f][j])
  BY <1>1, MarkedPeers
<1> QED
  BY <1>2, PeersKept DEF PeersOf

LEMMA SubflowsKeep ==
  ASSUME NEW c, NEW t, NEW e, ConnInv(c, t, e), c.phase # "none", NEW src \in Addr, NEW dst,
         NEW lid \in Lid, NEW rid, NEW low, NEW k,
         c.late \cap {"copy", "source"} = {} => InTable(t, src)
  PROVE  LET d == WithSubflows(c, src, dst, lid, rid, low, k)
         IN  ConnInv(d, t, e) /\ Keeps(c, d, {"sub", "told"})
<1> DEFINE d == WithSubflows(c, src, dst, lid, rid, low, k)
<1>1. /\ IsConn(c) /\ IsRem(c.rem) /\ c.add \in Nat /\ c.remove \in SUBSET Lid
      /\ \A s \in DOMAIN c.sub : IsSub(s)
  BY DEF ConnInv, Typed
<1>2. /\ Keeps(c, d, {"sub", "told"})
      /\ \A s \in DOMAIN d.sub : s \in DOMAIN c.sub \/ (IsSub(s) /\ s.src = src)
  BY <1>1, WithSubflowsAdds
<1> HIDE DEF d
<1>3. /\ Keeps(c, d, Loose) /\ d.infinite = c.infinite /\ d.add = c.add /\ d.remove = c.remove
      /\ d.rem = c.rem /\ d.late = c.late
  BY <1>2 DEF Keeps, ConnFields, Loose
<1>4. \A s \in DOMAIN d.sub : IsSub(s)
  BY <1>1, <1>2
<1>5. d.late \cap {"copy", "source"} = {} =>
        \A s \in DOMAIN d.sub :
          s.open => InTable(t, s.src) \/ \E u \in DOMAIN c.sub : u.open /\ u.src = s.src
  BY <1>2, <1>3
<1>6. ConnInv(d, t, e)
  BY <1>1, <1>3, <1>4, <1>5, InvKept
<1> QED
  BY <1>2, <1>6 DEF d

LEMMA SubsocketsKeep ==
  ASSUME NEW c, NEW t, NEW e, ConnInv(c, t, e), c.phase # "none", NEW copy, NEW f \in Family,
         NEW j, NEW i \in Slot, NEW src \in Addr, NEW k,
         c.late \cap {"copy", "source"} = {} => InTable(t, src)
  PROVE  LET d == Subsockets(c, copy, f, j, i, src, k)
         IN  ConnInv(d, t, e) /\ Keeps(c, d, {"sub", "told"})
<1> DEFINE r == c.rem[f][j]
           lid == IF copy[f].addr[i] = None THEN 0 ELSE LocId(f, i)
           dst == r.addr
           rid == r.id
           low == copy[f].low[i]
<1>1. Subsockets(c, copy, f, j, i, src, k) = WithSubflows(c, src, dst, lid, rid, low, k)
  BY DEF Subsockets
<1>2. lid \in Lid
  BY LidOfSlot, FullMeshAssumption DEF Lid
<1> HIDE DEF lid, dst, rid, low
<1> QED
  BY <1>1, <1>2, SubflowsKeep

\* The further subflows of the first pair: "source" if their address is not in the table.
LEMMA FirstPairKeeps ==
  ASSUME FMInv, MeshInv, conn.phase = "open", NEW x \in FirstPairs(conn)
  PROVE  LET c == FirstPair(conn, x)
         IN  /\ ConnInv(c, ns.loc, ns.now) /\ c.phase = "open" /\ c.work = conn.work
             /\ c.retry = conn.retry
<1> DEFINE t == ns.loc
           c == FirstPair(conn, x)
           src == conn.source
           dst == MasterDst[Fam(src)]
           low == FALSE
           w == WithSubflows(conn, src, dst, 0, 0, low, x)
           L == {v \in {"source"} : x > 0 /\ FindAddress(t, src) = None}
           d == [w EXCEPT !.first = TRUE, !.late = @ \cup L]
<1>1. /\ ConnInv(conn, t, ns.now) /\ IsConn(conn) /\ TableInv(t)
      /\ IsRem(conn.rem) /\ conn.add \in Nat /\ conn.remove \in SUBSET Lid
      /\ \A s \in DOMAIN conn.sub : IsSub(s)
      /\ conn.kind.flows \in Nat
  BY DEF FMInv, MeshInv, ConnInv, Typed
<1>2. src \in Addr
  BY DEF MeshInv, ConnInv, Typed, Begun
<1>3. x = 0 \/ x > 0
  BY <1>1 DEF FirstPairs
<1>4. c = IF conn.first \/ conn.master = "gone" THEN conn ELSE d
  BY DEF FirstPair
<1>5. x > 0 => InTable(t, src) \/ "source" \in L
  BY <1>1, <1>2, FoundInTable
<1> HIDE DEF c, t, src, dst, low, L
<1>6. /\ Keeps(conn, w, {"sub", "told"}) /\ (x = 0 => w.sub = conn.sub)
      /\ \A s \in DOMAIN w.sub : s \in DOMAIN conn.sub \/ (IsSub(s) /\ s.src = src)
  <2>1. 0 \in Lid
    BY FullMeshAssumption DEF Lid
  <2> QED
    BY <1>1, <1>2, <2>1, WithSubflowsAdds
<1> HIDE DEF w
<1>7. Keeps(w, d, {"first", "late"}) /\ d.late = w.late \cup L
  BY <1>6 DEF Keeps, IsConn, ConnFields
<1> HIDE DEF d
<1>8. /\ Keeps(conn, d, Loose) /\ d.infinite = conn.infinite /\ d.add = conn.add
      /\ d.remove = conn.remove /\ d.rem = conn.rem /\ d.late = conn.late \cup L /\ d.sub = w.sub
      /\ d.phase = conn.phase /\ d.work = conn.work /\ d.retry = conn.retry
  BY <1>6, <1>7 DEF Keeps, ConnFields, Loose
<1>9. \A s \in DOMAIN d.sub : IsSub(s)
  BY <1>1, <1>6, <1>8
<1>10. d.late \cap {"copy", "source"} = {} =>
         \A s \in DOMAIN d.sub :
           s.open => InTable(t, s.src) \/ \E u \in DOMAIN conn.sub : u.open /\ u.src = s.src
  BY <1>3, <1>5, <1>6, <1>8
<1>11. ConnInv(d, t, ns.now)
  BY <1>1, <1>8, <1>9, <1>10, InvKept
<1> QED
  BY <1>1, <1>4, <1>8, <1>11 DEF c, t

\* The work item goes on, asks for the other one, or ends.
LEMMA WorkGoesOn ==
  ASSUME NEW c, NEW t, NEW e, ConnInv(c, t, e), c.phase # "none", NEW d, NEW b,
         \/ d = [c EXCEPT !.work.run = None]
         \/ d = [c EXCEPT !.retry.run = None]
         \/ d = [c EXCEPT !.work.run = None, !.retry.pending = b]
         \/ c.work.run # None /\ d = [c EXCEPT !.work.run.again = TRUE]
  PROVE  ConnInv(d, t, e)
<1>1. /\ IsConn(c) /\ IsWork(c.work) /\ IsWork(c.retry) /\ IsReq(c.req)
      /\ Current(c, t)
  BY DEF ConnInv, Typed
<1> DEFINE ended(w) == [w EXCEPT !.run = None]
           queued == [c.retry EXCEPT !.pending = b]
           asking == [c.work EXCEPT !.run.again = TRUE]
<1>2. \A w : IsWork(w) => IsWork(ended(w)) /\ CopyCurrent(ended(w), t)
  BY DEF IsWork, CopyCurrent
<1>3. /\ IsWork(queued) /\ (CopyCurrent(c.retry, t) => CopyCurrent(queued, t))
  <2>1. queued.run = c.retry.run /\ queued = [x \in {"pending", "run"} |-> queued[x]]
    BY <1>1 DEF IsWork
  <2> HIDE DEF queued
  <2> QED
    BY <1>1, <2>1 DEF IsWork, CopyCurrent
<1>4. c.work.run # None =>
        IsWork(asking) /\ (CopyCurrent(c.work, t) => CopyCurrent(asking, t))
  <2> SUFFICES ASSUME c.work.run # None
               PROVE  IsWork(asking) /\ (CopyCurrent(c.work, t) => CopyCurrent(asking, t))
    OBVIOUS
  <2> DEFINE run == [c.work.run EXCEPT !.again = TRUE]
  <2>1. c.work.run = [x \in {"loc", "again"} |-> c.work.run[x]] /\ TableInv(c.work.run.loc)
    BY <1>1 DEF IsWork
  <2>2. run.loc = c.work.run.loc /\ run = [x \in {"loc", "again"} |-> run[x]]
    BY <2>1
  <2>3. asking = [c.work EXCEPT !.run = run]
    BY <1>1 DEF IsWork
  <2> HIDE DEF run, asking
  <2>4. asking = [x \in {"pending", "run"} |-> asking[x]] /\ asking.run = run
    BY <1>1, <2>3 DEF IsWork
  <2> QED
    BY <2>1, <2>2, <2>4 DEF IsWork, CopyCurrent
<1>5. \E w, r : /\ d = [c EXCEPT !.work = w, !.retry = r] /\ IsWork(w) /\ IsWork(r)
                /\ CopyCurrent(c.work, t) /\ CopyCurrent(c.retry, t) =>
                     CopyCurrent(w, t) /\ CopyCurrent(r, t)
  <2>1. CASE d = [c EXCEPT !.work.run = None]
    <3>1. d = [c EXCEPT !.work = ended(c.work), !.retry = c.retry]
      BY <1>1, <2>1 DEF IsConn, ConnFields
    <3> HIDE DEF ended
    <3> QED
      BY <1>1, <1>2, <3>1
  <2>2. CASE d = [c EXCEPT !.retry.run = None]
    <3>1. d = [c EXCEPT !.work = c.work, !.retry = ended(c.retry)]
      BY <1>1, <2>2 DEF IsConn, ConnFields
    <3> HIDE DEF ended
    <3> QED
      BY <1>1, <1>2, <3>1
  <2>3. CASE d = [c EXCEPT !.work.run = None, !.retry.pending = b]
    <3>1. d = [c EXCEPT !.work = ended(c.work), !.retry = queued]
      BY <1>1, <2>3 DEF IsConn, ConnFields
    <3> HIDE DEF ended, queued
    <3> QED
      BY <1>1, <1>2, <1>3, <3>1
  <2>4. CASE c.work.run # None /\ d = [c EXCEPT !.work.run.again = TRUE]
    <3>1. d = [c EXCEPT !.work = asking, !.retry = c.retry]
      BY <1>1, <2>4 DEF IsConn, ConnFields
    <3> HIDE DEF asking
    <3> QED
      BY <1>1, <1>4, <2>4, <3>1
  <2> QED
    BY <2>1, <2>2, <2>3, <2>4
<1>6. PICK w, r : /\ d = [c EXCEPT !.work = w, !.retry = r] /\ IsWork(w) /\ IsWork(r)
                  /\ CopyCurrent(c.work, t) /\ CopyCurrent(c.retry, t) =>
                       CopyCurrent(w, t) /\ CopyCurrent(r, t)
  BY <1>5
<1>7. Keeps(c, d, {"work", "retry"}) /\ d.work = w /\ d.retry = r
  BY <1>1, <1>6 DEF IsConn, Keeps, ConnFields
<1>8. Keeps(c, d, {"work", "retry", "req"}) /\ d.req = c.req
  BY <1>7 DEF Keeps, ConnFields
<1>9. "copy" \notin c.late =>
        /\ CopyCurrent(d.work, t) /\ CopyCurrent(d.retry, t)
        /\ d.req # None => InTable(t, d.req.src)
  BY <1>1, <1>6, <1>7, <1>8 DEF Current
<1>10. IsWork(d.work) /\ IsWork(d.retry) /\ IsReq(d.req)
  BY <1>1, <1>6, <1>7, <1>8
<1> QED
  BY <1>8, <1>9, <1>10, WorkKept

(***************************************************************************)
(* Their steps                                                             *)
(***************************************************************************)

\* The first work item takes a pair of slots from its copy.
TakesPair(c, new, f, j, i) ==
    LET copy == c.work.run.loc
        d == [c EXCEPT !.rem[f][j].bits = @ \cup {i}]
        g == [d EXCEPT !.rem[f][j].retry = @ \cup {i}]
    IN  /\ c.rem[f][j] # None /\ i \in copy[f].bits
        /\ \/ \E k : new = Subsockets(d, copy, f, j, i, copy[f].addr[i], k)
           \/ new = [g EXCEPT !.work.run.again = TRUE]

\* Or it ends.
WorkerSteps(c, new) ==
    \/ /\ c.dead \/ c.master = "new"
       /\ new = [c EXCEPT !.work.run = None]
    \/ /\ \A f \in Family, j \in Slot, i \in Slot : i \notin Remaining(c, c.work.run.loc, f, j)
       /\ \E b : /\ c.retry.pending \/ c.work.run.again => b
                /\ new = [c EXCEPT !.work.run = None, !.retry.pending = b]
    \/ \E f \in Family, j \in Slot, i \in Slot : TakesPair(c, new, f, j, i)

LEMMA WorkerStepIs ==
  ASSUME WorkerStep
  PROVE  \E x \in FirstPairs(conn) : WorkerSteps(FirstPair(conn, x), conn')
<1>0. PICK x \in FirstPairs(conn) :
        LET c == FirstPair(conn, x)
            copy == c.work.run.loc
            n == NextPair({p \in Pairs : p[3] \in Remaining(c, copy, p[1], p[2])})
            f == n[1]
            j == n[2]
            i == n[3]
            d == [c EXCEPT !.rem[f][j].bits = @ \cup {i}]
        IN  \/ /\ c.dead \/ c.master = "new"
               /\ conn' = [c EXCEPT !.work.run = None]
               /\ UNCHANGED budget
            \/ /\ ~c.dead /\ c.master # "new" /\ n = None
               /\ conn' = WorkerEnds(c)
               /\ UNCHANGED budget
            \/ /\ ~c.dead /\ c.master # "new" /\ n # None
               /\ LET src == copy[f].addr[i]
                  IN  \E k \in 0..c.kind.flows :
                        /\ conn' = Subsockets(d, copy, f, j, i, src, k)
                        /\ Connects(src, k)
            \/ /\ ~c.dead /\ c.master # "new" /\ n # None
               /\ conn' = [d EXCEPT !.rem[f][j].retry = @ \cup {i}, !.work.run.again = TRUE]
               /\ Faulty
  BY DEF WorkerStep
<1> DEFINE c == FirstPair(conn, x)
           copy == c.work.run.loc
           todo == {p \in Pairs : p[3] \in Remaining(c, copy, p[1], p[2])}
           n == NextPair(todo)
           f == n[1]
           j == n[2]
           i == n[3]
           d == [c EXCEPT !.rem[f][j].bits = @ \cup {i}]
           src == copy[f].addr[i]
           g == [d EXCEPT !.rem[f][j].retry = @ \cup {i}]
<1>1. \/ (c.dead \/ c.master = "new") /\ conn' = [c EXCEPT !.work.run = None]
      \/ n = None /\ conn' = WorkerEnds(c)
      \/ n # None /\ \E k : conn' = Subsockets(d, copy, f, j, i, src, k)
      \/ n # None /\ conn' = [g EXCEPT !.work.run.again = TRUE]
  BY <1>0
<1> SUFFICES WorkerSteps(c, conn')
  OBVIOUS
<1> HIDE DEF c
<1>2. CASE (c.dead \/ c.master = "new") /\ conn' = [c EXCEPT !.work.run = None]
  BY <1>2 DEF WorkerSteps
<1>3. CASE n = None /\ conn' = WorkerEnds(c)
  <2> DEFINE b == c.retry.pending \/ c.work.run.again
  <2>1. conn' = [c EXCEPT !.work.run = None, !.retry.pending = b]
    BY <1>3 DEF WorkerEnds
  <2>2. todo = {}
    <3>1. todo \in SUBSET Pairs /\ NextPair(todo) = None
      BY <1>3
    <3> HIDE DEF todo
    <3> QED
      BY <3>1, NoPairLeft
  <2>3. \A h \in Family, k \in Slot, l \in Slot : l \notin Remaining(c, copy, h, k)
    <3> SUFFICES ASSUME NEW h \in Family, NEW k \in Slot, NEW l \in Slot
                 PROVE  l \notin Remaining(c, copy, h, k)
      OBVIOUS
    <3>1. <<h, k, l>> \in Pairs
      BY DEF Pairs
    <3> QED
      BY <2>2, <3>1
  <2>4. c.retry.pending \/ c.work.run.again => b
    OBVIOUS
  <2> HIDE DEF b
  <2>5. \A h \in Family, k \in Slot, l \in Slot : l \notin Remaining(c, c.work.run.loc, h, k)
    BY <2>3
  <2>6. \E p : /\ c.retry.pending \/ c.work.run.again => p
               /\ conn' = [c EXCEPT !.work.run = None, !.retry.pending = p]
    BY <2>1, <2>4
  <2> HIDE DEF c, todo, n, f, j, i, d, src, g, copy
  <2> QED
    BY <2>5, <2>6 DEF WorkerSteps
<1>4. n # None =>
        f \in Family /\ j \in Slot /\ i \in Slot /\ c.rem[f][j] # None /\ i \in copy[f].bits
  <2> SUFFICES ASSUME n # None
               PROVE  /\ f \in Family /\ j \in Slot /\ i \in Slot
                      /\ c.rem[f][j] # None /\ i \in copy[f].bits
    OBVIOUS
  <2>1. todo \in SUBSET Pairs
    OBVIOUS
  <2>0. todo # {}
    <3> HIDE DEF todo
    <3> QED
      BY <2>1, NoPairLeft
  <2>2. n \in todo /\ f \in Family /\ j \in Slot /\ i \in Slot
    <3>1. n = NextPair(todo) /\ f = n[1] /\ j = n[2] /\ i = n[3]
      OBVIOUS
    <3> HIDE DEF todo, n, f, j, i
    <3>2. LET m == NextPair(todo)
          IN  m \in todo /\ m[1] \in Family /\ m[2] \in Slot /\ m[3] \in Slot
      BY <2>0, <2>1, <3>1, NextPairOf
    <3> QED
      BY <3>1, <3>2
  <2>3. i \in Remaining(c, copy, f, j)
    <3> HIDE DEF n
    <3> QED
      BY <2>2
  <2>4. c.rem[f][j] # None /\ i \in copy[f].bits
    <3> HIDE DEF f, j, i, copy
    <3> QED
      BY <2>3 DEF Remaining
  <2> HIDE DEF n, f, j, i
  <2> QED
    BY <2>2, <2>4
<1> HIDE DEF n, f, j, i
<1>5. CASE n # None /\ \E k : conn' = Subsockets(d, copy, f, j, i, src, k)
  BY <1>4, <1>5 DEF WorkerSteps, TakesPair
<1>6. CASE n # None /\ conn' = [g EXCEPT !.work.run.again = TRUE]
  BY <1>4, <1>6 DEF WorkerSteps, TakesPair
<1> QED
  BY <1>1, <1>2, <1>3, <1>5, <1>6

LEMMA WorkerStepKeeps ==
  ASSUME FMInv, MeshInv, WorkerStep
  PROVE  MeshInv'
<1>0. PICK x \in FirstPairs(conn) : WorkerSteps(FirstPair(conn, x), conn')
  BY WorkerStepIs
<1> DEFINE t == ns.loc
           c == FirstPair(conn, x)
           copy == c.work.run.loc
<1>1. /\ conn.work.run # None /\ ns' = ns
  BY DEF WorkerStep
<1>2. ConnInv(conn, t, ns.now) /\ IsNow(ns.now) /\ conn.phase = "open"
  BY <1>1 DEF MeshInv, ConnInv, Typed, Begun, Idle
<1>3. /\ ConnInv(c, t, ns.now) /\ c.phase = "open" /\ c.work = conn.work
  BY <1>2, FirstPairKeeps
<1>4. WorkerSteps(c, conn')
  BY <1>0
<1> SUFFICES ConnInv(conn', t, ns.now)
  BY <1>1, <1>2 DEF MeshInv
<1> HIDE DEF c, t
<1>5. TableInv(copy) /\ IsRem(c.rem) /\ ("copy" \notin c.late => CopyCurrent(c.work, t))
  BY <1>1, <1>3 DEF ConnInv, Typed, IsWork, Current
<1>6. CASE conn' = [c EXCEPT !.work.run = None]
  BY <1>3, <1>6, WorkGoesOn
<1>7. CASE \E b : conn' = [c EXCEPT !.work.run = None, !.retry.pending = b]
  BY <1>3, <1>7, WorkGoesOn
<1>8. ASSUME NEW f \in Family, NEW j \in Slot, NEW i \in Slot, TakesPair(c, conn', f, j, i)
      PROVE  ConnInv(conn', t, ns.now)
  <2> DEFINE d == [c EXCEPT !.rem[f][j].bits = @ \cup {i}]
             g == [d EXCEPT !.rem[f][j].retry = @ \cup {i}]
             src == copy[f].addr[i]
  <2>0. c.rem[f][j] # None /\ i \in copy[f].bits
    BY <1>8 DEF TakesPair
  <2>1. ConnInv(d, t, ns.now) /\ Keeps(c, d, {"rem"}) /\ IsRemote(d.rem[f][j])
    <3>1. IsRemote(c.rem[f][j])
      BY <1>5, <2>0 DEF IsRem
    <3>2. Marked(c, d, f, j, i)
      BY DEF Marked
    <3> HIDE DEF d
    <3> QED
      BY <1>3, <3>1, <3>2, RowKeeps
  <2>2. \/ \E k : conn' = Subsockets(d, copy, f, j, i, src, k)
        \/ conn' = [g EXCEPT !.work.run.again = TRUE]
    BY <1>8 DEF TakesPair
  <2>3. d.phase = c.phase /\ d.work = c.work /\ d.late = c.late
    BY <2>1 DEF Keeps, ConnFields
  <2>4. CASE \E k : conn' = Subsockets(d, copy, f, j, i, src, k)
    <3> HIDE DEF d
    <3>1. src \in Addr
      BY <1>5, <2>0, SlotAddresses
    <3>2. "copy" \notin d.late => InTable(t, src)
      BY <1>1, <1>3, <1>5, <2>0, <2>3 DEF CopyCurrent
    <3> HIDE DEF src, copy
    <3> QED
      BY <1>3, <2>1, <2>3, <2>4, <3>1, <3>2, SubsocketsKeep
  <2>5. CASE conn' = [g EXCEPT !.work.run.again = TRUE]
    <3>1. ConnInv(g, t, ns.now) /\ Keeps(d, g, {"rem"})
      <4> HIDE DEF d
      <4>1. Marked(d, g, f, j, i)
        BY DEF Marked
      <4> HIDE DEF g
      <4> QED
        BY <1>3, <2>1, <2>3, <4>1, RowKeeps
    <3> HIDE DEF d, g
    <3>2. g.phase = d.phase /\ g.work = d.work
      BY <3>1 DEF Keeps, ConnFields
    <3> QED
      BY <1>1, <1>3, <2>3, <2>5, <3>1, <3>2, WorkGoesOn
  <2> QED
    BY <2>2, <2>4, <2>5
<1> QED
  BY <1>4, <1>6, <1>7, <1>8 DEF WorkerSteps

\* The other one takes a pair that waits for its second try.
TriesAgain(c, new, f, j, i) ==
    LET copy == c.retry.run.loc
        b == [c EXCEPT !.rem[f][j].bits = @ \cup {i}]
        r == [b EXCEPT !.rem[f][j].retry = @ \ {i}]
        d == [r EXCEPT !.late = @ \cup Outdated(copy, f, i)]
    IN  /\ c.rem[f][j] # None /\ i \in c.rem[f][j].retry
        /\ \E src \in SourceOf(copy, f, i) : \E k : new = Subsockets(d, copy, f, j, i, src, k)

\* Or it ends.
RetrySteps(c, new) ==
    \/ /\ c.dead \/ \A f \in Family, j \in Slot, i \in Slot : i \notin ToRetry(c, f, j)
       /\ new = [c EXCEPT !.retry.run = None]
    \/ \E f \in Family, j \in Slot, i \in Slot : TriesAgain(c, new, f, j, i)

LEMMA RetryStepIs ==
  ASSUME FMInv, MeshInv, RetryStep
  PROVE  RetrySteps(conn, conn')
<1> DEFINE copy == conn.retry.run.loc
           todo == {p \in Pairs : p[3] \in ToRetry(conn, p[1], p[2])}
           n == NextPair(todo)
           f == n[1]
           j == n[2]
           i == n[3]
           S == Outdated(copy, f, i)
           c == [conn EXCEPT !.rem[f][j].bits = @ \cup {i},
                             !.rem[f][j].retry = @ \ {i},
                             !.late = @ \cup S]
           b == [conn EXCEPT !.rem[f][j].bits = @ \cup {i}]
           r == [b EXCEPT !.rem[f][j].retry = @ \ {i}]
           d == [r EXCEPT !.late = @ \cup S]
<1>1. IsConn(conn) /\ IsRem(conn.rem)
  BY DEF MeshInv, ConnInv, Typed
<1>2. IF conn.dead \/ n = None
      THEN conn' = [conn EXCEPT !.retry.run = None] /\ UNCHANGED budget
      ELSE \E src \in SourceOf(copy, f, i), k \in 0..c.kind.flows :
             /\ conn' = Subsockets(c, copy, f, j, i, src, k)
             /\ Connects(src, k)
  BY DEF RetryStep
<1>3. CASE conn.dead \/ n = None
  <2>1. conn' = [conn EXCEPT !.retry.run = None]
    BY <1>2, <1>3
  <2>2. n = None => \A g \in Family, k \in Slot, l \in Slot : l \notin ToRetry(conn, g, k)
    <3> SUFFICES ASSUME n = None, NEW g \in Family, NEW k \in Slot, NEW l \in Slot
                 PROVE  l \notin ToRetry(conn, g, k)
      OBVIOUS
    <3>1. todo = {}
      <4>1. todo \in SUBSET Pairs /\ NextPair(todo) = None
        OBVIOUS
      <4> HIDE DEF todo
      <4> QED
        BY <4>1, NoPairLeft
    <3>2. <<g, k, l>> \in Pairs
      BY DEF Pairs
    <3> QED
      BY <3>1, <3>2
  <2> QED
    BY <1>3, <2>1, <2>2 DEF RetrySteps
<1>4. CASE ~ (conn.dead \/ n = None)
  <2>1. todo \in SUBSET Pairs
    OBVIOUS
  <2>2. n \in todo /\ f \in Family /\ j \in Slot /\ i \in Slot
    <3>1. n = NextPair(todo) /\ f = n[1] /\ j = n[2] /\ i = n[3]
      OBVIOUS
    <3> HIDE DEF todo, n, f, j, i
    <3>2. todo # {}
      BY <1>4, <2>1, <3>1, NoPairLeft
    <3>3. LET m == NextPair(todo)
          IN  m \in todo /\ m[1] \in Family /\ m[2] \in Slot /\ m[3] \in Slot
      BY <2>1, <3>2, NextPairOf
    <3> QED
      BY <3>1, <3>3
  <2>3. i \in ToRetry(conn, f, j)
    <3> HIDE DEF n
    <3> QED
      BY <2>2
  <2>4. \E src \in SourceOf(copy, f, i) : \E k : conn' = Subsockets(c, copy, f, j, i, src, k)
    BY <1>2, <1>4
  <2> HIDE DEF n, f, j, i, copy, S
  <2>5. conn.rem[f][j] # None /\ i \in conn.rem[f][j].retry /\ IsRemote(conn.rem[f][j])
    BY <1>1, <2>2, <2>3 DEF ToRetry, IsRem
  <2>6. c = d
    <3>1. b.rem[f][j].retry = conn.rem[f][j].retry /\ b.late = conn.late
      BY <1>1, <2>2, <2>5 DEF IsConn, IsRem, IsRemote, ConnFields
    <3>2. r = [conn EXCEPT !.rem[f][j].bits = @ \cup {i}, !.rem[f][j].retry = @ \ {i}]
      BY <3>1
    <3>3. r.late = conn.late
      BY <1>1, <3>1 DEF IsConn, ConnFields
    <3> QED
      BY <3>2, <3>3
  <2> HIDE DEF c
  <2> QED
    BY <2>2, <2>4, <2>5, <2>6 DEF RetrySteps, TriesAgain, copy, S
<1> QED
  BY <1>3, <1>4

LEMMA RetryStepKeeps ==
  ASSUME FMInv, MeshInv, RetryStep
  PROVE  MeshInv'
<1> DEFINE t == ns.loc
           copy == conn.retry.run.loc
<1>1. conn.retry.run # None /\ ns' = ns
  BY DEF RetryStep
<1>2. /\ ConnInv(conn, t, ns.now) /\ IsNow(ns.now) /\ conn.phase = "open"
      /\ TableInv(copy) /\ TableInv(t) /\ IsRem(conn.rem)
      /\ "copy" \notin conn.late => CopyCurrent(conn.retry, t)
  BY <1>1 DEF FMInv, MeshInv, ConnInv, Typed, Begun, Idle, IsWork, Current
<1> SUFFICES ConnInv(conn', t, ns.now)
  BY <1>1, <1>2 DEF MeshInv
<1>3. CASE conn' = [conn EXCEPT !.retry.run = None]
  BY <1>2, <1>3, WorkGoesOn
<1>4. ASSUME NEW f \in Family, NEW j \in Slot, NEW i \in Slot, TriesAgain(conn, conn', f, j, i)
      PROVE  ConnInv(conn', t, ns.now)
  <2> DEFINE S == Outdated(copy, f, i)
             b == [conn EXCEPT !.rem[f][j].bits = @ \cup {i}]
             r == [b EXCEPT !.rem[f][j].retry = @ \ {i}]
             d == [r EXCEPT !.late = @ \cup S]
  <2>0. conn.rem[f][j] # None
    BY <1>4 DEF TriesAgain
  <2>1. PICK src \in SourceOf(copy, f, i) : \E k : conn' = Subsockets(d, copy, f, j, i, src, k)
    BY <1>4 DEF TriesAgain
  <2> HIDE DEF S, t
  <2>2. ConnInv(b, t, ns.now) /\ Keeps(conn, b, {"rem"}) /\ IsRemote(b.rem[f][j])
    <3>1. IsRemote(conn.rem[f][j])
      BY <1>2, <2>0 DEF IsRem
    <3>2. Marked(conn, b, f, j, i)
      BY DEF Marked
    <3> HIDE DEF b
    <3> QED
      BY <1>2, <3>1, <3>2, RowKeeps
  <2>3. ConnInv(r, t, ns.now) /\ Keeps(b, r, {"rem"})
    <3>1. Marked(b, r, f, j, i)
      BY DEF Marked
    <3>2. b.phase # "none"
      BY <1>2, <2>2 DEF Keeps, ConnFields
    <3> HIDE DEF b, r
    <3> QED
      BY <2>2, <3>1, <3>2, RowKeeps
  <2>4. r.phase = "open" /\ r.late = conn.late
    BY <1>2, <2>2, <2>3 DEF Keeps, ConnFields
  <2>5. ConnInv(d, t, ns.now) /\ d.late = conn.late \cup S /\ d.phase = "open"
    <3>1. ConnInv(d, t, ns.now) /\ Keeps(r, d, {"late"}) /\ d.late = r.late \cup S
      <4> HIDE DEF r
      <4> QED
        BY <2>3, <2>4, LateKeeps
    <3> QED
      BY <2>4, <3>1 DEF Keeps, ConnFields
  <2> HIDE DEF d
  <2>6. src \in Addr
    <3>1. copy[f].addr[i] \in Addr \cup {None}
      BY <1>2 DEF TableInv, Table
    <3> QED
      BY <2>1, <3>1 DEF SourceOf
  <2>7. "copy" \notin d.late => InTable(t, src)
    <3> SUFFICES ASSUME "copy" \notin d.late PROVE InTable(t, src)
      OBVIOUS
    <3>1. "copy" \notin conn.late /\ i \in copy[f].bits
      BY <2>5 DEF Outdated, S
    <3>2. src = copy[f].addr[i]
      BY <1>2, <2>1, <3>1, SlotAddresses DEF SourceOf
    <3> QED
      BY <1>1, <1>2, <3>1, <3>2 DEF CopyCurrent
  <2> HIDE DEF copy
  <2> QED
    BY <2>1, <2>5, <2>6, <2>7, SubsocketsKeep
<1> QED
  BY <1>3, <1>4, RetryStepIs DEF RetrySteps

(***************************************************************************)
(* Options, joins and the ends of subflows                                 *)
(***************************************************************************)

\* A change of fields that the workers and the slots do not depend on.
LEMMA LooseKept ==
  ASSUME NEW c, NEW t, NEW e, ConnInv(c, t, e), c.phase # "none", NEW d,
         Keeps(c, d, {"sub", "master", "infinite", "dead", "late"}),
         c.infinite => d.infinite, c.late \subseteq d.late, SubsOf(c, d)
  PROVE  ConnInv(d, t, e)
<1>1. /\ Keeps(c, d, Loose) /\ d.add = c.add /\ d.remove = c.remove /\ d.rem = c.rem
  BY DEF Keeps, ConnFields, Loose
<1>2. c.add \in Nat /\ c.remove \in SUBSET Lid /\ IsRem(c.rem)
  BY DEF ConnInv, Typed
<1> QED
  BY <1>1, <1>2, InvKept DEF SubsOf

LEMMA AddAddrKeeps ==
  ASSUME FMInv, MeshInv, RecvAddAddr
  PROVE  MeshInv'
<1>1. conn.phase = "open" /\ ns' = ns
  BY DEF RecvAddAddr, Hears, Live
<1>2. ConnInv(conn, ns.loc, ns.now) /\ IsNow(ns.now)
  BY DEF MeshInv
<1>3. CASE conn' = conn
  BY <1>1, <1>2, <1>3 DEF MeshInv
<1>4. ASSUME NEW c, NEW d, PeersOf(conn, c), Keeps(c, d, {"late"}), c.late \subseteq d.late,
             conn' = CreateSubflows(d)
      PROVE  MeshInv'
  <2>1. ConnInv(c, ns.loc, ns.now) /\ c.phase = "open"
    BY <1>1, <1>2, <1>4, PeersKept DEF PeersOf, Keeps, ConnFields
  <2>2. /\ Keeps(c, d, {"sub", "master", "infinite", "dead", "late"}) /\ d.infinite = c.infinite
        /\ d.sub = c.sub /\ d.phase = "open"
    BY <1>4, <2>1 DEF Keeps, ConnFields
  <2>3. SubsOf(c, d)
    BY <2>1, <2>2 DEF SubsOf, ConnInv, Typed
  <2>4. ConnInv(d, ns.loc, ns.now)
    BY <1>4, <2>1, <2>2, <2>3, LooseKept
  <2> QED
    BY <1>1, <1>2, <1>4, <2>2, <2>4, CreateKept DEF MeshInv
<1> QED
  BY <1>3, <1>4, AddAddrIs

LEMMA RemAddrKeeps ==
  ASSUME FMInv, MeshInv, RecvRemAddr
  PROVE  MeshInv'
<1>1. PICK id : conn' = Closed(RemRaddr(conn, id), {s \in DOMAIN conn.sub : s.rid = id})
  BY DEF RecvRemAddr
<1> DEFINE c == RemRaddr(conn, id)
           S == {s \in DOMAIN conn.sub : s.rid = id}
<1>2. conn.phase = "open" /\ ns' = ns
  BY DEF RecvRemAddr, Hears, Live
<1>3. ConnInv(conn, ns.loc, ns.now) /\ IsNow(ns.now) /\ IsConn(conn) /\ IsRem(conn.rem)
  BY DEF MeshInv, ConnInv, Typed
<1>4. PeersOf(conn, c)
  BY <1>3, RemRaddrPeers
<1>5. conn' = Closed(c, S)
  BY <1>1
<1> HIDE DEF c, S
<1>6. ConnInv(c, ns.loc, ns.now) /\ c.phase # "none"
  <2>1. c.phase = conn.phase
    BY <1>4 DEF PeersOf, Keeps, ConnFields
  <2> QED
    BY <1>2, <1>3, <1>4, <2>1, PeersKept
<1>7. IsConn(c) /\ c.remove \in SUBSET Lid /\ \A s \in DOMAIN c.sub : IsSub(s)
  BY <1>6 DEF ConnInv, Typed
<1>8. Keeps(c, conn', {"sub"}) /\ SubsOf(c, conn')
  BY <1>5, <1>7, ClosedSubs
<1>9. /\ Keeps(c, conn', {"sub", "remove"}) /\ conn'.remove \in SUBSET Lid
  BY <1>7, <1>8 DEF Keeps, ConnFields
<1>10. ConnInv(conn', ns.loc, ns.now)
  BY <1>6, <1>8, <1>9, SubsOfKept
<1> QED
  BY <1>2, <1>3, <1>10 DEF MeshInv

LEMMA LostKeeps ==
  ASSUME FMInv, MeshInv, SubflowLost
  PROVE  MeshInv'
<1>1. PICK s \in {x \in DOMAIN conn.sub : x.open} :
        conn' = [conn EXCEPT !.sub = (@ (-) SetToBag({s})) (+) SetToBag({[s EXCEPT !.open = FALSE]})]
  BY DEF SubflowLost
<1> DEFINE r == [s EXCEPT !.open = FALSE]
           b == (conn.sub (-) SetToBag({s})) (+) SetToBag({r})
<1>2. conn.phase = "open" /\ ns' = ns
  BY DEF SubflowLost
<1>3. /\ ConnInv(conn, ns.loc, ns.now) /\ IsNow(ns.now) /\ IsConn(conn)
      /\ \A u \in DOMAIN conn.sub : IsSub(u)
  BY DEF MeshInv, ConnInv, Typed
<1>4. IsSub(r) /\ r.src = s.src /\ r.open = FALSE
  <2>1. IsSub(s)
    BY <1>1, <1>3
  <2> QED
    BY <2>1 DEF IsSub, SubFields
<1>5. DOMAIN b \subseteq DOMAIN conn.sub \cup {r}
  <2> DEFINE A == conn.sub (-) SetToBag({s})
             B == SetToBag({r})
  <2>1. DOMAIN A \subseteq DOMAIN conn.sub /\ DOMAIN B = {r}
    BY BagMinus, BagOfSet
  <2> HIDE DEF A, B, r
  <2>2. DOMAIN (A (+) B) = DOMAIN A \cup DOMAIN B
    BY BagPlus
  <2> QED
    BY <2>1, <2>2 DEF A, B
<1>6. conn' = [conn EXCEPT !.sub = b]
  BY <1>1
<1> HIDE DEF r, b
<1>7. Keeps(conn, conn', {"sub"}) /\ conn'.sub = b
  BY <1>3, <1>6 DEF IsConn, Keeps, ConnFields
<1>8. Keeps(conn, conn', {"sub", "remove"}) /\ conn'.remove \in SUBSET Lid
  BY <1>3, <1>7 DEF Keeps, ConnFields, ConnInv, Typed
<1>9. SubsOf(conn, conn')
  BY <1>1, <1>3, <1>4, <1>5, <1>7 DEF SubsOf
<1>10. ConnInv(conn', ns.loc, ns.now)
  BY <1>2, <1>3, <1>8, <1>9, SubsOfKept
<1> QED
  BY <1>2, <1>3, <1>10 DEF MeshInv

LEMMA ReapKeeps ==
  ASSUME FMInv, MeshInv, Reap
  PROVE  MeshInv'
<1>1. PICK s \in {x \in DOMAIN conn.sub : ~x.open} :
        conn' = [conn EXCEPT !.sub = @ (-) SetToBag({s}),
                             !.master = IF s.master THEN "gone" ELSE @,
                             !.late = IF s.master /\ conn.master = "new" THEN @ \cup {"early"} ELSE @]
  BY DEF Reap
<1> DEFINE b == conn.sub (-) SetToBag({s})
           m == IF s.master THEN "gone" ELSE conn.master
           l == IF s.master /\ conn.master = "new" THEN conn.late \cup {"early"} ELSE conn.late
<1>2. conn.phase = "open" /\ ns' = ns
  BY DEF Reap
<1>3. /\ ConnInv(conn, ns.loc, ns.now) /\ IsNow(ns.now) /\ IsConn(conn)
      /\ \A u \in DOMAIN conn.sub : IsSub(u)
  BY DEF MeshInv, ConnInv, Typed
<1>4. DOMAIN b \subseteq DOMAIN conn.sub
  BY BagMinus
<1>5. conn.late \subseteq l
  OBVIOUS
<1>6. conn' = [conn EXCEPT !.sub = b, !.master = m, !.late = l]
  BY <1>1
<1> HIDE DEF b, m, l
<1>7. Keeps(conn, conn', {"sub", "master", "late"}) /\ conn'.sub = b /\ conn'.late = l
  BY <1>3, <1>6 DEF IsConn, Keeps, ConnFields
<1>8. Keeps(conn, conn', {"sub", "master", "infinite", "dead", "late"})
      /\ conn'.infinite = conn.infinite
  BY <1>7 DEF Keeps, ConnFields
<1>9. SubsOf(conn, conn')
  BY <1>3, <1>4, <1>7 DEF SubsOf
<1>10. ConnInv(conn', ns.loc, ns.now)
  BY <1>2, <1>3, <1>5, <1>7, <1>8, <1>9, LooseKept
<1> QED
  BY <1>2, <1>3, <1>10 DEF MeshInv

LEMMA EndsKeep ==
  ASSUME FMInv, MeshInv, Ends
  PROVE  MeshInv'
<1>1. /\ conn.phase = "open" /\ ns' = ns
      /\ conn' = [conn EXCEPT !.dead = TRUE] \/ conn' = [conn EXCEPT !.infinite = TRUE]
  BY DEF Ends, Live
<1>2. /\ ConnInv(conn, ns.loc, ns.now) /\ IsNow(ns.now) /\ IsConn(conn)
      /\ \A u \in DOMAIN conn.sub : IsSub(u)
  BY DEF MeshInv, ConnInv, Typed
<1>3. Keeps(conn, conn', {"dead", "infinite"}) /\ (conn.infinite => conn'.infinite)
  BY <1>1, <1>2 DEF IsConn, Keeps, ConnFields
<1>4. Keeps(conn, conn', {"sub", "master", "infinite", "dead", "late"})
      /\ conn'.sub = conn.sub /\ conn'.late = conn.late
  BY <1>3 DEF Keeps, ConnFields
<1>5. SubsOf(conn, conn')
  BY <1>2, <1>4 DEF SubsOf
<1>6. ConnInv(conn', ns.loc, ns.now)
  BY <1>1, <1>2, <1>3, <1>4, <1>5, LooseKept
<1> QED
  BY <1>1, <1>2, <1>6 DEF MeshInv

\* A join is there, gone or done: only its request changes.
LEMMA RequestKept ==
  ASSUME NEW c, NEW t, NEW e, ConnInv(c, t, e), c.phase # "none", NEW q, IsReq(q),
         "copy" \notin c.late /\ q # None => InTable(t, q.src)
  PROVE  ConnInv([c EXCEPT !.req = q], t, e)
<1> DEFINE d == [c EXCEPT !.req = q]
<1>1. IsConn(c) /\ IsWork(c.work) /\ IsWork(c.retry) /\ Current(c, t)
  BY DEF ConnInv, Typed
<1>2. Keeps(c, d, {"req"}) /\ d.req = q
  BY <1>1 DEF IsConn, Keeps, ConnFields
<1> HIDE DEF d
<1>3. Keeps(c, d, {"work", "retry", "req"}) /\ d.work = c.work /\ d.retry = c.retry
  BY <1>2 DEF Keeps, ConnFields
<1>4. ConnInv(d, t, e)
  BY <1>1, <1>2, <1>3, WorkKept DEF Current
<1> QED
  BY <1>4 DEF d

LEMMA RequestKeeps ==
  ASSUME FMInv, MeshInv, JoinRequest
  PROVE  MeshInv'
<1>1. PICK a \in Addr, r \in RemAddrs :
        LET f == Fam(a)
            i == FindAddress(ns.loc, a)
        IN  /\ dev[a].up /\ r.fam = f /\ i # None
            /\ conn' = [conn EXCEPT !.req = [src |-> a, dst |-> r.addr, lid |-> LocId(f, i),
                                             rid |-> r.id, low |-> ns.loc[f].low[i]]]
  BY DEF JoinRequest
<1> DEFINE f == Fam(a)
           i == FindAddress(ns.loc, a)
           low == ns.loc[f].low[i]
           lid == LocId(f, i)
           q == [src |-> a, dst |-> r.addr, lid |-> lid, rid |-> r.id, low |-> low]
<1>2. conn.phase = "open" /\ ns' = ns /\ TableInv(ns.loc)
  BY DEF JoinRequest, Hears, Live, FMInv
<1>3. ConnInv(conn, ns.loc, ns.now) /\ IsNow(ns.now)
  BY DEF MeshInv
<1>4. i # None /\ conn' = [conn EXCEPT !.req = q]
  BY <1>1
<1>5. i \in Slot /\ f \in Family
  <2>1. i \in ns.loc[f].bits
    BY <1>2, <1>4, FindAddressFinds
  <2>2. f \in Family
    BY FamilyOf
  <2> HIDE DEF f, i
  <2> QED
    BY <1>2, <2>1, <2>2 DEF TableInv, Table
<1>6. InTable(ns.loc, a)
  BY <1>2, <1>4, FoundInTable
<1> HIDE DEF i, f, low
<1>7. lid \in Lid
  BY <1>5, LidOfSlot
<1> HIDE DEF lid
<1>8. IsReq(q) /\ q.src = a
  BY <1>7 DEF IsReq
<1> HIDE DEF q
<1>9. ConnInv(conn', ns.loc, ns.now)
  BY <1>2, <1>3, <1>4, <1>6, <1>8, RequestKept
<1> QED
  BY <1>2, <1>3, <1>9 DEF MeshInv

LEMMA JoinKeeps ==
  ASSUME FMInv, MeshInv, JoinDone
  PROVE  MeshInv'
<1> DEFINE q == conn.req
           d == WithSubflows(conn, q.src, q.dst, q.lid, q.rid, q.low, 1)
<1>1. conn.phase = "open" /\ ns' = ns /\ q # None /\ conn' = [d EXCEPT !.req = None]
  BY DEF JoinDone, Hears, Live
<1>2. /\ ConnInv(conn, ns.loc, ns.now) /\ IsNow(ns.now)
      /\ Current(conn, ns.loc) /\ q.src \in Addr /\ q.lid \in Lid
  BY <1>1 DEF MeshInv, ConnInv, Typed, IsReq
<1>3. conn.late \cap {"copy", "source"} = {} => InTable(ns.loc, q.src)
  BY <1>1, <1>2 DEF Current
<1>4. ConnInv(d, ns.loc, ns.now) /\ Keeps(conn, d, {"sub", "told"})
  <2> HIDE DEF q
  <2> QED
    BY <1>1, <1>2, <1>3, SubflowsKeep
<1> HIDE DEF d
<1>5. d.phase # "none"
  BY <1>1, <1>4 DEF Keeps, ConnFields
<1>6. ConnInv(conn', ns.loc, ns.now)
  BY <1>1, <1>4, <1>5, RequestKept DEF IsReq
<1> QED
  BY <1>1, <1>2, <1>6 DEF MeshInv

LEMMA ExpiryKeeps ==
  ASSUME FMInv, MeshInv, JoinExpires
  PROVE  MeshInv'
<1>1. ns' = ns /\ conn.req # None /\ conn' = [conn EXCEPT !.req = None]
  BY DEF JoinExpires
<1>2. ConnInv(conn, ns.loc, ns.now) /\ IsNow(ns.now) /\ conn.phase # "none"
  BY <1>1 DEF MeshInv, ConnInv, Typed, Begun, Idle
<1>3. ConnInv(conn', ns.loc, ns.now)
  BY <1>1, <1>2, RequestKept DEF IsReq
<1> QED
  BY <1>1, <1>2, <1>3 DEF MeshInv

\* Addresses are announced: add, ann, remove and told may change.
LEMMA SignalKept ==
  ASSUME NEW c, NEW t, NEW e, ConnInv(c, t, e), c.phase # "none", NEW d,
         Keeps(c, d, {"add", "ann", "remove", "told"}), d.add \in Nat, d.remove \in SUBSET Lid,
         d.ann \in [Family -> SUBSET Slot],
         \A f \in Family : d.ann[f] \subseteq c.ann[f] \cup t[f].bits
  PROVE  ConnInv(d, t, e)
<1>1. /\ IsConn(d) /\ d.phase = c.phase /\ d.kind = c.kind /\ d.source = c.source /\ d.pm = c.pm
      /\ d.infinite = c.infinite /\ d.owned = c.owned /\ d.sub = c.sub /\ d.req = c.req
      /\ d.rem = c.rem /\ d.work = c.work /\ d.retry = c.retry /\ d.late = c.late
  BY DEF Keeps, ConnFields
<1>2. Typed(d)
  BY <1>1 DEF ConnInv, Typed, Begun
<1>3. SlotsKnown(d, t, e)
  <2>1. SlotsKnown(c, t, e)
    BY DEF ConnInv
  <2> QED
    BY <1>1, <2>1 DEF SlotsKnown, Serving, Concerns
<1>4. FromTable(d, t, e)
  BY <1>1 DEF ConnInv, FromTable, Serving, Concerns
<1>5. Current(d, t)
  BY <1>1 DEF ConnInv, Current
<1> QED
  BY <1>2, <1>3, <1>4, <1>5 DEF ConnInv

LEMMA AnnouncedAdds ==
  ASSUME NEW c, Typed(c), c.add > 0, NEW t, TableInv(t), NEW f \in Family,
         t[f].bits \ c.ann[f] # {}
  PROVE  LET d == Announced(c, t, f)
         IN  /\ Keeps(c, d, {"add", "ann", "told"}) /\ d.add \in Nat
             /\ d.ann \in [Family -> SUBSET Slot]
             /\ \A g \in Family : d.ann[g] \subseteq c.ann[g] \cup t[g].bits
<1> DEFINE i == First(t[f].bits \ c.ann[f])
           a == t[f].addr[i]
           d == [c EXCEPT !.ann[f] = @ \cup {i}, !.add = @ - 1, !.told = @ \cup {a}]
           ann == [c.ann EXCEPT ![f] = @ \cup {i}]
           told == c.told \cup {a}
           add == c.add - 1
<1>1. Announced(c, t, f) = d
  BY DEF Announced
<1>2. i \in t[f].bits \ c.ann[f]
  <2> DEFINE S == t[f].bits \ c.ann[f]
  <2>1. S \in SUBSET Slot
    BY DEF TableInv, Table
  <2>2. S # {}
    OBVIOUS
  <2> HIDE DEF S
  <2>3. First(S) \in S
    BY <2>1, <2>2, FirstSlot
  <2> QED
    BY <2>3 DEF S
<1>3. i \in Slot
  <2> HIDE DEF i
  <2> QED
    BY <1>2 DEF TableInv, Table
<1> HIDE DEF i, a
<1>4. /\ ann \in [Family -> SUBSET Slot]
      /\ \A g \in Family : ann[g] \subseteq c.ann[g] \cup t[g].bits
  BY <1>2, <1>3 DEF Typed
<1>5. add \in Nat
  BY DEF Typed
<1>6. d = [c EXCEPT !.ann = ann, !.add = add, !.told = told]
  BY DEF Typed, IsConn, ConnFields
<1> HIDE DEF ann, add, told, d
<1>7. Keeps(c, d, {"add", "ann", "told"}) /\ d.ann = ann /\ d.add = add
  BY <1>6 DEF Typed, IsConn, Keeps, ConnFields
<1> QED
  BY <1>1, <1>4, <1>5, <1>7

LEMMA SignalAnnounces ==
  ASSUME FMInv, MeshInv, AddrSignal
  PROVE  /\ Keeps(conn, conn', {"add", "ann", "remove", "told"})
         /\ conn'.add \in Nat /\ conn'.remove \in SUBSET Lid
         /\ conn'.ann \in [Family -> SUBSET Slot]
         /\ \A f \in Family : conn'.ann[f] \subseteq conn.ann[f] \cup ns.loc[f].bits
<1>1. PICK room \in SUBSET Family, fits \in BOOLEAN :
        LET c == AddressSignalled(conn, ns.loc, room)
        IN  conn' = IF fits THEN [c EXCEPT !.remove = {}] ELSE c
  BY DEF AddrSignal
<1> DEFINE c == AddressSignalled(conn, ns.loc, room)
           t == ns.loc
           new(f) == IF Concerns(conn, f) THEN t[f].bits \ conn.ann[f] ELSE {}
<1>2. TableInv(t)
  BY DEF FMInv
<1>3. Typed(conn)
  BY DEF MeshInv, ConnInv
<1>4. \/ c = conn
      \/ c = [conn EXCEPT !.add = @ - 1] /\ conn.add > 0
      \/ \E f \in Family : conn.add > 0 /\ t[f].bits \ conn.ann[f] # {} /\ c = Announced(conn, t, f)
  <2>1. conn.add = 0 \/ conn.add > 0
    BY <1>3 DEF Typed
  <2>2. \A f : new(f) # {} => t[f].bits \ conn.ann[f] # {}
    OBVIOUS
  <2>3. CASE conn.add = 0
    <3>1. c = conn
      BY <2>3 DEF AddressSignalled
    <3> QED
      BY <3>1
  <2>4. CASE conn.add > 0 /\ new(4) # {} /\ 4 \in room
    <3>1. c = Announced(conn, t, 4)
      BY <2>4 DEF AddressSignalled
    <3> QED
      BY <2>2, <2>4, <3>1 DEF Family
  <2>5. CASE conn.add > 0 /\ (new(4) = {} \/ 4 \notin room) /\ new(6) # {} /\ 6 \in room
    <3>1. c = Announced(conn, t, 6)
      BY <2>5 DEF AddressSignalled
    <3> QED
      BY <2>2, <2>5, <3>1 DEF Family
  <2>6. CASE /\ conn.add > 0 /\ ~(new(4) # {} /\ 4 \in room)
             /\ ~((new(4) = {} \/ 4 \notin room) /\ new(6) # {} /\ 6 \in room)
    <3>1. c = IF new(4) = {} /\ new(6) = {} THEN [conn EXCEPT !.add = @ - 1] ELSE conn
      BY <2>6 DEF AddressSignalled
    <3> HIDE DEF c, new
    <3> QED
      BY <2>6, <3>1
  <2> HIDE DEF c, new, t
  <2> QED
    BY <2>1, <2>3, <2>4, <2>5, <2>6
<1>5. conn' = c \/ conn' = [c EXCEPT !.remove = {}]
  BY <1>1
<1> HIDE DEF c, t
<1>6. /\ Keeps(conn, c, {"add", "ann", "told"}) /\ c.add \in Nat
      /\ c.ann \in [Family -> SUBSET Slot]
      /\ \A g \in Family : c.ann[g] \subseteq conn.ann[g] \cup t[g].bits
  <2>1. CASE c = conn
    BY <1>3, <2>1 DEF Typed, Keeps
  <2>2. CASE c = [conn EXCEPT !.add = @ - 1] /\ conn.add > 0
    <3>1. Keeps(conn, c, {"add"}) /\ c.add = conn.add - 1
      BY <1>3, <2>2 DEF Typed, IsConn, Keeps, ConnFields
    <3>2. c.ann = conn.ann
      BY <3>1 DEF Keeps, ConnFields
    <3>3. Keeps(conn, c, {"add", "ann", "told"})
      BY <3>1 DEF Keeps
    <3>4. c.add \in Nat
      BY <1>3, <2>2, <3>1 DEF Typed
    <3> QED
      BY <1>3, <3>2, <3>3, <3>4 DEF Typed
  <2>3. CASE \E f \in Family :
               conn.add > 0 /\ t[f].bits \ conn.ann[f] # {} /\ c = Announced(conn, t, f)
    BY <1>2, <1>3, <2>3, AnnouncedAdds
  <2> QED
    BY <1>4, <2>1, <2>2, <2>3
<1>7. c.remove = conn.remove /\ conn.remove \in SUBSET Lid /\ {} \in SUBSET Lid
  BY <1>3, <1>6 DEF Keeps, ConnFields, Typed
<1>8. /\ Keeps(conn, conn', {"add", "ann", "remove", "told"})
      /\ conn'.add = c.add /\ conn'.ann = c.ann /\ conn'.remove \in {c.remove, {}}
  BY <1>5, <1>6 DEF IsConn, Keeps, ConnFields
<1> QED
  BY <1>6, <1>7, <1>8 DEF t

LEMMA SignalKeeps ==
  ASSUME FMInv, MeshInv, AddrSignal
  PROVE  MeshInv'
<1>1. conn.phase = "open" /\ ns' = ns
  BY DEF AddrSignal, Live
<1>2. ConnInv(conn, ns.loc, ns.now) /\ IsNow(ns.now)
  BY DEF MeshInv
<1>3. ConnInv(conn', ns.loc, ns.now)
  BY <1>1, <1>2, SignalAnnounces, SignalKept
<1> QED
  BY <1>1, <1>2, <1>3 DEF MeshInv

LEMMA DeviceKeeps ==
  ASSUME FMInv, MeshInv, NEW a \in Addr, DeviceChanges(a)
  PROVE  MeshInv'
<1>1. conn' = conn /\ \E q : ns' = [ns EXCEPT !.events = q]
  BY DEF DeviceChanges
<1>2. ns = [loc |-> ns.loc, events |-> ns.events, now |-> ns.now]
  BY DEF FMInv
<1>3. ns'.loc = ns.loc /\ ns'.now = ns.now
  BY <1>1, <1>2
<1> QED
  BY <1>1, <1>3 DEF MeshInv

LEMMA InitKeeps ==
  Init => MeshInv
<1> SUFFICES ASSUME Init PROVE MeshInv
  OBVIOUS
<1>1. PICK k \in Cases : conn = NoConnection(k.kind)
  BY DEF Init
<1>2. ns.now = None /\ k.kind.flows \in Nat
  BY FullMeshAssumption DEF Init
<1> DEFINE kind == k.kind
<1> HIDE DEF kind
<1>3. conn = NoConnection(kind) /\ kind.flows \in Nat
  BY <1>1, <1>2 DEF kind
<1>4. /\ conn.phase = "none" /\ conn.kind = kind /\ conn.sub = EmptyBag /\ conn.req = None
      /\ conn.add = 0 /\ conn.remove = {} /\ conn.owned = FALSE /\ conn.rem = NoTable
      /\ conn.work = [pending |-> FALSE, run |-> None]
      /\ conn.retry = [pending |-> FALSE, run |-> None]
      /\ conn.ann = [f \in Family |-> {}]
  BY <1>3 DEF NoConnection
<1>5. IsConn(conn)
  BY <1>3 DEF NoConnection, IsConn, ConnFields
<1>6. DOMAIN conn.sub = {}
  BY <1>4, BagOfSet
<1>7. IsWork(conn.work) /\ IsWork(conn.retry) /\ IsReq(conn.req)
  BY <1>4 DEF IsWork, IsReq
<1>8. IsRem(conn.rem)
  BY <1>4 DEF IsRem, NoTable
<1>9. Typed(conn)
  <2>1. Idle(conn)
    BY <1>4, <1>6 DEF Idle
  <2>2. conn.ann \in [Family -> SUBSET Slot] /\ conn.add \in Nat /\ conn.remove \in SUBSET Lid
    BY <1>4
  <2> QED
    BY <1>3, <1>4, <1>5, <1>6, <1>7, <1>8, <2>1, <2>2 DEF Typed, Begun
<1>10. SlotsKnown(conn, ns.loc, ns.now) /\ FromTable(conn, ns.loc, ns.now) /\ Current(conn, ns.loc)
  BY <1>4 DEF SlotsKnown, FromTable, Serving, Current, CopyCurrent
<1> QED
  BY <1>2, <1>9, <1>10 DEF MeshInv, ConnInv, IsNow

LEMMA StepKeeps ==
  FMInv /\ MeshInv /\ [Next]_vars => MeshInv'
<1> SUFFICES ASSUME FMInv, MeshInv, [Next]_vars PROVE MeshInv'
  OBVIOUS
<1>1. CASE \E a \in Addr : DeviceChanges(a)
  BY <1>1, DeviceKeeps
<1>2. CASE TakeEvent \/ ApplyEvent
  BY <1>2, TakeKeeps, ApplyKeeps
<1>3. CASE NewSession \/ FullyEstablished \/ Release
  BY <1>3, NewSessionKeeps, EstablishedKeeps, ReleaseKeeps
<1>4. CASE WorkerStart \/ WorkerStep \/ RetryStart \/ RetryStep
  BY <1>4, WorkerStartKeeps, WorkerStepKeeps, RetryStepKeeps
<1>5. CASE RecvAddAddr \/ RecvRemAddr \/ SubflowLost \/ Reap
  BY <1>5, AddAddrKeeps, RemAddrKeeps, LostKeeps, ReapKeeps
<1>6. CASE JoinRequest \/ JoinDone \/ JoinExpires \/ AddrSignal \/ Ends
  BY <1>6, RequestKeeps, JoinKeeps, ExpiryKeeps, SignalKeeps, EndsKeep
<1>7. CASE UNCHANGED vars
  BY <1>7 DEF vars, MeshInv
<1> QED
  BY <1>1, <1>2, <1>3, <1>4, <1>5, <1>6, <1>7 DEF Next

LEMMA TypesFollow ==
  FMInv /\ MeshInv => TypeOK
<1> SUFFICES ASSUME FMInv, MeshInv PROVE TypeOK
  OBVIOUS
<1>1. Typed(conn) /\ TableInv(ns.loc) /\ dev \in [Addr -> [up : BOOLEAN, low : BOOLEAN]]
  BY DEF FMInv, MeshInv, ConnInv
<1>2. ASSUME NEW f \in Family
      PROVE  /\ ns.loc[f].bits \subseteq Slot /\ ns.loc[f].next \in 0..MaxAddr
             /\ DOMAIN ns.loc[f].addr = Slot
             /\ conn.ann[f] \subseteq Slot
  BY <1>1 DEF TableInv, Table, Typed
<1>3. ASSUME NEW f \in Family, NEW j \in Slot, conn.rem[f][j] # None
      PROVE  conn.rem[f][j].bits \cup conn.rem[f][j].retry \subseteq Slot
  BY <1>1, <1>3 DEF Typed, IsRem, IsRemote
<1>4. ASSUME NEW s \in DOMAIN conn.sub
      PROVE  s.src \in Addr /\ Fam(s.src) \in Family /\ s.lid \in 0..2 * MaxAddr - 1
  BY <1>1, FamilyOf DEF Typed, IsSub, Lid
<1>5. conn.add \in Nat /\ conn.remove \subseteq 0..2 * MaxAddr - 1
  BY <1>1 DEF Typed, Lid
<1> QED
  BY <1>1, <1>2, <1>3, <1>4, <1>5 DEF TypeOK

LEMMA SourcesFollow ==
  FMInv /\ MeshInv => SourcesAreLocal
<1> SUFFICES ASSUME FMInv, MeshInv, Quiet, Serves PROVE SourcesAreLocal
  BY DEF SourcesAreLocal
<1>1. /\ Typed(conn) /\ TableInv(ns.loc) /\ SlotsKnown(conn, ns.loc, ns.now)
      /\ FromTable(conn, ns.loc, ns.now)
  BY DEF FMInv, MeshInv, ConnInv
<1>2. ns.now = None /\ ~conn.owned /\ Serving(conn)
  BY DEF Quiet, Serves, Live, Serving
<1>3. ASSUME conn.late \cap {"copy", "source"} = {}, NEW s \in DOMAIN conn.sub, s.open,
             Concerns(conn, Fam(s.src))
      PROVE  FindAddress(ns.loc, s.src) # None
  <2>1. InTable(ns.loc, s.src)
    BY <1>1, <1>2, <1>3 DEF FromTable, Leaves
  <2>2. s.src \in Addr
    BY <1>1 DEF Typed, IsSub
  <2> QED
    BY <1>1, <2>1, <2>2, FoundInTable
<1>4. ASSUME NEW f \in Family, Concerns(conn, f)
      PROVE  conn.ann[f] \subseteq ns.loc[f].bits
  BY <1>1, <1>2, <1>4 DEF SlotsKnown, LeavesFam
<1> QED
  BY <1>3, <1>4 DEF SourcesAreLocal

(***************************************************************************)
(* The state keeps its types: the slots a connection notes as announced or *)
(* tried are bits of loc4_bits or loc6_bits, of MPTCP_MAX_ADDR bits each,  *)
(* and every subflow and every address to remove has an identifier of one  *)
(* of their slots (mptcp_fullmesh.c).                                      *)
(***************************************************************************)
THEOREM TypesHold == Spec => []TypeOK
<1>1. Init => FMInv /\ MeshInv
  BY InitMeets, InitKeeps
<1>2. FMInv /\ MeshInv /\ [Next]_vars => FMInv' /\ MeshInv'
  BY StepMeets, StepKeeps
<1>3. FMInv /\ MeshInv => TypeOK
  BY TypesFollow
<1> QED
  BY <1>1, <1>2, <1>3, PTL DEF Spec

(***************************************************************************)
(* However the removal of an address meets with the workers and the joins: *)
(* once all is quiet no subflow is open from an address that has gone and  *)
(* no connection has the bit of a slot out of use, be it by                *)
(* mptcp_address_worker() or, where the user owned the socket, by          *)
(* full_mesh_release_sock() (mptcp_fullmesh.c:1480).                       *)
(***************************************************************************)
THEOREM NoSourceLeftOver == Spec => []SourcesAreLocal
<1>1. Init => FMInv /\ MeshInv
  BY InitMeets, InitKeeps
<1>2. FMInv /\ MeshInv /\ [Next]_vars => FMInv' /\ MeshInv'
  BY StepMeets, StepKeeps
<1>3. FMInv /\ MeshInv => SourcesAreLocal
  BY SourcesFollow
<1> QED
  BY <1>1, <1>2, <1>3, PTL DEF Spec

(***************************************************************************)
(* The priorities of the subflows                                          *)
(***************************************************************************)

\* The subflows PrioFollows speaks of.
Graded(s) == s.open /\ Fam(s.src) = 4

\* The history that PrioFollows asks for.
Timely(c) == c.late \cap {"copy", "prio"} = {}

\* The event takes this address away, or changes its priority.
Changing(e, a) == e # None /\ e.code # "add" /\ e.addr = a

\* The priority its address has in the table, or that of its creation.
Ranked(t, s) == HasEntry(t, s.src, s.low) \/ (FurtherOfFirstPair(s) /\ ~s.low)

\* A subflow has its priority, or gets it, or ends, with the event or at the release.
LowFits(c, t, e) ==
    Serving(c) /\ Concerns(c, 4) /\ Timely(c) =>
      \A s \in DOMAIN c.sub :
        Graded(s) => c.owned \/ Changing(e, s.src) \/ Ranked(t, s)

\* The table still has what the worker's copy has, with the priorities.
CopyFits(w, t) ==
    w.run # None => \A f \in Family : \A i \in w.run.loc[f].bits :
                      HasEntry(t, w.run.loc[f].addr[i], w.run.loc[f].low[i])

\* So it has what a join has seen.
Seen(c, t) ==
    Timely(c) =>
      /\ CopyFits(c.work, t) /\ CopyFits(c.retry, t)
      /\ c.req # None => HasEntry(t, c.req.src, c.req.low)

\* The event being applied tells what the table says.
NowFits(e, t) == e # None /\ e.code = "mod" => HasEntry(t, e.addr, e.low)

Agree(c, t, e) == LowFits(c, t, e) /\ Seen(c, t)

PrioInv == Agree(conn, ns.loc, ns.now) /\ NowFits(ns.now, ns.loc)

\* Fields in which the connection may change without becoming another one; the
\* common case, in which neither the workers nor the history change.
Aside == {"source", "master", "dead", "first", "sub", "add", "ann", "remove", "rem", "told"}
Spare == Aside \cup {"infinite", "work", "retry", "req", "late"}

\* The work items and the join are as they were, or have ended.
Onward(c, d) ==
    /\ d.work.run # None => c.work.run # None /\ d.work.run.loc = c.work.run.loc
    /\ d.retry.run # None => c.retry.run # None /\ d.retry.run.loc = c.retry.run.loc
    /\ d.req # None => d.req = c.req

LEMMA OnwardSeen ==
  ASSUME NEW c, NEW d, NEW t, Seen(c, t), Onward(c, d), c.late \subseteq d.late
  PROVE  Seen(d, t)
BY DEF Seen, Onward, CopyFits, Timely

\* The open subflows are old ones, or have the priority of their address.
LEMMA LowKept ==
  ASSUME NEW c, NEW d, NEW t, NEW e, LowFits(c, t, e), Keeps(c, d, Spare),
         c.infinite => d.infinite, c.late \subseteq d.late,
         Timely(d) => \A s \in DOMAIN d.sub : Graded(s) => s \in DOMAIN c.sub \/ Ranked(t, s)
  PROVE  LowFits(d, t, e)
<1>1. d.phase = c.phase /\ d.kind = c.kind /\ d.pm = c.pm /\ d.owned = c.owned
  BY DEF Keeps, ConnFields, Spare, Aside
<1>2. (Serving(d) => Serving(c)) /\ (Timely(d) => Timely(c))
  BY <1>1 DEF Serving, Timely
<1>3. Concerns(d, 4) <=> Concerns(c, 4)
  BY <1>1 DEF Concerns
<1> SUFFICES ASSUME Serving(d), Concerns(d, 4), Timely(d), NEW s \in DOMAIN d.sub, Graded(s)
             PROVE  d.owned \/ Changing(e, s.src) \/ Ranked(t, s)
  BY DEF LowFits
<1>4. CASE Ranked(t, s)
  BY <1>4
<1>5. CASE s \in DOMAIN c.sub
  BY <1>1, <1>2, <1>3, <1>5 DEF LowFits
<1> QED
  BY <1>4, <1>5

LEMMA AgreeKept ==
  ASSUME NEW c, NEW d, NEW t, NEW e, Agree(c, t, e), Keeps(c, d, Spare), Onward(c, d),
         c.infinite => d.infinite, c.late \subseteq d.late,
         Timely(d) => \A s \in DOMAIN d.sub : Graded(s) => s \in DOMAIN c.sub \/ Ranked(t, s)
  PROVE  Agree(d, t, e)
BY LowKept, OnwardSeen DEF Agree

LEMMA AgreeKeptSubs ==
  ASSUME NEW c, NEW d, NEW t, NEW e, Agree(c, t, e),
         Keeps(c, d, Aside),
         Timely(c) => \A s \in DOMAIN d.sub : Graded(s) => s \in DOMAIN c.sub \/ Ranked(t, s)
  PROVE  Agree(d, t, e)
<1>1. /\ Keeps(c, d, Spare) /\ d.late = c.late /\ d.infinite = c.infinite
      /\ d.work = c.work /\ d.retry = c.retry /\ d.req = c.req
  BY DEF Keeps, ConnFields, Spare, Aside
<1>2. Onward(c, d) /\ (Timely(d) => Timely(c))
  BY <1>1 DEF Onward, Timely
<1> QED
  BY <1>1, <1>2, AgreeKept

LEMMA CreateAgrees ==
  ASSUME NEW c, NEW t, NEW e, Agree(c, t, e), IsConn(c), IsWork(c.work)
  PROVE  Agree(CreateSubflows(c), t, e)
<1> DEFINE d == CreateSubflows(c)
<1>1. Keeps(c, d, {"work"}) /\ d.work.run = c.work.run
  BY CreateKeeps
<1> HIDE DEF d
<1>2. /\ Keeps(c, d, Spare) /\ d.late = c.late /\ d.infinite = c.infinite
      /\ d.retry = c.retry /\ d.req = c.req /\ d.sub = c.sub
  BY <1>1 DEF Keeps, ConnFields, Spare, Aside
<1>3. Onward(c, d)
  BY <1>1, <1>2 DEF Onward
<1>4. Agree(d, t, e)
  BY <1>2, <1>3, AgreeKept
<1> QED
  BY <1>4 DEF d

\* Subflows from an entry of the table, or the further ones of the first pair.
LEMMA SubflowsAgree ==
  ASSUME NEW c, IsConn(c), NEW t, NEW e, Agree(c, t, e), NEW src, NEW dst,
         NEW lid, NEW rid, NEW low, NEW k,
         Timely(c) => HasEntry(t, src, low) \/ (lid = 0 /\ low = FALSE)
  PROVE  Agree(WithSubflows(c, src, dst, lid, rid, low, k), t, e)
<1> DEFINE s == [src |-> src, dst |-> dst, lid |-> lid, rid |-> rid, low |-> low,
                 master |-> FALSE, open |-> TRUE]
           b == c.sub (+) [new \in {s} |-> k]
           told == c.told \cup {src}
           d == [c EXCEPT !.sub = b, !.told = told]
<1>1. WithSubflows(c, src, dst, lid, rid, low, k) = IF k = 0 THEN c ELSE d
  BY DEF WithSubflows
<1>2. s.src = src /\ s.low = low /\ s.lid = lid /\ s.master = FALSE
  OBVIOUS
<1>3. DOMAIN b = DOMAIN c.sub \cup {s}
  BY BagPlus
<1> HIDE DEF s, b, told
<1>4. Keeps(c, d, {"sub", "told"}) /\ d.sub = b
  BY DEF IsConn, Keeps, ConnFields
<1> HIDE DEF d
<1>5. Keeps(c, d, Aside)
  BY <1>4 DEF Keeps, ConnFields, Spare, Aside
<1>6. Timely(c) => \A u \in DOMAIN d.sub : Graded(u) => u \in DOMAIN c.sub \/ Ranked(t, u)
  BY <1>2, <1>3, <1>4 DEF Ranked, FurtherOfFirstPair
<1>7. Agree(d, t, e)
  BY <1>5, <1>6, AgreeKeptSubs
<1> QED
  BY <1>1, <1>7

LEMMA SubsocketsAgree ==
  ASSUME NEW c, IsConn(c), NEW t, NEW e, Agree(c, t, e), NEW copy, NEW f, NEW j, NEW i, NEW src,
         NEW k, Timely(c) => HasEntry(t, src, copy[f].low[i])
  PROVE  Agree(Subsockets(c, copy, f, j, i, src, k), t, e)
<1> DEFINE r == c.rem[f][j]
           lid == IF copy[f].addr[i] = None THEN 0 ELSE LocId(f, i)
           dst == r.addr
           rid == r.id
           low == copy[f].low[i]
<1>1. Subsockets(c, copy, f, j, i, src, k) = WithSubflows(c, src, dst, lid, rid, low, k)
  BY DEF Subsockets
<1>2. Timely(c) => HasEntry(t, src, low) \/ (lid = 0 /\ low = FALSE)
  OBVIOUS
<1> HIDE DEF lid, dst, rid, low
<1> QED
  BY <1>1, <1>2, SubflowsAgree

LEMMA DevicePrio ==
  ASSUME FMInv, PrioInv, NEW a \in Addr, DeviceChanges(a)
  PROVE  PrioInv'
<1>1. conn' = conn /\ \E q : ns' = [ns EXCEPT !.events = q]
  BY DEF DeviceChanges
<1>2. ns = [loc |-> ns.loc, events |-> ns.events, now |-> ns.now]
  BY DEF FMInv
<1>3. ns'.loc = ns.loc /\ ns'.now = ns.now
  BY <1>1, <1>2
<1> QED
  BY <1>1, <1>3 DEF PrioInv

LEMMA EstablishedPrio ==
  ASSUME FMInv, MeshInv, PrioInv, FullyEstablished
  PROVE  PrioInv'
<1> DEFINE d == [conn EXCEPT !.master = "est"]
<1>1. conn' = CreateSubflows(d) /\ ns' = ns
  BY DEF FullyEstablished
<1>2. IsConn(conn) /\ IsWork(conn.work)
  BY DEF MeshInv, ConnInv, Typed
<1>3. Keeps(conn, d, {"master"})
  BY <1>2 DEF IsConn, Keeps, ConnFields
<1> HIDE DEF d
<1>4. Keeps(conn, d, Aside) /\ IsConn(d) /\ d.sub = conn.sub /\ d.work = conn.work
  BY <1>3 DEF Keeps, ConnFields, Aside
<1>5. Agree(d, ns.loc, ns.now)
  BY <1>4, AgreeKeptSubs DEF PrioInv
<1>6. Agree(conn', ns.loc, ns.now)
  BY <1>1, <1>2, <1>4, <1>5, CreateAgrees
<1> QED
  BY <1>1, <1>6 DEF PrioInv

LEMMA AddAddrPrio ==
  ASSUME FMInv, MeshInv, PrioInv, RecvAddAddr
  PROVE  PrioInv'
<1>1. ns' = ns
  BY DEF RecvAddAddr
<1>2. Agree(conn, ns.loc, ns.now) /\ IsWork(conn.work)
  BY DEF PrioInv, MeshInv, ConnInv, Typed
<1>3. CASE conn' = conn
  BY <1>1, <1>3 DEF PrioInv
<1>4. ASSUME NEW c, NEW d, PeersOf(conn, c), Keeps(c, d, {"late"}), c.late \subseteq d.late,
             conn' = CreateSubflows(d)
      PROVE  PrioInv'
  <2>1. /\ Keeps(conn, d, {"rem", "late"})
        /\ conn.late \subseteq d.late
    BY <1>4 DEF PeersOf, Keeps, ConnFields
  <2>2. /\ Keeps(conn, d, Spare) /\ IsConn(d) /\ d.sub = conn.sub /\ d.infinite = conn.infinite
        /\ d.work = conn.work /\ d.retry = conn.retry /\ d.req = conn.req
    BY <2>1 DEF Keeps, ConnFields, Spare, Aside
  <2>3. Agree(d, ns.loc, ns.now)
    BY <1>2, <2>1, <2>2, AgreeKept DEF Onward
  <2>4. Agree(conn', ns.loc, ns.now)
    BY <1>2, <1>4, <2>2, <2>3, CreateAgrees
  <2> QED
    BY <1>1, <2>4 DEF PrioInv
<1> QED
  BY <1>3, <1>4, AddAddrIs

LEMMA RemAddrPrio ==
  ASSUME FMInv, MeshInv, PrioInv, RecvRemAddr
  PROVE  PrioInv'
<1>1. PICK id : conn' = Closed(RemRaddr(conn, id), {s \in DOMAIN conn.sub : s.rid = id})
  BY DEF RecvRemAddr
<1> DEFINE c == RemRaddr(conn, id)
           S == {s \in DOMAIN conn.sub : s.rid = id}
<1>2. ns' = ns
  BY DEF RecvRemAddr
<1>3. IsConn(conn) /\ IsRem(conn.rem) /\ \A s \in DOMAIN conn.sub : IsSub(s)
  BY DEF MeshInv, ConnInv, Typed
<1>4. PeersOf(conn, c)
  BY <1>3, RemRaddrPeers
<1>5. conn' = Closed(c, S)
  BY <1>1
<1> HIDE DEF c, S
<1>6. Keeps(conn, c, {"rem"}) /\ IsConn(c) /\ c.sub = conn.sub
  BY <1>4 DEF PeersOf, Keeps, ConnFields
<1>7. /\ Keeps(c, conn', {"sub"})
      /\ \A s \in DOMAIN conn'.sub : s.open => s \in DOMAIN c.sub
  BY <1>3, <1>5, <1>6, ClosedSubs
<1>8. Keeps(conn, conn', Aside)
  BY <1>6, <1>7 DEF Keeps, ConnFields, Aside
<1>9. Agree(conn', ns.loc, ns.now)
  BY <1>6, <1>7, <1>8, AgreeKeptSubs DEF PrioInv, Graded
<1> QED
  BY <1>2, <1>9 DEF PrioInv

LEMMA LostPrio ==
  ASSUME FMInv, MeshInv, PrioInv, SubflowLost
  PROVE  PrioInv'
<1>1. PICK s \in {x \in DOMAIN conn.sub : x.open} :
        conn' = [conn EXCEPT !.sub = (@ (-) SetToBag({s})) (+) SetToBag({[s EXCEPT !.open = FALSE]})]
  BY DEF SubflowLost
<1> DEFINE r == [s EXCEPT !.open = FALSE]
           A == conn.sub (-) SetToBag({s})
           B == SetToBag({r})
           b == A (+) B
<1>2. ns' = ns
  BY DEF SubflowLost
<1>3. IsConn(conn) /\ IsSub(s)
  BY <1>1 DEF MeshInv, ConnInv, Typed
<1>4. r.open = FALSE
  BY <1>3 DEF IsSub, SubFields
<1>5. DOMAIN b \subseteq DOMAIN conn.sub \cup {r}
  <2>1. DOMAIN A \subseteq DOMAIN conn.sub /\ DOMAIN B = {r}
    BY BagMinus, BagOfSet
  <2> HIDE DEF A, B, r
  <2>2. DOMAIN (A (+) B) = DOMAIN A \cup DOMAIN B
    BY BagPlus
  <2> QED
    BY <2>1, <2>2
<1>6. conn' = [conn EXCEPT !.sub = b]
  BY <1>1
<1> HIDE DEF r, b
<1>7. Keeps(conn, conn', {"sub"}) /\ conn'.sub = b
  BY <1>3, <1>6 DEF IsConn, Keeps, ConnFields
<1>8. Keeps(conn, conn', Aside)
  BY <1>7 DEF Keeps, ConnFields, Aside
<1>9. Agree(conn', ns.loc, ns.now)
  BY <1>4, <1>5, <1>7, <1>8, AgreeKeptSubs DEF PrioInv, Graded
<1> QED
  BY <1>2, <1>9 DEF PrioInv

LEMMA ReapPrio ==
  ASSUME FMInv, MeshInv, PrioInv, Reap
  PROVE  PrioInv'
<1>1. PICK s \in {x \in DOMAIN conn.sub : ~x.open} :
        conn' = [conn EXCEPT !.sub = @ (-) SetToBag({s}),
                             !.master = IF s.master THEN "gone" ELSE @,
                             !.late = IF s.master /\ conn.master = "new" THEN @ \cup {"early"} ELSE @]
  BY DEF Reap
<1> DEFINE b == conn.sub (-) SetToBag({s})
           m == IF s.master THEN "gone" ELSE conn.master
           l == IF s.master /\ conn.master = "new" THEN conn.late \cup {"early"} ELSE conn.late
<1>2. ns' = ns
  BY DEF Reap
<1>3. IsConn(conn)
  BY DEF MeshInv, ConnInv, Typed
<1>4. DOMAIN b \subseteq DOMAIN conn.sub
  BY BagMinus
<1>5. conn.late \subseteq l
  OBVIOUS
<1>6. conn' = [conn EXCEPT !.sub = b, !.master = m, !.late = l]
  BY <1>1
<1> HIDE DEF b, m, l
<1>7. Keeps(conn, conn', {"sub", "master", "late"}) /\ conn'.sub = b /\ conn'.late = l
  BY <1>3, <1>6 DEF IsConn, Keeps, ConnFields
<1>8. Keeps(conn, conn', Spare) /\ conn'.infinite = conn.infinite /\ conn'.work = conn.work
      /\ conn'.retry = conn.retry /\ conn'.req = conn.req
  BY <1>7 DEF Keeps, ConnFields, Spare, Aside
<1>9. Agree(conn', ns.loc, ns.now)
  BY <1>4, <1>5, <1>7, <1>8, AgreeKept DEF PrioInv, Onward
<1> QED
  BY <1>2, <1>9 DEF PrioInv

LEMMA EndsPrio ==
  ASSUME FMInv, MeshInv, PrioInv, Ends
  PROVE  PrioInv'
<1>1. /\ ns' = ns
      /\ conn' = [conn EXCEPT !.dead = TRUE] \/ conn' = [conn EXCEPT !.infinite = TRUE]
  BY DEF Ends
<1>2. IsConn(conn)
  BY DEF MeshInv, ConnInv, Typed
<1>3. Keeps(conn, conn', {"dead", "infinite"}) /\ (conn.infinite => conn'.infinite)
  BY <1>1, <1>2 DEF IsConn, Keeps, ConnFields
<1>4. Keeps(conn, conn', Spare) /\ conn'.sub = conn.sub /\ conn'.late = conn.late
      /\ conn'.work = conn.work /\ conn'.retry = conn.retry /\ conn'.req = conn.req
  BY <1>3 DEF Keeps, ConnFields, Spare, Aside
<1>5. Agree(conn', ns.loc, ns.now)
  BY <1>3, <1>4, AgreeKept DEF PrioInv, Onward
<1> QED
  BY <1>1, <1>5 DEF PrioInv

LEMMA RequestPrio ==
  ASSUME FMInv, MeshInv, PrioInv, JoinRequest
  PROVE  PrioInv'
<1>1. PICK a \in Addr, r \in RemAddrs :
        LET f == Fam(a)
            i == FindAddress(ns.loc, a)
        IN  /\ dev[a].up /\ r.fam = f /\ i # None
            /\ conn' = [conn EXCEPT !.req = [src |-> a, dst |-> r.addr, lid |-> LocId(f, i),
                                             rid |-> r.id, low |-> ns.loc[f].low[i]]]
  BY DEF JoinRequest
<1> DEFINE f == Fam(a)
           i == FindAddress(ns.loc, a)
           low == ns.loc[f].low[i]
           lid == LocId(f, i)
           q == [src |-> a, dst |-> r.addr, lid |-> lid, rid |-> r.id, low |-> low]
<1>2. ns' = ns /\ TableInv(ns.loc)
  BY DEF JoinRequest, FMInv
<1>3. IsConn(conn)
  BY DEF MeshInv, ConnInv, Typed
<1>4. conn' = [conn EXCEPT !.req = q] /\ HasEntry(ns.loc, a, low)
  BY <1>1, <1>2, FoundEntry
<1> HIDE DEF low, lid
<1>5. q.src = a /\ q.low = low
  OBVIOUS
<1> HIDE DEF q
<1>6. Keeps(conn, conn', {"req"}) /\ conn'.req = q
  BY <1>3, <1>4 DEF IsConn, Keeps, ConnFields
<1>7. Keeps(conn, conn', Spare) /\ conn'.sub = conn.sub /\ conn'.late = conn.late
      /\ conn'.work = conn.work /\ conn'.retry = conn.retry /\ conn'.infinite = conn.infinite
  BY <1>6 DEF Keeps, ConnFields, Spare, Aside
<1>8. LowFits(conn', ns.loc, ns.now)
  BY <1>7, LowKept DEF PrioInv, Agree
<1>9. Seen(conn', ns.loc)
  BY <1>4, <1>5, <1>6, <1>7 DEF PrioInv, Agree, Seen, Timely
<1> QED
  BY <1>2, <1>8, <1>9 DEF PrioInv, Agree

LEMMA JoinPrio ==
  ASSUME FMInv, MeshInv, PrioInv, JoinDone
  PROVE  PrioInv'
<1> DEFINE q == conn.req
           d == WithSubflows(conn, q.src, q.dst, q.lid, q.rid, q.low, 1)
<1>1. ns' = ns /\ q # None /\ conn' = [d EXCEPT !.req = None]
  BY DEF JoinDone
<1>2. IsConn(conn) /\ q.src \in Addr /\ q.lid \in Lid
  BY <1>1 DEF MeshInv, ConnInv, Typed, IsReq
<1>3. Timely(conn) => HasEntry(ns.loc, q.src, q.low)
  BY <1>1 DEF PrioInv, Agree, Seen
<1>4. Agree(d, ns.loc, ns.now) /\ IsConn(d)
  <2> DEFINE t == ns.loc
             lid == q.lid
             low == q.low
  <2>1. Agree(conn, t, ns.now) /\ (Timely(conn) => HasEntry(t, q.src, low) \/ (lid = 0 /\ low = FALSE))
    BY <1>3 DEF PrioInv
  <2> HIDE DEF q, t, lid, low
  <2>2. Agree(WithSubflows(conn, q.src, q.dst, lid, q.rid, low, 1), t, ns.now)
    BY <1>2, <2>1, SubflowsAgree
  <2>3. IsConn(d)
    BY <1>2, WithSubflowsAdds DEF Keeps
  <2> QED
    BY <2>2, <2>3 DEF t, lid, low
<1> HIDE DEF d
<1>5. Keeps(d, conn', {"req"}) /\ conn'.req = None
  BY <1>1, <1>4 DEF IsConn, Keeps, ConnFields
<1>6. Keeps(d, conn', Spare) /\ conn'.sub = d.sub /\ conn'.late = d.late
      /\ conn'.work = d.work /\ conn'.retry = d.retry /\ conn'.infinite = d.infinite
  BY <1>5 DEF Keeps, ConnFields, Spare, Aside
<1>7. Agree(conn', ns.loc, ns.now)
  BY <1>4, <1>5, <1>6, AgreeKept DEF Onward
<1> QED
  BY <1>1, <1>7 DEF PrioInv

LEMMA ExpiryPrio ==
  ASSUME FMInv, MeshInv, PrioInv, JoinExpires
  PROVE  PrioInv'
<1>1. ns' = ns /\ conn' = [conn EXCEPT !.req = None] /\ IsConn(conn)
  BY DEF JoinExpires, MeshInv, ConnInv, Typed
<1>2. Keeps(conn, conn', {"req"}) /\ conn'.req = None
  BY <1>1 DEF IsConn, Keeps, ConnFields
<1>3. Keeps(conn, conn', Spare) /\ conn'.sub = conn.sub /\ conn'.late = conn.late
      /\ conn'.work = conn.work /\ conn'.retry = conn.retry /\ conn'.infinite = conn.infinite
  BY <1>2 DEF Keeps, ConnFields, Spare, Aside
<1>4. Agree(conn', ns.loc, ns.now)
  BY <1>2, <1>3, AgreeKept DEF PrioInv, Onward
<1> QED
  BY <1>1, <1>4 DEF PrioInv

LEMMA SignalPrio ==
  ASSUME FMInv, MeshInv, PrioInv, AddrSignal
  PROVE  PrioInv'
<1>1. ns' = ns
  BY DEF AddrSignal
<1>2. Keeps(conn, conn', {"add", "ann", "remove", "told"})
  BY SignalAnnounces
<1>3. Keeps(conn, conn', Aside) /\ conn'.sub = conn.sub
  BY <1>2 DEF Keeps, ConnFields, Aside
<1>4. Agree(conn', ns.loc, ns.now)
  BY <1>3, AgreeKeptSubs DEF PrioInv
<1> QED
  BY <1>1, <1>4 DEF PrioInv

LEMMA OpenedPrio ==
  ASSUME NEW c, Typed(c), c.phase = "none", NEW t, NEW e, NEW d, NEW src \in Addr, NEW low,
         Opens(c, d, t, src, low)
  PROVE  Agree(d, t, e)
<1>1. d.req = c.req /\ d.work = c.work /\ d.retry = c.retry
  BY DEF Opens, Keeps, ConnFields
<1>2. c.work.run = None /\ c.retry.run = None /\ c.req = None
  BY DEF Typed, Begun, Idle
<1>3. DOMAIN d.sub = {Master(src, low)} /\ Master(src, low).src = src /\ Master(src, low).low = low
  BY BagOfSet DEF Opens, Master
<1>4. LowFits(d, t, e)
  <2> SUFFICES ASSUME Serving(d), NEW s \in DOMAIN d.sub PROVE HasEntry(t, s.src, s.low)
    BY DEF LowFits, Ranked
  <2>1. HasEntry(t, src, low)
    BY DEF Opens, Serving
  <2>2. s.src = src /\ s.low = low
    BY <1>3
  <2> QED
    BY <2>1, <2>2
<1>5. Seen(d, t)
  BY <1>1, <1>2 DEF Seen, CopyFits
<1> QED
  BY <1>4, <1>5 DEF Agree

LEMMA NewSessionPrio ==
  ASSUME FMInv, MeshInv, PrioInv, NewSession
  PROVE  PrioInv'
<1>1. conn.phase = "none" /\ ns' = ns
  BY DEF NewSession
<1>2. Typed(conn)
  BY DEF MeshInv, ConnInv
<1>3. Agree(conn', ns.loc, ns.now)
  BY <1>1, <1>2, SessionOpens, OpenedPrio
<1> QED
  BY <1>1, <1>3 DEF PrioInv

\* The copy of a worker that starts is the table.
LEMMA TableFits ==
  ASSUME NEW t, TableInv(t), NEW w, w.run # None => w.run.loc = t
  PROVE  CopyFits(w, t)
<1> SUFFICES ASSUME w.run # None, NEW f \in Family, NEW i \in t[f].bits
             PROVE  HasEntry(t, t[f].addr[i], t[f].low[i])
  BY DEF CopyFits
<1>1. Fam(t[f].addr[i]) = f
  BY DEF TableInv
<1> QED
  BY <1>1 DEF HasEntry

LEMMA WorkerStartPrio ==
  ASSUME FMInv, MeshInv, PrioInv, WorkerStart \/ RetryStart
  PROVE  PrioInv'
<1>1. IsConn(conn) /\ TableInv(ns.loc) /\ ns' = ns
  BY DEF FMInv, MeshInv, ConnInv, Typed, WorkerStart, RetryStart
<1>2. CopyFits(Started, ns.loc)
  <2>1. Started.run.loc = ns.loc
    BY DEF Started
  <2> QED
    BY <1>1, <2>1, TableFits
<1>3. CASE WorkerStart
  <2>1. conn' = [conn EXCEPT !.work = Started]
    BY <1>3 DEF WorkerStart
  <2>2. Keeps(conn, conn', {"work"}) /\ conn'.work = Started
    BY <1>1, <2>1 DEF IsConn, Keeps, ConnFields
  <2>3. /\ Keeps(conn, conn', Spare) /\ conn'.retry = conn.retry /\ conn'.req = conn.req
        /\ conn'.sub = conn.sub /\ conn'.late = conn.late /\ conn'.infinite = conn.infinite
    BY <2>2 DEF Keeps, ConnFields, Spare, Aside
  <2>4. LowFits(conn', ns.loc, ns.now)
    BY <2>3, LowKept DEF PrioInv, Agree
  <2>5. Seen(conn', ns.loc)
    BY <1>2, <2>2, <2>3 DEF PrioInv, Agree, Seen, Timely
  <2> QED
    BY <1>1, <2>4, <2>5 DEF PrioInv, Agree
<1>4. CASE RetryStart
  <2>1. conn' = [conn EXCEPT !.retry = Started]
    BY <1>4 DEF RetryStart
  <2>2. Keeps(conn, conn', {"retry"}) /\ conn'.retry = Started
    BY <1>1, <2>1 DEF IsConn, Keeps, ConnFields
  <2>3. /\ Keeps(conn, conn', Spare) /\ conn'.work = conn.work /\ conn'.req = conn.req
        /\ conn'.sub = conn.sub /\ conn'.late = conn.late /\ conn'.infinite = conn.infinite
    BY <2>2 DEF Keeps, ConnFields, Spare, Aside
  <2>4. LowFits(conn', ns.loc, ns.now)
    BY <2>3, LowKept DEF PrioInv, Agree
  <2>5. Seen(conn', ns.loc)
    BY <1>2, <2>2, <2>3 DEF PrioInv, Agree, Seen, Timely
  <2> QED
    BY <1>1, <2>4, <2>5 DEF PrioInv, Agree
<1> QED
  BY <1>3, <1>4

\* A work item goes on, asks for the other one, or ends.
LEMMA WorkGoesOnPrio ==
  ASSUME NEW c, NEW t, NEW e, Agree(c, t, e), IsConn(c), IsWork(c.work), IsWork(c.retry), NEW d, NEW b,
         \/ d = [c EXCEPT !.work.run = None]
         \/ d = [c EXCEPT !.retry.run = None]
         \/ d = [c EXCEPT !.work.run = None, !.retry.pending = b]
         \/ c.work.run # None /\ d = [c EXCEPT !.work.run.again = TRUE]
  PROVE  Agree(d, t, e)
<1> DEFINE ended(w) == [w EXCEPT !.run = None]
           queued == [c.retry EXCEPT !.pending = b]
           asking == [c.work EXCEPT !.run.again = TRUE]
           Less(w, v) == w.run # None => v.run # None /\ w.run.loc = v.run.loc
<1>1. \A w : IsWork(w) => Less(ended(w), w) /\ Less(w, w)
  BY DEF IsWork
<1>2. Less(queued, c.retry)
  BY DEF IsWork
<1>3. c.work.run # None => Less(asking, c.work)
  <2> SUFFICES ASSUME c.work.run # None
               PROVE  Less(asking, c.work)
    OBVIOUS
  <2> DEFINE run == [c.work.run EXCEPT !.again = TRUE]
  <2>1. run.loc = c.work.run.loc
    BY DEF IsWork
  <2>2. asking = [c.work EXCEPT !.run = run]
    BY DEF IsWork
  <2> HIDE DEF run, asking
  <2>3. asking.run = run
    BY <2>2 DEF IsWork
  <2> QED
    BY <2>1, <2>3
<1>4. \E w, r : d = [c EXCEPT !.work = w, !.retry = r] /\ Less(w, c.work) /\ Less(r, c.retry)
  <2>1. CASE d = [c EXCEPT !.work.run = None]
    <3>1. d = [c EXCEPT !.work = ended(c.work), !.retry = c.retry]
      BY <2>1 DEF IsConn, ConnFields
    <3> HIDE DEF ended, Less
    <3> QED
      BY <1>1, <3>1
  <2>2. CASE d = [c EXCEPT !.retry.run = None]
    <3>1. d = [c EXCEPT !.work = c.work, !.retry = ended(c.retry)]
      BY <2>2 DEF IsConn, ConnFields
    <3> HIDE DEF ended, Less
    <3> QED
      BY <1>1, <3>1
  <2>3. CASE d = [c EXCEPT !.work.run = None, !.retry.pending = b]
    <3>1. d = [c EXCEPT !.work = ended(c.work), !.retry = queued]
      BY <2>3 DEF IsConn, ConnFields
    <3> HIDE DEF ended, queued, Less
    <3> QED
      BY <1>1, <1>2, <3>1
  <2>4. CASE c.work.run # None /\ d = [c EXCEPT !.work.run.again = TRUE]
    <3>1. d = [c EXCEPT !.work = asking, !.retry = c.retry]
      BY <2>4 DEF IsConn, ConnFields
    <3> HIDE DEF asking, Less
    <3> QED
      BY <1>1, <1>3, <2>4, <3>1
  <2> QED
    BY <2>1, <2>2, <2>3, <2>4
<1>5. PICK w, r : d = [c EXCEPT !.work = w, !.retry = r] /\ Less(w, c.work) /\ Less(r, c.retry)
  BY <1>4
<1>6. Keeps(c, d, {"work", "retry"}) /\ d.work = w /\ d.retry = r
  BY <1>5 DEF IsConn, Keeps, ConnFields
<1>7. /\ Keeps(c, d, Spare) /\ d.req = c.req /\ d.sub = c.sub /\ d.late = c.late
      /\ d.infinite = c.infinite
  BY <1>6 DEF Keeps, ConnFields, Spare, Aside
<1>8. Onward(c, d)
  BY <1>5, <1>6, <1>7 DEF Onward
<1> QED
  BY <1>7, <1>8, AgreeKept

LEMMA FirstPairPrio ==
  ASSUME FMInv, MeshInv, PrioInv, NEW x \in FirstPairs(conn)
  PROVE  Agree(FirstPair(conn, x), ns.loc, ns.now)
<1> DEFINE t == ns.loc
           c == FirstPair(conn, x)
           src == conn.source
           dst == MasterDst[Fam(src)]
           low == FALSE
           lid == 0
           w == WithSubflows(conn, src, dst, lid, 0, low, x)
           L == {v \in {"source"} : x > 0 /\ FindAddress(t, src) = None}
           d == [w EXCEPT !.first = TRUE, !.late = @ \cup L]
<1>1. IsConn(conn) /\ Agree(conn, t, ns.now)
  BY DEF MeshInv, ConnInv, Typed, PrioInv
<1>2. c = IF conn.first \/ conn.master = "gone" THEN conn ELSE d
  BY DEF FirstPair
<1> HIDE DEF c, t, src, dst, low, L
<1>3. Agree(w, t, ns.now) /\ IsConn(w)
  <2>1. IsConn(w)
    <3> DEFINE told == conn.told \cup {src}
               b == conn.sub (+) [new \in {[src |-> src, dst |-> dst, lid |-> lid, rid |-> 0, low |-> low,
                                           master |-> FALSE, open |-> TRUE]} |-> x]
    <3>1. w = IF x = 0 THEN conn ELSE [conn EXCEPT !.sub = b, !.told = told]
      BY DEF WithSubflows
    <3> HIDE DEF b, told, w
    <3> QED
      BY <1>1, <3>1 DEF IsConn, ConnFields
  <2>2. lid = 0 /\ low = FALSE
    BY DEF low
  <2> HIDE DEF lid
  <2>3. Agree(w, t, ns.now)
    BY <1>1, <2>2, SubflowsAgree
  <2> QED
    BY <2>1, <2>3
<1> HIDE DEF w
<1>4. Keeps(w, d, {"first", "late"}) /\ d.late = w.late \cup L
  BY <1>3 DEF Keeps, IsConn, ConnFields
<1> HIDE DEF d
<1>5. /\ Keeps(w, d, Spare) /\ d.infinite = w.infinite /\ d.sub = w.sub
      /\ d.work = w.work /\ d.retry = w.retry /\ d.req = w.req
  BY <1>4 DEF Keeps, ConnFields, Spare, Aside
<1>6. Agree(d, t, ns.now)
  BY <1>3, <1>4, <1>5, AgreeKept DEF Onward
<1> QED
  BY <1>1, <1>2, <1>6 DEF c, t

\* Slot i of a row is noted as tried, or as to be tried again.
LEMMA RowAgrees ==
  ASSUME NEW c, NEW t, NEW e, Agree(c, t, e), NEW d, Keeps(c, d, {"rem"})
  PROVE  Agree(d, t, e) /\ IsConn(d) /\ d.late = c.late /\ d.work = c.work /\ d.retry = c.retry
<1>1. /\ IsConn(d) /\ d.late = c.late /\ d.work = c.work /\ d.retry = c.retry /\ d.sub = c.sub
      /\ Keeps(c, d, Aside)
  BY DEF Keeps, ConnFields, Aside
<1> QED
  BY <1>1, AgreeKeptSubs

LEMMA WorkerStepPrio ==
  ASSUME FMInv, MeshInv, PrioInv, WorkerStep
  PROVE  PrioInv'
<1>1. PICK x \in FirstPairs(conn) : WorkerSteps(FirstPair(conn, x), conn')
  BY WorkerStepIs
<1> DEFINE t == ns.loc
           c == FirstPair(conn, x)
           copy == c.work.run.loc
<1>2. conn.work.run # None /\ ns' = ns
  BY DEF WorkerStep
<1>3. conn.phase = "open"
  BY <1>2 DEF MeshInv, ConnInv, Typed, Begun, Idle
<1>4. /\ ConnInv(c, t, ns.now) /\ c.phase = "open" /\ c.work = conn.work
      /\ Agree(c, t, ns.now)
  BY <1>3, FirstPairKeeps, FirstPairPrio
<1>5. WorkerSteps(c, conn')
  BY <1>1
<1> SUFFICES Agree(conn', t, ns.now)
  BY <1>2 DEF PrioInv
<1> HIDE DEF c, t
<1>6. /\ IsConn(c) /\ IsRem(c.rem) /\ IsWork(c.work) /\ IsWork(c.retry) /\ TableInv(copy)
      /\ c.work.run # None
  BY <1>2, <1>4 DEF ConnInv, Typed, IsWork
<1>7. CASE conn' = [c EXCEPT !.work.run = None]
  BY <1>4, <1>6, <1>7, WorkGoesOnPrio
<1>8. CASE \E b : conn' = [c EXCEPT !.work.run = None, !.retry.pending = b]
  BY <1>4, <1>6, <1>8, WorkGoesOnPrio
<1>9. ASSUME NEW f \in Family, NEW j \in Slot, NEW i \in Slot, TakesPair(c, conn', f, j, i)
      PROVE  Agree(conn', t, ns.now)
  <2> DEFINE d == [c EXCEPT !.rem[f][j].bits = @ \cup {i}]
             g == [d EXCEPT !.rem[f][j].retry = @ \cup {i}]
             src == copy[f].addr[i]
  <2>1. c.rem[f][j] # None /\ i \in copy[f].bits
    BY <1>9 DEF TakesPair
  <2>2. \/ \E k : conn' = Subsockets(d, copy, f, j, i, src, k)
        \/ conn' = [g EXCEPT !.work.run.again = TRUE]
    BY <1>9 DEF TakesPair
  <2>3. Keeps(c, d, {"rem"}) /\ Keeps(d, g, {"rem"})
    <3>1. IsRemote(c.rem[f][j])
      BY <1>6, <2>1 DEF IsRem
    <3>2. Marked(c, d, f, j, i) /\ Marked(d, g, f, j, i)
      BY DEF Marked
    <3> HIDE DEF d, g
    <3>3. ConnInv(d, t, ns.now) /\ Keeps(c, d, {"rem"}) /\ IsRemote(d.rem[f][j])
      BY <1>4, <3>1, <3>2, RowKeeps
    <3>4. d.phase # "none"
      BY <1>4, <3>3 DEF Keeps, ConnFields
    <3> QED
      BY <3>2, <3>3, <3>4, RowKeeps
  <2> HIDE DEF d, g
  <2>4. /\ Agree(d, t, ns.now) /\ IsConn(d) /\ d.late = c.late /\ d.work = c.work /\ d.retry = c.retry
        /\ Agree(g, t, ns.now) /\ IsConn(g) /\ g.work = c.work /\ g.retry = c.retry
    BY <1>4, <2>3, RowAgrees
  <2>5. CASE \E k : conn' = Subsockets(d, copy, f, j, i, src, k)
    <3>1. Timely(d) => HasEntry(t, src, copy[f].low[i])
      BY <1>4, <1>6, <2>1, <2>4 DEF Agree, Seen, CopyFits, Timely
    <3> HIDE DEF src, copy
    <3> QED
      BY <2>4, <2>5, <3>1, SubsocketsAgree
  <2>6. CASE conn' = [g EXCEPT !.work.run.again = TRUE]
    BY <1>6, <2>4, <2>6, WorkGoesOnPrio
  <2> QED
    BY <2>2, <2>5, <2>6
<1> QED
  BY <1>5, <1>7, <1>8, <1>9 DEF WorkerSteps

LEMMA RetryStepPrio ==
  ASSUME FMInv, MeshInv, PrioInv, RetryStep
  PROVE  PrioInv'
<1> DEFINE t == ns.loc
           copy == conn.retry.run.loc
<1>1. conn.retry.run # None /\ ns' = ns
  BY DEF RetryStep
<1>2. /\ ConnInv(conn, t, ns.now) /\ conn.phase = "open" /\ Agree(conn, t, ns.now)
      /\ IsConn(conn) /\ IsRem(conn.rem) /\ IsWork(conn.work) /\ IsWork(conn.retry)
      /\ TableInv(copy)
  BY <1>1 DEF MeshInv, ConnInv, Typed, Begun, Idle, IsWork, PrioInv
<1> SUFFICES Agree(conn', t, ns.now)
  BY <1>1 DEF PrioInv
<1>3. CASE conn' = [conn EXCEPT !.retry.run = None]
  BY <1>2, <1>3, WorkGoesOnPrio
<1>4. ASSUME NEW f \in Family, NEW j \in Slot, NEW i \in Slot, TriesAgain(conn, conn', f, j, i)
      PROVE  Agree(conn', t, ns.now)
  <2> DEFINE S == Outdated(copy, f, i)
             b == [conn EXCEPT !.rem[f][j].bits = @ \cup {i}]
             r == [b EXCEPT !.rem[f][j].retry = @ \ {i}]
             d == [r EXCEPT !.late = @ \cup S]
  <2>1. conn.rem[f][j] # None
    BY <1>4 DEF TriesAgain
  <2>2. PICK src \in SourceOf(copy, f, i) : \E k : conn' = Subsockets(d, copy, f, j, i, src, k)
    BY <1>4 DEF TriesAgain
  <2> HIDE DEF S, t
  <2>3. Keeps(conn, b, {"rem"}) /\ Keeps(b, r, {"rem"})
    <3>1. IsRemote(conn.rem[f][j])
      BY <1>2, <2>1 DEF IsRem
    <3>2. Marked(conn, b, f, j, i) /\ Marked(b, r, f, j, i)
      BY DEF Marked
    <3> HIDE DEF b, r
    <3>3. ConnInv(b, t, ns.now) /\ Keeps(conn, b, {"rem"}) /\ IsRemote(b.rem[f][j])
      BY <1>2, <3>1, <3>2, RowKeeps
    <3>4. b.phase # "none"
      BY <1>2, <3>3 DEF Keeps, ConnFields
    <3> QED
      BY <3>2, <3>3, <3>4, RowKeeps
  <2> HIDE DEF b, r
  <2>4. Agree(r, t, ns.now) /\ IsConn(r) /\ r.late = conn.late /\ r.retry = conn.retry
    BY <1>2, <2>3, RowAgrees
  <2>5. Keeps(r, d, {"late"}) /\ d.late = r.late \cup S
    BY <2>4 DEF IsConn, Keeps, ConnFields
  <2> HIDE DEF d
  <2>6. /\ Keeps(r, d, Spare) /\ IsConn(d) /\ d.infinite = r.infinite /\ d.sub = r.sub
        /\ d.work = r.work /\ d.retry = r.retry /\ d.req = r.req
    BY <2>5 DEF Keeps, ConnFields, Spare, Aside
  <2>7. Agree(d, t, ns.now)
    BY <2>4, <2>5, <2>6, AgreeKept DEF Onward
  <2>8. Timely(d) => HasEntry(t, src, copy[f].low[i])
    <3> SUFFICES ASSUME Timely(d) PROVE HasEntry(t, src, copy[f].low[i])
      OBVIOUS
    <3>1. Timely(conn) /\ i \in copy[f].bits
      BY <2>4, <2>5 DEF Outdated, S, Timely
    <3>2. src = copy[f].addr[i]
      BY <1>2, <2>2, <3>1, SlotAddresses DEF SourceOf
    <3> QED
      BY <1>1, <1>2, <3>1, <3>2 DEF Agree, Seen, CopyFits
  <2> HIDE DEF copy
  <2> QED
    BY <2>2, <2>6, <2>7, <2>8, SubsocketsAgree
<1> QED
  BY <1>3, <1>4, RetryStepIs DEF RetrySteps

\* The release gives every subflow the priority of its address.
LEMMA ReleasePrio ==
  ASSUME FMInv, MeshInv, PrioInv, Release
  PROVE  PrioInv'
<1> DEFINE t == ns.loc
           S == Unsaid(conn, t)
           c == [conn EXCEPT !.owned = FALSE, !.late = @ \cup S]
           d == ReleaseSock(c, t)
<1>1. conn.owned /\ ns' = ns /\ conn' = d
  BY DEF Release
<1>2. /\ TableInv(t) /\ Typed(conn) /\ Current(conn, t) /\ conn.phase # "none"
      /\ Seen(conn, t)
  BY <1>1 DEF FMInv, MeshInv, ConnInv, Typed, Begun, Idle, PrioInv, Agree
<1> HIDE DEF t, S
<1>3. /\ Typed(c) /\ Current(c, t) /\ c.phase # "none" /\ c.late = conn.late \cup S
      /\ c.work = conn.work /\ c.retry = conn.retry /\ c.req = conn.req
  <2>1. Keeps(conn, c, {"owned", "late"}) /\ c.late = conn.late \cup S
    BY <1>2 DEF Typed, IsConn, Keeps, ConnFields
  <2> HIDE DEF c
  <2>2. /\ IsConn(c) /\ c.kind = conn.kind /\ c.phase = conn.phase /\ c.source = conn.source /\ c.sub = conn.sub
        /\ c.req = conn.req /\ c.add = conn.add /\ c.ann = conn.ann /\ c.remove = conn.remove
        /\ c.rem = conn.rem /\ c.work = conn.work /\ c.retry = conn.retry
    BY <2>1 DEF Keeps, ConnFields
  <2> QED
    BY <1>2, <2>1, <2>2 DEF Typed, Begun, Current
<1> HIDE DEF c
<1>4. /\ Keeps(c, d, {"sub", "add", "work", "remove", "told", "ann", "rem"})
      /\ d.work.run = c.work.run
      /\ \A s \in DOMAIN d.sub : s.open /\ Concerns(c, Fam(s.src)) => HasEntry(t, s.src, s.low)
  BY <1>2, <1>3, Released
<1> HIDE DEF d
<1>5. d.kind = c.kind /\ d.late = c.late /\ d.retry = c.retry /\ d.req = c.req
  BY <1>4 DEF Keeps, ConnFields
<1>6. LowFits(d, t, ns.now)
  <2> SUFFICES ASSUME Concerns(d, 4), NEW s \in DOMAIN d.sub, Graded(s)
               PROVE  HasEntry(t, s.src, s.low)
    BY DEF LowFits, Ranked
  <2>1. s.open /\ Fam(s.src) = 4 /\ Concerns(c, 4)
    BY <1>5 DEF Graded, Concerns
  <2> QED
    BY <1>4, <2>1
<1>7. Seen(d, t)
  <2>1. Onward(conn, d) /\ conn.late \subseteq d.late
    BY <1>3, <1>4, <1>5 DEF Onward
  <2> QED
    BY <1>2, <2>1, OnwardSeen
<1> QED
  BY <1>1, <1>6, <1>7 DEF PrioInv, Agree, t

LEMMA EntryLow ==
  ASSUME NEW t, TableInv(t), NEW a \in Addr, NEW low, HasEntry(t, a, low)
  PROVE  low \in BOOLEAN /\ InTable(t, a)
<1>1. t[Fam(a)].low \in [Slot -> BOOLEAN] /\ t[Fam(a)].bits \subseteq Slot
  BY FamilyOf DEF TableInv, Table
<1> QED
  BY <1>1 DEF InTable, HasEntry

\* The subflows fit when the table changes only in what the event tells of.
LEMMA LowMoves ==
  ASSUME NEW c, NEW t, NEW u, NEW n, LowFits(c, t, None),
         Timely(c) =>
           \A s \in DOMAIN c.sub :
             Changing(n, s.src) \/ (HasEntry(t, s.src, s.low) => HasEntry(u, s.src, s.low))
  PROVE  LowFits(c, u, n)
BY DEF LowFits, Changing, Ranked

\* An address that goes: no worker and no join has seen it, or "copy" tells so.
LEMMA LossPrio ==
  ASSUME FMInv, MeshInv, PrioInv, ns.now = None, NEW e \in Event, e.code = "del",
         FindAddress(ns.loc, e.addr) # None
  PROVE  LET u == Without(ns.loc, e)
             n == Taken(ns.loc, e)
         IN  Agree([conn EXCEPT !.late = @ \cup Late(e)], u, n) /\ NowFits(n, u)
<1> DEFINE t == ns.loc
           u == Without(t, e)
           n == Taken(t, e)
           S == Late(e)
           d == [conn EXCEPT !.late = @ \cup S]
           busy == conn.work.run # None \/ conn.retry.run # None \/ conn.req # None
<1>1. TableInv(t) /\ Typed(conn) /\ e.addr \in Addr /\ Agree(conn, t, None)
  BY DEF FMInv, MeshInv, ConnInv, Event, PrioInv
<1>2. n # None /\ n.code = "del" /\ n.addr = e.addr
  BY <1>1, TakenIsNow DEF Taken
<1>3. /\ TableInv(u)
      /\ \A a \in Addr, low \in BOOLEAN : HasEntry(u, a, low) <=> a # e.addr /\ HasEntry(t, a, low)
  BY <1>1, WithoutEntry
<1>4. busy => "copy" \in S
  BY DEF Late
<1> HIDE DEF n, u, t, S
<1>5. \A s \in DOMAIN conn.sub :
        Changing(n, s.src) \/ (HasEntry(t, s.src, s.low) => HasEntry(u, s.src, s.low))
  <2> SUFFICES ASSUME NEW s \in DOMAIN conn.sub, ~ Changing(n, s.src), HasEntry(t, s.src, s.low)
               PROVE  HasEntry(u, s.src, s.low)
    OBVIOUS
  <2>1. s.src \in Addr /\ s.src # e.addr
    BY <1>1, <1>2 DEF Typed, IsSub, Changing
  <2> QED
    BY <1>1, <1>3, <2>1, EntryLow
<1>6. LowFits(conn, u, n)
  BY <1>1, <1>5, LowMoves DEF Agree
<1>7. Keeps(conn, d, {"late"}) /\ d.late = conn.late \cup S
  BY <1>1, LateGrows
<1> HIDE DEF d
<1>8. /\ Keeps(conn, d, Spare) /\ d.infinite = conn.infinite /\ d.sub = conn.sub
      /\ d.work = conn.work /\ d.retry = conn.retry /\ d.req = conn.req
  BY <1>7 DEF Keeps, ConnFields, Spare, Aside
<1>9. LowFits(d, u, n)
  BY <1>6, <1>7, <1>8, LowKept
<1>10. Seen(d, u)
  BY <1>4, <1>7, <1>8 DEF Seen, CopyFits, Timely
<1>11. NowFits(n, u)
  BY <1>2 DEF NowFits
<1> QED
  BY <1>9, <1>10, <1>11 DEF Agree, d, u, n, t, S

\* An address that comes, or changes its priority ("prio" if a worker or a join has
\* seen the old one).
LEMMA GainPrio ==
  ASSUME FMInv, MeshInv, PrioInv, ns.now = None, NEW e \in Event, e.code # "del",
         FindAddress(ns.loc, e.addr) = None => Slot \ ns.loc[Fam(e.addr)].bits # {}
  PROVE  LET u == With(ns.loc, e)
             n == Taken(ns.loc, e)
         IN  Agree([conn EXCEPT !.late = @ \cup Late(e)], u, n) /\ NowFits(n, u)
<1> DEFINE t == ns.loc
           u == With(t, e)
           n == Taken(t, e)
           i == FindAddress(t, e.addr)
           S == Late(e)
           d == [conn EXCEPT !.late = @ \cup S]
           busy == conn.work.run # None \/ conn.retry.run # None \/ conn.req # None
<1>1. /\ TableInv(t) /\ Typed(conn) /\ Agree(conn, t, None)
      /\ e.addr \in Addr /\ e.low \in BOOLEAN /\ e.code \in {"add", "del", "mod"}
  BY DEF FMInv, MeshInv, ConnInv, Event, PrioInv
<1>2. /\ n # None /\ n.addr = e.addr /\ n.low = e.low
      /\ i # None => n.code = e.code
  <2>1. n # None
    BY <1>1, TakenIsNow
  <2> QED
    BY <2>1 DEF Taken
<1>3. /\ TableInv(u)
      /\ \A a \in Addr, low \in BOOLEAN :
           HasEntry(u, a, low) <=> IF a = e.addr THEN low = e.low ELSE HasEntry(t, a, low)
  BY <1>1, WithEntry
<1>4. i # None => "prio" \in S \/ (~busy /\ e.code = "mod")
  <2>1. i # None /\ (busy \/ e.code = "add") => "prio" \in S
    BY DEF Late
  <2> HIDE DEF i, S, busy
  <2> QED
    BY <1>1, <2>1
<1>5. i = None <=> ~ InTable(t, e.addr)
  BY <1>1, FoundInTable
<1> HIDE DEF n, u, t, S, i
<1>6. Keeps(conn, d, {"late"}) /\ d.late = conn.late \cup S /\ Typed(d)
  BY <1>1, LateGrows
<1> HIDE DEF d
<1>7. /\ Keeps(conn, d, Spare) /\ d.infinite = conn.infinite /\ d.sub = conn.sub
      /\ d.work = conn.work /\ d.retry = conn.retry /\ d.req = conn.req
  BY <1>6 DEF Keeps, ConnFields, Spare, Aside
<1>8. LowFits(d, u, n)
  <2>1. LowFits(d, t, None)
    BY <1>1, <1>6, <1>7, LowKept DEF Agree
  <2>2. ASSUME Timely(d), NEW s \in DOMAIN d.sub, HasEntry(t, s.src, s.low)
        PROVE  Changing(n, s.src) \/ HasEntry(u, s.src, s.low)
    <3>1. s.src \in Addr
      BY <1>6 DEF Typed, IsSub
    <3>2. InTable(t, s.src) /\ s.low \in BOOLEAN
      BY <1>1, <2>2, <3>1, EntryLow
    <3>3. CASE s.src = e.addr
      <4>1. e.code = "mod" /\ n.code = "mod"
        BY <1>2, <1>4, <1>5, <1>6, <2>2, <3>2, <3>3 DEF Timely
      <4> QED
        BY <1>2, <3>3, <4>1 DEF Changing
    <3>4. CASE s.src # e.addr
      BY <1>3, <2>2, <3>1, <3>2, <3>4
    <3> QED
      BY <3>3, <3>4
  <2> QED
    BY <2>1, <2>2, LowMoves
<1>9. Seen(d, u)
  <2> SUFFICES ASSUME Timely(d) PROVE
        /\ CopyFits(d.work, u) /\ CopyFits(d.retry, u)
        /\ d.req # None => HasEntry(u, d.req.src, d.req.low)
    BY DEF Seen
  <2>1. CASE i # None
    BY <1>4, <1>6, <1>7, <2>1 DEF CopyFits, Timely
  <2>2. CASE i = None
    <3>1. \A a \in Addr : \A low : HasEntry(t, a, low) => HasEntry(u, a, low)
      <4> SUFFICES ASSUME NEW a \in Addr, NEW low, HasEntry(t, a, low)
                   PROVE  HasEntry(u, a, low)
        OBVIOUS
      <4>1. low \in BOOLEAN /\ a # e.addr
        BY <1>1, <1>5, <2>2, EntryLow
      <4> QED
        BY <1>3, <4>1
    <3>2. Seen(conn, t) /\ Timely(conn)
      BY <1>1, <1>6 DEF Agree, Timely
    <3>3. \A w : IsWork(w) /\ CopyFits(w, t) => CopyFits(w, u)
      <4> SUFFICES ASSUME NEW w, IsWork(w), CopyFits(w, t), w.run # None,
                          NEW f \in Family, NEW k \in w.run.loc[f].bits
                   PROVE  HasEntry(u, w.run.loc[f].addr[k], w.run.loc[f].low[k])
        BY DEF CopyFits
      <4>1. HasEntry(t, w.run.loc[f].addr[k], w.run.loc[f].low[k])
        BY DEF CopyFits
      <4>2. w.run.loc[f].addr[k] \in Addr
        BY SlotAddresses DEF IsWork
      <4> QED
        BY <3>1, <4>1, <4>2
    <3>4. IsWork(conn.work) /\ IsWork(conn.retry) /\ IsReq(conn.req)
      BY <1>1 DEF Typed
    <3> QED
      BY <1>7, <3>1, <3>2, <3>3, <3>4 DEF Seen, IsReq
  <2> QED
    BY <2>1, <2>2
<1>10. NowFits(n, u)
  BY <1>1, <1>2, <1>3 DEF NowFits
<1> QED
  BY <1>8, <1>9, <1>10 DEF Agree, d, u, n, t, S

LEMMA TakePrio ==
  ASSUME FMInv, MeshInv, PrioInv, TakeEvent
  PROVE  PrioInv'
<1> DEFINE q == ns.events
           e == Head(q)
           t == ns.loc
           f == Fam(e.addr)
           i == FindAddress(t, e.addr)
<1>1. /\ q # <<>> /\ ns.now = None
      /\ ns'.loc = IF Dropped(t, e) THEN t ELSE IF e.code = "del" THEN Without(t, e) ELSE With(t, e)
      /\ ns'.now = IF Dropped(t, e) THEN None ELSE Taken(t, e)
      /\ conn' = IF Dropped(t, e) THEN conn ELSE [conn EXCEPT !.late = @ \cup Late(e)]
  BY DEF TakeEvent
<1>2. e \in Event /\ TableInv(t) /\ e.addr \in Addr
  BY <1>1, TailEvents DEF FMInv, Event
<1>3. CASE Dropped(t, e)
  <2>1. ns'.loc = ns.loc /\ ns'.now = ns.now /\ conn' = conn
    BY <1>1, <1>3
  <2> QED
    BY <2>1 DEF PrioInv
<1> HIDE DEF q, e
<1>4. CASE ~ Dropped(t, e) /\ e.code = "del"
  <2>1. i # None
    BY <1>4 DEF Dropped
  <2>2. /\ Agree([conn EXCEPT !.late = @ \cup Late(e)], Without(t, e), Taken(t, e))
        /\ NowFits(Taken(t, e), Without(t, e))
    BY <1>1, <1>2, <1>4, <2>1, LossPrio
  <2> QED
    BY <1>1, <1>4, <2>2 DEF PrioInv
<1>5. CASE ~ Dropped(t, e) /\ e.code # "del"
  <2>1. i = None => Slot \ t[f].bits # {}
    BY <1>2, <1>5, NotDroppedRoom
  <2>2. /\ Agree([conn EXCEPT !.late = @ \cup Late(e)], With(t, e), Taken(t, e))
        /\ NowFits(Taken(t, e), With(t, e))
    BY <1>1, <1>2, <1>5, <2>1, GainPrio
  <2> QED
    BY <1>1, <1>5, <2>2 DEF PrioInv
<1> QED
  BY <1>3, <1>4, <1>5

\* What is applied of a change of the priority.
LEMMA ModPrio ==
  ASSUME NEW c, NEW t, NEW e, IsConn(c), \A s \in DOMAIN c.sub : IsSub(s),
         Agree(c, t, e), NowFits(e, t), e # None, e.code = "mod"
  PROVE  Agree(AppliedMod(c, e), t, None)
<1> DEFINE same == {s \in DOMAIN c.sub : s.src = e.addr}
           others == {s \in DOMAIN c.sub : Fam(s.src) = 6 /\ s.src # e.addr}
           low == [s \in IF Fam(e.addr) = 4 THEN same ELSE others |-> e.low]
           d == Prioritised(c, low)
<1>1. AppliedMod(c, e) = d
  BY DEF AppliedMod
<1>2. /\ Keeps(c, d, {"sub"})
      /\ \A s \in DOMAIN d.sub : \E u \in DOMAIN c.sub :
           /\ s.src = u.src /\ s.lid = u.lid /\ s.master = u.master /\ s.open = u.open
           /\ s.low = IF u \in DOMAIN low THEN low[u] ELSE u.low
  <2> HIDE DEF low
  <2> QED
    BY PrioritisedSubs
<1> HIDE DEF d
<1>3. \A u \in DOMAIN c.sub : Fam(u.src) = 4 =>
        /\ u.src = e.addr => u \in DOMAIN low /\ low[u] = e.low
        /\ u.src # e.addr => u \notin DOMAIN low
  OBVIOUS
<1> HIDE DEF low
<1>4. /\ d.phase = c.phase /\ d.kind = c.kind /\ d.pm = c.pm /\ d.infinite = c.infinite
      /\ d.owned = c.owned /\ d.late = c.late
      /\ d.work = c.work /\ d.retry = c.retry /\ d.req = c.req
  BY <1>2 DEF Keeps, ConnFields
<1>5. LowFits(d, t, None)
  <2> SUFFICES ASSUME Serving(d), Concerns(d, 4), Timely(d), NEW s \in DOMAIN d.sub, Graded(s)
               PROVE  d.owned \/ Ranked(t, s)
    BY DEF LowFits
  <2>1. PICK u \in DOMAIN c.sub :
           /\ s.src = u.src /\ s.lid = u.lid /\ s.master = u.master /\ s.open = u.open
           /\ s.low = IF u \in DOMAIN low THEN low[u] ELSE u.low
    BY <1>2
  <2>2. Graded(u) /\ Fam(u.src) = 4
    BY <2>1 DEF Graded
  <2>3. CASE u.src = e.addr
    <3>1. s.src = e.addr /\ s.low = e.low
      BY <1>3, <2>1, <2>2, <2>3
    <3>2. HasEntry(t, e.addr, e.low)
      BY DEF NowFits
    <3> QED
      BY <3>1, <3>2 DEF Ranked
  <2>4. CASE u.src # e.addr
    <3>1. c.owned \/ Ranked(t, u)
      BY <1>4, <2>1, <2>2, <2>4 DEF Agree, LowFits, Changing, Serving, Concerns, Timely
    <3>2. s.low = u.low
      BY <1>3, <2>1, <2>2, <2>4
    <3> QED
      BY <1>4, <2>1, <3>1, <3>2 DEF Ranked, FurtherOfFirstPair
  <2> QED
    BY <2>3, <2>4
<1>6. Seen(d, t)
  BY <1>4 DEF Agree, Seen, Timely
<1> QED
  BY <1>1, <1>5, <1>6 DEF Agree

LEMMA ApplyPrio ==
  ASSUME FMInv, MeshInv, PrioInv, ApplyEvent
  PROVE  PrioInv'
<1> DEFINE e == ns.now
           t == ns.loc
           applies == /\ conn.phase = "open" /\ Concerns(conn, Fam(e.addr))
                      /\ ~conn.infinite /\ conn.pm = "fullmesh"
<1>1. /\ e # None /\ ns' = [ns EXCEPT !.now = None]
      /\ \/ ~applies /\ conn' = conn
         \/ applies /\ conn' = [conn EXCEPT !.owned = TRUE]
         \/ applies /\ conn' = Applied(conn, e, t)
  BY DEF ApplyEvent
<1>2. ns'.loc = t /\ ns'.now = None /\ TableInv(t)
  <2>1. ns = [loc |-> ns.loc, events |-> ns.events, now |-> ns.now] /\ TableInv(t)
    BY DEF FMInv
  <2> QED
    BY <1>1, <2>1
<1>3. /\ ConnInv(conn, t, e) /\ IsNow(e) /\ Typed(conn) /\ IsConn(conn) /\ IsWork(conn.work)
      /\ \A s \in DOMAIN conn.sub : IsSub(s)
      /\ Agree(conn, t, e) /\ NowFits(e, t)
  BY DEF MeshInv, ConnInv, Typed, PrioInv
<1> SUFFICES Agree(conn', t, None)
  BY <1>2 DEF PrioInv, NowFits
<1>4. CASE ~applies /\ conn' = conn
  <2>1. Serving(conn) /\ Concerns(conn, 4) => Fam(e.addr) # 4
    BY <1>4 DEF Serving
  <2>2. LowFits(conn, t, None)
    BY <1>3, <2>1 DEF Agree, LowFits, Changing, Graded
  <2> QED
    BY <1>3, <1>4, <2>2 DEF Agree
<1>5. CASE applies /\ conn' = [conn EXCEPT !.owned = TRUE]
  <2> DEFINE d == [conn EXCEPT !.owned = TRUE]
  <2>1. Keeps(conn, d, {"owned"}) /\ d.owned = TRUE
    BY <1>3 DEF IsConn, Keeps, ConnFields
  <2> HIDE DEF d
  <2>2. d.req = conn.req /\ d.work = conn.work /\ d.retry = conn.retry /\ d.late = conn.late
    BY <2>1 DEF Keeps, ConnFields
  <2>3. LowFits(d, t, None)
    BY <2>1 DEF LowFits
  <2>4. Seen(d, t)
    BY <1>3, <2>2 DEF Agree, Seen, Timely
  <2> QED
    BY <1>5, <2>3, <2>4 DEF Agree, d
<1>6. CASE applies /\ conn' = Applied(conn, e, t)
  <2> HIDE DEF e, t
  <2>1. conn.phase # "none" /\ e.code \in {"add", "del", "mod"}
    BY <1>1, <1>3, <1>6 DEF IsNow
  <2>2. e.code = "add" => Agree(conn, t, None)
    BY <1>3 DEF Agree, LowFits, Changing
  <2>3. CASE e.code = "add"
    <3> DEFINE n == conn.add + 1
               d == [conn EXCEPT !.add = n]
    <3>1. conn' = CreateSubflows(d)
      BY <1>6, <2>3 DEF Applied, AppliedAdd
    <3> HIDE DEF n
    <3>2. Keeps(conn, d, {"add"})
      BY <1>3 DEF IsConn, Keeps, ConnFields
    <3> HIDE DEF d
    <3>3. Keeps(conn, d, Aside) /\ IsConn(d) /\ d.sub = conn.sub /\ d.work = conn.work
      BY <3>2 DEF Keeps, ConnFields, Aside
    <3>4. Agree(d, t, None)
      BY <2>2, <2>3, <3>3, AgreeKeptSubs
    <3> QED
      BY <1>3, <3>1, <3>3, <3>4, CreateAgrees
  <2>4. CASE e.code = "del"
    <3>1. conn' = AppliedDel(conn, e, t)
      BY <1>6, <2>4 DEF Applied
    <3>2. /\ Keeps(conn, conn', {"told", "ann", "rem", "sub", "remove"})
          /\ \A s \in DOMAIN conn'.sub : s.open => s \in DOMAIN conn.sub /\ s.src # e.addr
      BY <1>1, <1>2, <1>3, <2>1, <2>4, <3>1, AppliedDelKeeps
    <3>3. Keeps(conn, conn', Aside)
      BY <3>2 DEF Keeps, Aside
    <3>4. Agree(conn', t, e)
      BY <1>3, <3>2, <3>3, AgreeKeptSubs DEF Graded
    <3> QED
      BY <3>2, <3>4 DEF Agree, LowFits, Changing, Graded
  <2>5. CASE e.code = "mod"
    <3>1. conn' = AppliedMod(conn, e)
      BY <1>6, <2>5 DEF Applied
    <3> QED
      BY <1>1, <1>3, <2>5, <3>1, ModPrio
  <2> QED
    BY <2>1, <2>3, <2>4, <2>5
<1> QED
  BY <1>1, <1>4, <1>5, <1>6

LEMMA InitPrio ==
  Init => PrioInv
<1> SUFFICES ASSUME Init PROVE PrioInv
  OBVIOUS
<1>1. PICK k \in Cases : conn = NoConnection(k.kind)
  BY DEF Init
<1>2. /\ ns.now = None /\ conn.phase = "none" /\ conn.req = None
      /\ conn.work = [pending |-> FALSE, run |-> None]
      /\ conn.retry = [pending |-> FALSE, run |-> None]
  BY <1>1 DEF Init, NoConnection
<1>3. conn.work.run = None /\ conn.retry.run = None
  BY <1>2
<1> QED
  BY <1>2, <1>3 DEF PrioInv, Agree, LowFits, Serving, Seen, CopyFits, NowFits

LEMMA StepPrio ==
  FMInv /\ MeshInv /\ PrioInv /\ [Next]_vars => PrioInv'
<1> SUFFICES ASSUME FMInv, MeshInv, PrioInv, [Next]_vars PROVE PrioInv'
  OBVIOUS
<1>1. CASE \E a \in Addr : DeviceChanges(a)
  BY <1>1, DevicePrio
<1>2. CASE TakeEvent \/ ApplyEvent
  BY <1>2, TakePrio, ApplyPrio
<1>3. CASE NewSession \/ FullyEstablished \/ Release
  BY <1>3, NewSessionPrio, EstablishedPrio, ReleasePrio
<1>4. CASE WorkerStart \/ WorkerStep \/ RetryStart \/ RetryStep
  BY <1>4, WorkerStartPrio, WorkerStepPrio, RetryStepPrio
<1>5. CASE RecvAddAddr \/ RecvRemAddr \/ SubflowLost \/ Reap
  BY <1>5, AddAddrPrio, RemAddrPrio, LostPrio, ReapPrio
<1>6. CASE JoinRequest \/ JoinDone \/ JoinExpires \/ AddrSignal \/ Ends
  BY <1>6, RequestPrio, JoinPrio, ExpiryPrio, SignalPrio, EndsPrio
<1>7. CASE UNCHANGED vars
  BY <1>7 DEF vars, PrioInv
<1> QED
  BY <1>1, <1>2, <1>3, <1>4, <1>5, <1>6, <1>7 DEF Next

LEMMA PriosFollow ==
  FMInv /\ MeshInv /\ PrioInv => PrioFollows
<1> DEFINE t == ns.loc
           i(s) == FindAddress(t, s.src)
<1> SUFFICES ASSUME FMInv, MeshInv, PrioInv, Quiet, Serves, Timely(conn),
                    NEW s \in DOMAIN conn.sub, s.open, Fam(s.src) = 4, Concerns(conn, 4)
             PROVE  \/ i(s) # None /\ s.low = t[4].low[i(s)]
                    \/ FurtherOfFirstPair(s) /\ ~s.low
  BY DEF PrioFollows, Timely
<1>1. TableInv(t) /\ Agree(conn, t, None) /\ s.src \in Addr
  BY DEF FMInv, MeshInv, ConnInv, Typed, IsSub, PrioInv, Quiet
<1>2. ~conn.owned /\ Serving(conn) /\ Graded(s)
  BY DEF Quiet, Serves, Live, Serving, Graded
<1>3. Ranked(t, s)
  BY <1>1, <1>2 DEF Agree, LowFits, Changing
<1>4. CASE HasEntry(t, s.src, s.low)
  <2>1. i(s) # None
    BY <1>1, <1>4, FoundInTable DEF HasEntry, InTable
  <2>2. i(s) \in t[4].bits /\ t[4].addr[i(s)] = s.src
    BY <1>1, <2>1, FindAddressFinds
  <2>3. PICK k \in t[4].bits : t[4].addr[k] = s.src /\ t[4].low[k] = s.low
    BY <1>4 DEF HasEntry
  <2> HIDE DEF i
  <2>4. k = i(s)
    BY <1>1, <2>2, <2>3 DEF TableInv, Family
  <2>5. t[4].low[i(s)] = s.low
    BY <2>3, <2>4
  <2> HIDE DEF t
  <2> QED
    BY <2>1, <2>5
<1> QED
  BY <1>3, <1>4 DEF Ranked

(***************************************************************************)
(* However changes of the priority meet with the workers and the joins,    *)
(* that make subflows from what they have seen of the table, and with an   *)
(* owner of the socket: once all is quiet the IPv4 subflows have the       *)
(* priority of their address, from mptcp_address_worker() or from          *)
(* full_mesh_release_sock() (mptcp_fullmesh.c:1408).  The further ones of  *)
(* the first pair have it too, or the normal one they were created with    *)
(* (mptcp_fullmesh.c:481).  The history excludes an address that goes, or  *)
(* a priority that changes, while a worker or a join has seen the table.   *)
(***************************************************************************)
THEOREM PriorityFollows == Spec => []PrioFollows
<1>1. Init => FMInv /\ MeshInv /\ PrioInv
  BY InitMeets, InitKeeps, InitPrio
<1>2. FMInv /\ MeshInv /\ PrioInv /\ [Next]_vars => FMInv' /\ MeshInv' /\ PrioInv'
  BY StepMeets, StepKeeps, StepPrio
<1>3. FMInv /\ MeshInv /\ PrioInv => PrioFollows
  BY PriosFollow
<1> QED
  BY <1>1, <1>2, <1>3, PTL DEF Spec

(***************************************************************************)
(* What the peer is told                                                   *)
(***************************************************************************)

\* The slots the peer has not been told of.
Wanted(c, t) ==
    {p \in Family \X Slot : Concerns(c, p[1]) /\ p[2] \in t[p[1]].bits /\ p[2] \notin c.ann[p[1]]}

\* The event being applied counts one more.
Counts(c, e) == IF e # None /\ e.code = "add" /\ Concerns(c, Fam(e.addr)) THEN 1 ELSE 0

\* They are counted by add_addr, or will be at the release.
Counted(c, t, e) == c.owned \/ Cardinality(Wanted(c, t)) <= c.add + Counts(c, e)

\* The peer has heard of the address of a slot that is noted as announced.
Heard(c, t) ==
    \A f \in Family : Concerns(c, f) => \A i \in c.ann[f] : i \in t[f].bits => t[f].addr[i] \in c.told

Said(c, t, e) ==
    Serving(c) /\ c.late \cap {"again", "unsaid"} = {} => Counted(c, t, e) /\ Heard(c, t)

SaidInv == Said(conn, ns.loc, ns.now)

LEMMA WantedFinite ==
  ASSUME NEW c, NEW t
  PROVE  /\ IsFiniteSet(Wanted(c, t)) /\ Cardinality(Wanted(c, t)) \in Nat
         /\ \A S : S \subseteq Wanted(c, t) => Cardinality(S) <= Cardinality(Wanted(c, t))
<1>1. \A S \in SUBSET (Family \X Slot) : IsFiniteSet(S)
  BY PairsFinite, FS_Subset
<1>2. Wanted(c, t) \in SUBSET (Family \X Slot)
  BY DEF Wanted
<1> QED
  BY <1>1, <1>2, FS_Subset, FS_CardinalityType

\* What is said of the addresses is as before, and nothing that was told is forgotten.
Tells(c, d) ==
    /\ IsConn(d) /\ \A x \in {"phase", "kind", "pm", "owned", "add", "ann"} : d[x] = c[x]
    /\ c.told \subseteq d.told /\ c.late \subseteq d.late /\ (c.infinite => d.infinite)

LEMMA TellsSaid ==
  ASSUME NEW c, NEW d, NEW t, NEW e, Said(c, t, e), Tells(c, d)
  PROVE  Said(d, t, e)
<1>1. /\ d.phase = c.phase /\ d.kind = c.kind /\ d.pm = c.pm /\ d.owned = c.owned
      /\ d.add = c.add /\ d.ann = c.ann
  BY DEF Tells
<1>2. \A f : Concerns(d, f) <=> Concerns(c, f)
  BY <1>1 DEF Concerns
<1>3. Wanted(d, t) = Wanted(c, t) /\ Counts(d, e) = Counts(c, e)
  BY <1>1, <1>2 DEF Wanted, Counts
<1>4. Heard(c, t) => Heard(d, t)
  BY <1>1, <1>2 DEF Heard, Tells
<1>5. Serving(d) /\ d.late \cap {"again", "unsaid"} = {} =>
        Serving(c) /\ c.late \cap {"again", "unsaid"} = {}
  BY <1>1 DEF Serving, Tells
<1> QED
  BY <1>1, <1>3, <1>4, <1>5 DEF Said, Counted

LEMMA TellsOn ==
  ASSUME NEW c, NEW d, NEW b, Tells(c, d), Tells(d, b)
  PROVE  Tells(c, b)
BY DEF Tells

\* The fields that have nothing to do with it.
Unheard == ConnFields \ {"phase", "kind", "pm", "owned", "add", "ann", "told", "late", "infinite"}

LEMMA TellsKept ==
  ASSUME NEW c, NEW d, Keeps(c, d, Unheard)
  PROVE  Tells(c, d)
BY DEF Keeps, Tells, Unheard, ConnFields

LEMMA SubflowsTell ==
  ASSUME NEW c, IsConn(c), NEW src, NEW dst, NEW lid, NEW rid, NEW low, NEW k
  PROVE  Tells(c, WithSubflows(c, src, dst, lid, rid, low, k))
<1> DEFINE s == [src |-> src, dst |-> dst, lid |-> lid, rid |-> rid, low |-> low,
                 master |-> FALSE, open |-> TRUE]
           b == c.sub (+) [new \in {s} |-> k]
           told == c.told \cup {src}
           d == [c EXCEPT !.sub = b, !.told = told]
<1>1. WithSubflows(c, src, dst, lid, rid, low, k) = IF k = 0 THEN c ELSE d
  BY DEF WithSubflows
<1>2. c.told \subseteq told
  OBVIOUS
<1> HIDE DEF s, b, told
<1>3. Tells(c, d) /\ Tells(c, c)
  BY <1>2 DEF IsConn, ConnFields, Tells
<1> HIDE DEF d
<1> QED
  BY <1>1, <1>3

LEMMA SubsocketsTell ==
  ASSUME NEW c, IsConn(c), NEW copy, NEW f, NEW j, NEW i, NEW src, NEW k
  PROVE  Tells(c, Subsockets(c, copy, f, j, i, src, k))
BY SubflowsTell DEF Subsockets

LEMMA CreateTells ==
  ASSUME NEW c, IsConn(c), IsWork(c.work)
  PROVE  Tells(c, CreateSubflows(c))
<1>1. Keeps(c, CreateSubflows(c), {"work"})
  BY CreateKeeps
<1>2. Keeps(c, CreateSubflows(c), Unheard)
  BY <1>1 DEF Keeps, Unheard, ConnFields
<1> QED
  BY <1>2, TellsKept

LEMMA FirstPairTells ==
  ASSUME NEW c, IsConn(c), NEW k
  PROVE  Tells(c, FirstPair(c, k))
<1> DEFINE src == c.source
           d == WithSubflows(c, src, MasterDst[Fam(src)], 0, 0, FALSE, k)
           S == {w \in {"source"} : k > 0 /\ FindAddress(ns.loc, src) = None}
           b == [d EXCEPT !.first = TRUE, !.late = @ \cup S]
<1>1. FirstPair(c, k) = c \/ FirstPair(c, k) = b
  BY DEF FirstPair
<1>2. Tells(c, c)
  BY DEF Tells
<1>3. Tells(c, d)
  BY SubflowsTell
<1> HIDE DEF d, S
<1>4. Tells(d, b)
  BY <1>3 DEF Tells, IsConn, ConnFields
<1> HIDE DEF b
<1> QED
  BY <1>1, <1>2, <1>3, <1>4, TellsOn

LEMMA WorkerTells ==
  ASSUME FMInv, MeshInv, WorkerStep
  PROVE  Tells(conn, conn')
<1>1. PICK x \in FirstPairs(conn) : WorkerSteps(FirstPair(conn, x), conn')
  BY WorkerStepIs
<1> DEFINE c == FirstPair(conn, x)
<1>2. Tells(conn, c) /\ IsConn(c)
  BY FirstPairTells DEF MeshInv, ConnInv, Typed, Tells
<1>3. WorkerSteps(c, conn')
  BY <1>1
<1> HIDE DEF c
<1> SUFFICES Tells(c, conn')
  BY <1>2, TellsOn
<1>4. CASE \/ conn' = [c EXCEPT !.work.run = None]
           \/ \E b : conn' = [c EXCEPT !.work.run = None, !.retry.pending = b]
  BY <1>2, <1>4 DEF Tells, IsConn, ConnFields
<1>5. ASSUME NEW f \in Family, NEW j \in Slot, NEW i \in Slot, TakesPair(c, conn', f, j, i)
      PROVE  Tells(c, conn')
  <2> DEFINE copy == c.work.run.loc
             d == [c EXCEPT !.rem[f][j].bits = @ \cup {i}]
             g == [d EXCEPT !.rem[f][j].retry = @ \cup {i}]
             h == [g EXCEPT !.work.run.again = TRUE]
  <2>1. \/ \E k : conn' = Subsockets(d, copy, f, j, i, copy[f].addr[i], k)
        \/ conn' = h
    BY <1>5 DEF TakesPair
  <2>2. Tells(c, d) /\ IsConn(d)
    BY <1>2 DEF Tells, IsConn, ConnFields
  <2> HIDE DEF d, copy
  <2>3. Tells(d, g) /\ IsConn(g)
    BY <2>2 DEF Tells, IsConn, ConnFields
  <2> HIDE DEF g
  <2>4. Tells(g, h)
    BY <2>3 DEF Tells, IsConn, ConnFields
  <2> HIDE DEF h
  <2>5. Tells(c, h)
    BY <2>2, <2>3, <2>4, TellsOn
  <2>6. \A k : Tells(c, Subsockets(d, copy, f, j, i, copy[f].addr[i], k))
    BY <2>2, SubsocketsTell, TellsOn
  <2> QED
    BY <2>1, <2>5, <2>6
<1> QED
  BY <1>3, <1>4, <1>5 DEF WorkerSteps

LEMMA RetryTells ==
  ASSUME FMInv, MeshInv, RetryStep
  PROVE  Tells(conn, conn')
<1>1. IsConn(conn)
  BY DEF MeshInv, ConnInv, Typed
<1>2. RetrySteps(conn, conn')
  BY RetryStepIs
<1>3. CASE conn' = [conn EXCEPT !.retry.run = None]
  BY <1>1, <1>3 DEF Tells, IsConn, ConnFields
<1>4. ASSUME NEW f \in Family, NEW j \in Slot, NEW i \in Slot, TriesAgain(conn, conn', f, j, i)
      PROVE  Tells(conn, conn')
  <2> DEFINE copy == conn.retry.run.loc
             b == [conn EXCEPT !.rem[f][j].bits = @ \cup {i}]
             r == [b EXCEPT !.rem[f][j].retry = @ \ {i}]
             S == Outdated(copy, f, i)
             d == [r EXCEPT !.late = @ \cup S]
  <2>1. PICK src, k : conn' = Subsockets(d, copy, f, j, i, src, k)
    BY <1>4 DEF TriesAgain
  <2>2. Tells(conn, b) /\ IsConn(b)
    BY <1>1 DEF Tells, IsConn, ConnFields
  <2> HIDE DEF b, copy, S
  <2>3. Tells(b, r) /\ IsConn(r)
    BY <2>2 DEF Tells, IsConn, ConnFields
  <2> HIDE DEF r
  <2>4. Tells(r, d) /\ IsConn(d)
    BY <2>3 DEF Tells, IsConn, ConnFields
  <2> HIDE DEF d
  <2>5. Tells(d, conn')
    BY <2>1, <2>4, SubsocketsTell
  <2> QED
    BY <2>2, <2>3, <2>4, <2>5, TellsOn
<1> QED
  BY <1>2, <1>3, <1>4 DEF RetrySteps

\* The handlers that say nothing.
LEMMA OthersTell ==
  ASSUME FMInv, MeshInv,
         \/ FullyEstablished \/ WorkerStart \/ RetryStart \/ RecvAddAddr \/ RecvRemAddr
         \/ SubflowLost \/ Reap \/ JoinRequest \/ JoinDone \/ JoinExpires \/ Ends
  PROVE  Tells(conn, conn') /\ ns' = ns
<1>1. /\ IsConn(conn) /\ IsRem(conn.rem) /\ IsWork(conn.work) /\ \A s \in DOMAIN conn.sub : IsSub(s)
  BY DEF MeshInv, ConnInv, Typed
<1>2. CASE FullyEstablished
  <2> DEFINE d == [conn EXCEPT !.master = "est"]
  <2>1. conn' = CreateSubflows(d) /\ ns' = ns
    BY <1>2 DEF FullyEstablished
  <2>2. Tells(conn, d) /\ d.work = conn.work
    BY <1>1 DEF Tells, IsConn, ConnFields
  <2> HIDE DEF d
  <2>3. Tells(d, conn')
    BY <1>1, <2>1, <2>2, CreateTells DEF Tells
  <2> QED
    BY <2>1, <2>2, <2>3, TellsOn
<1>3. CASE WorkerStart \/ RetryStart
  BY <1>1, <1>3 DEF WorkerStart, RetryStart, Tells, IsConn, ConnFields
<1>4. CASE RecvAddAddr
  <2>1. ns' = ns
    BY <1>4 DEF RecvAddAddr
  <2>2. CASE conn' = conn
    BY <1>1, <2>1, <2>2 DEF Tells
  <2>3. ASSUME NEW c, NEW d, PeersOf(conn, c), Keeps(c, d, {"late"}), c.late \subseteq d.late,
               conn' = CreateSubflows(d)
        PROVE  Tells(conn, conn')
    <3>1. Tells(conn, d) /\ IsConn(d) /\ IsWork(d.work)
      BY <1>1, <2>3 DEF PeersOf, Keeps, Tells, ConnFields
    <3>2. Tells(d, conn')
      BY <2>3, <3>1, CreateTells
    <3> QED
      BY <3>1, <3>2, TellsOn
  <2> QED
    BY <1>4, <2>1, <2>2, <2>3, AddAddrIs
<1>5. CASE RecvRemAddr
  <2>1. PICK id : conn' = Closed(RemRaddr(conn, id), {s \in DOMAIN conn.sub : s.rid = id})
    BY <1>5 DEF RecvRemAddr
  <2> DEFINE c == RemRaddr(conn, id)
             S == {s \in DOMAIN conn.sub : s.rid = id}
  <2>2. PeersOf(conn, c)
    BY <1>1, RemRaddrPeers
  <2>3. conn' = Closed(c, S)
    BY <2>1
  <2> HIDE DEF c, S
  <2>4. Tells(conn, c) /\ IsConn(c) /\ c.sub = conn.sub
    BY <2>2 DEF PeersOf, Keeps, Tells, ConnFields
  <2>5. Keeps(c, conn', {"sub"})
    BY <1>1, <2>3, <2>4, ClosedSubs
  <2>6. Tells(c, conn')
    BY <2>5 DEF Keeps, Tells, ConnFields
  <2> QED
    BY <1>5, <2>4, <2>6, TellsOn DEF RecvRemAddr
<1>6. CASE SubflowLost
  <2>1. PICK b : conn' = [conn EXCEPT !.sub = b]
    BY <1>6 DEF SubflowLost
  <2> QED
    BY <1>1, <1>6, <2>1 DEF SubflowLost, Tells, IsConn, ConnFields
<1>7. CASE Reap
  <2>1. PICK s : conn' = [conn EXCEPT !.sub = @ (-) SetToBag({s}),
                            !.master = IF s.master THEN "gone" ELSE @,
                            !.late = IF s.master /\ conn.master = "new" THEN @ \cup {"early"} ELSE @]
    BY <1>7 DEF Reap
  <2> DEFINE b == conn.sub (-) SetToBag({s})
             m == IF s.master THEN "gone" ELSE conn.master
             l == IF s.master /\ conn.master = "new" THEN conn.late \cup {"early"} ELSE conn.late
  <2>2. conn' = [conn EXCEPT !.sub = b, !.master = m, !.late = l] /\ conn.late \subseteq l
    BY <2>1
  <2> HIDE DEF b, m, l
  <2> QED
    BY <1>1, <1>7, <2>2 DEF Reap, Tells, IsConn, ConnFields
<1>8. CASE JoinRequest
  <2>1. PICK q : conn' = [conn EXCEPT !.req = q]
    BY <1>8 DEF JoinRequest
  <2> QED
    BY <1>1, <1>8, <2>1 DEF JoinRequest, Tells, IsConn, ConnFields
<1>9. CASE JoinDone
  <2> DEFINE q == conn.req
             d == WithSubflows(conn, q.src, q.dst, q.lid, q.rid, q.low, 1)
  <2>1. ns' = ns /\ conn' = [d EXCEPT !.req = None]
    BY <1>9 DEF JoinDone
  <2>2. Tells(conn, d) /\ IsConn(d)
    BY <1>1, SubflowsTell DEF Tells
  <2> HIDE DEF d
  <2>3. Tells(d, conn')
    BY <2>1, <2>2 DEF Tells, IsConn, ConnFields
  <2> QED
    BY <2>1, <2>2, <2>3, TellsOn
<1>10. CASE JoinExpires \/ Ends
  BY <1>1, <1>10 DEF JoinExpires, Ends, Tells, IsConn, ConnFields
<1> QED
  BY <1>2, <1>3, <1>4, <1>5, <1>6, <1>7, <1>8, <1>9, <1>10

\* The set of slots shrinks when one is announced.
LEMMA AnnouncedSaid ==
  ASSUME NEW c, Typed(c), c.add > 0, NEW t, TableInv(t), NEW e, NEW f \in Family, Concerns(c, f),
         t[f].bits \ c.ann[f] # {}, Said(c, t, e)
  PROVE  Said(Announced(c, t, f), t, e) /\ IsConn(Announced(c, t, f))
<1> DEFINE i == First(t[f].bits \ c.ann[f])
           a == t[f].addr[i]
           d == Announced(c, t, f)
           ann == [c.ann EXCEPT ![f] = @ \cup {i}]
           told == c.told \cup {a}
           add == c.add - 1
<1>1. i \in t[f].bits \ c.ann[f]
  <2> DEFINE S == t[f].bits \ c.ann[f]
  <2>1. S \in SUBSET Slot
    BY DEF TableInv, Table
  <2>2. S # {}
    OBVIOUS
  <2> HIDE DEF S
  <2>3. First(S) \in S
    BY <2>1, <2>2, FirstSlot
  <2> QED
    BY <2>3 DEF S
<1>2. i \in Slot
  <2> HIDE DEF i
  <2> QED
    BY <1>1 DEF TableInv, Table
<1>3. d = [c EXCEPT !.ann = ann, !.add = add, !.told = told]
  BY DEF Announced, Typed, IsConn, ConnFields
<1> HIDE DEF i
<1>4. /\ \A g \in Family : ann[g] = IF g = f THEN c.ann[f] \cup {i} ELSE c.ann[g]
      /\ add \in Int /\ c.add = add + 1 /\ told = c.told \cup {t[f].addr[i]}
  BY DEF Typed
<1> HIDE DEF a, ann, add, told, d
<1>5. /\ IsConn(d) /\ d.phase = c.phase /\ d.kind = c.kind /\ d.pm = c.pm /\ d.owned = c.owned
      /\ d.infinite = c.infinite /\ d.late = c.late
      /\ d.ann = ann /\ d.add = add /\ d.told = told
  BY <1>3 DEF Typed, IsConn, ConnFields
<1>6. \A g : Concerns(d, g) <=> Concerns(c, g)
  BY <1>5 DEF Concerns
<1>7. Cardinality(Wanted(d, t)) = Cardinality(Wanted(c, t)) - 1
  <2>1. <<f, i>> \in Wanted(c, t)
    BY <1>1, <1>2 DEF Wanted
  <2>2. Wanted(d, t) = Wanted(c, t) \ {<<f, i>>}
    <3>1. ASSUME NEW p \in Family \X Slot
          PROVE  p \in Wanted(d, t) <=> p \in Wanted(c, t) /\ p # <<f, i>>
      <4>1. p = <<p[1], p[2]>> /\ p[1] \in Family
        OBVIOUS
      <4> QED
        BY <1>4, <1>5, <1>6, <4>1 DEF Wanted
    <3>2. Wanted(d, t) \subseteq Family \X Slot /\ Wanted(c, t) \subseteq Family \X Slot
      BY DEF Wanted
    <3> QED
      BY <3>1, <3>2
  <2> QED
    BY <2>1, <2>2, WantedFinite, FS_RemoveElement
<1>8. Counts(d, e) = Counts(c, e) /\ Counts(c, e) \in Int
  BY <1>6 DEF Counts
<1>9. Counted(c, t, e) => Counted(d, t, e)
  BY <1>4, <1>5, <1>7, <1>8, WantedFinite DEF Counted
<1>10. Heard(c, t) => Heard(d, t)
  BY <1>4, <1>5, <1>6 DEF Heard
<1> QED
  BY <1>5, <1>9, <1>10 DEF Said, Serving, d

LEMMA SignalSaid ==
  ASSUME FMInv, MeshInv, SaidInv, AddrSignal
  PROVE  SaidInv'
<1>1. PICK room \in SUBSET Family, fits \in BOOLEAN :
        LET c == AddressSignalled(conn, ns.loc, room)
        IN  conn' = IF fits THEN [c EXCEPT !.remove = {}] ELSE c
  BY DEF AddrSignal
<1> DEFINE c == AddressSignalled(conn, ns.loc, room)
           t == ns.loc
           e == ns.now
           new(f) == IF Concerns(conn, f) THEN t[f].bits \ conn.ann[f] ELSE {}
<1>2. TableInv(t) /\ Typed(conn) /\ IsConn(conn) /\ conn.add \in Nat /\ Said(conn, t, e) /\ ns' = ns
  BY DEF FMInv, MeshInv, ConnInv, Typed, SaidInv, AddrSignal
<1>3. \/ c = conn
      \/ c = [conn EXCEPT !.add = @ - 1] /\ conn.add > 0 /\ new(4) = {} /\ new(6) = {}
      \/ \E f \in Family : conn.add > 0 /\ new(f) # {} /\ c = Announced(conn, t, f)
  <2>1. conn.add = 0 \/ conn.add > 0
    BY <1>2
  <2>2. CASE conn.add = 0
    <3>1. c = conn
      BY <2>2 DEF AddressSignalled
    <3> QED
      BY <3>1
  <2>3. CASE conn.add > 0 /\ new(4) # {} /\ 4 \in room
    <3>1. c = Announced(conn, t, 4)
      BY <2>3 DEF AddressSignalled
    <3> QED
      BY <2>3, <3>1 DEF Family
  <2>4. CASE conn.add > 0 /\ (new(4) = {} \/ 4 \notin room) /\ new(6) # {} /\ 6 \in room
    <3>1. c = Announced(conn, t, 6)
      BY <2>4 DEF AddressSignalled
    <3> QED
      BY <2>4, <3>1 DEF Family
  <2>5. CASE /\ conn.add > 0 /\ ~(new(4) # {} /\ 4 \in room)
             /\ ~((new(4) = {} \/ 4 \notin room) /\ new(6) # {} /\ 6 \in room)
    <3>1. c = IF new(4) = {} /\ new(6) = {} THEN [conn EXCEPT !.add = @ - 1] ELSE conn
      BY <2>5 DEF AddressSignalled
    <3> HIDE DEF c, new
    <3> QED
      BY <2>5, <3>1
  <2> HIDE DEF c, new, t
  <2> QED
    BY <2>1, <2>2, <2>3, <2>4, <2>5
<1>4. conn' = c \/ conn' = [c EXCEPT !.remove = {}]
  BY <1>1
<1> HIDE DEF c
<1>5. Said(c, t, e) /\ IsConn(c)
  <2>1. CASE c = conn
    BY <1>2, <2>1
  <2>2. CASE c = [conn EXCEPT !.add = @ - 1] /\ conn.add > 0 /\ new(4) = {} /\ new(6) = {}
    <3>1. /\ IsConn(c) /\ c.phase = conn.phase /\ c.kind = conn.kind /\ c.pm = conn.pm
          /\ c.owned = conn.owned /\ c.infinite = conn.infinite /\ c.late = conn.late
          /\ c.ann = conn.ann /\ c.add = conn.add - 1 /\ c.told = conn.told
      BY <1>2, <2>2 DEF IsConn, ConnFields
    <3>2. \A g : Concerns(c, g) <=> Concerns(conn, g)
      BY <3>1 DEF Concerns
    <3>3. Wanted(c, t) = {}
      BY <2>2, <3>1, <3>2 DEF Wanted, Family
    <3>4. Cardinality(Wanted(c, t)) = 0 /\ Counts(c, e) \in Nat /\ c.add \in Nat
      BY <1>2, <2>2, <3>1, <3>3, FS_EmptySet DEF Counts
    <3>5. Counted(c, t, e)
      BY <3>4 DEF Counted
    <3>6. Heard(conn, t) => Heard(c, t)
      BY <3>1, <3>2 DEF Heard
    <3> QED
      BY <1>2, <3>1, <3>5, <3>6 DEF Said, Serving
  <2>3. ASSUME NEW f \in Family, conn.add > 0, new(f) # {}, c = Announced(conn, t, f)
        PROVE  Said(c, t, e) /\ IsConn(c)
    <3>1. Concerns(conn, f) /\ t[f].bits \ conn.ann[f] # {}
      BY <2>3
    <3> HIDE DEF t, e
    <3> QED
      BY <1>2, <2>3, <3>1, AnnouncedSaid
  <2> QED
    BY <1>3, <2>1, <2>2, <2>3
<1>6. Tells(c, conn')
  BY <1>4, <1>5 DEF Tells, IsConn, ConnFields
<1>7. Said(conn', t, e)
  BY <1>5, <1>6, TellsSaid
<1> QED
  BY <1>2, <1>7 DEF SaidInv

\* The bits and the addresses of slots out of use are forgotten.
LEMMA UpdatedSaid ==
  ASSUME NEW c, IsConn(c), c.ann \in [Family -> SUBSET Slot], IsRem(c.rem), NEW t, TableInv(t), NEW e, Said(c, t, e)
  PROVE  Said(UpdateBitfields(c, t), t, e)
<1> DEFINE d == UpdateBitfields(c, t)
<1>1. /\ Keeps(c, d, {"told", "ann", "rem"})
      /\ \A f \in Family : d.ann[f] = c.ann[f] \cap t[f].bits
      /\ d.told = {a \in c.told : FindAddress(t, a) # None}
  BY UpdatedBitfields
<1> HIDE DEF d
<1>2. /\ d.phase = c.phase /\ d.kind = c.kind /\ d.pm = c.pm /\ d.owned = c.owned
      /\ d.infinite = c.infinite /\ d.late = c.late /\ d.add = c.add
  BY <1>1 DEF Keeps, ConnFields
<1>3. \A g : Concerns(d, g) <=> Concerns(c, g)
  BY <1>2 DEF Concerns
<1>4. Wanted(d, t) = Wanted(c, t) /\ Counts(d, e) = Counts(c, e)
  BY <1>1, <1>3 DEF Wanted, Counts
<1>5. Heard(c, t) => Heard(d, t)
  <2> SUFFICES ASSUME Heard(c, t), NEW f \in Family, Concerns(d, f), NEW i \in d.ann[f], i \in t[f].bits
               PROVE  t[f].addr[i] \in d.told
    BY DEF Heard
  <2>1. t[f].addr[i] \in c.told
    BY <1>1, <1>3 DEF Heard
  <2>2. t[f].addr[i] \in Addr /\ InTable(t, t[f].addr[i])
    BY SlotAddresses
  <2> QED
    BY <1>1, <2>1, <2>2, FoundInTable
<1>6. Said(d, t, e)
  BY <1>2, <1>4, <1>5 DEF Said, Serving, Counted
<1> QED
  BY <1>6 DEF d

\* An address that goes leaves fewer slots to announce.
LEMMA LossSaid ==
  ASSUME FMInv, MeshInv, SaidInv, ns.now = None, NEW e \in Event, e.code = "del",
         FindAddress(ns.loc, e.addr) # None
  PROVE  Said([conn EXCEPT !.late = @ \cup Late(e)], Without(ns.loc, e), Taken(ns.loc, e))
<1> DEFINE t == ns.loc
           u == Without(t, e)
           n == Taken(t, e)
           S == Late(e)
           d == [conn EXCEPT !.late = @ \cup S]
<1>1. TableInv(t) /\ IsConn(conn) /\ conn.add \in Nat /\ Said(conn, t, None) /\ e.addr \in Addr
  BY DEF FMInv, MeshInv, ConnInv, Typed, Event, SaidInv
<1>2. \A f \in Family : u[f].bits \subseteq t[f].bits /\ u[f].addr = t[f].addr
  BY <1>1, FamilyOf DEF Without, TableInv, Table
<1> HIDE DEF n, u, S
<1>3. Tells(conn, d)
  BY <1>1 DEF Tells, IsConn, ConnFields
<1> HIDE DEF d
<1>4. Said(d, t, None)
  BY <1>1, <1>3, TellsSaid
<1>5. Counted(d, t, None) => Counted(d, u, n)
  <2>1. Wanted(d, u) \subseteq Wanted(d, t)
    BY <1>2 DEF Wanted
  <2>2. Cardinality(Wanted(d, u)) <= Cardinality(Wanted(d, t))
    BY <2>1, WantedFinite
  <2>3. Counts(d, None) = 0 /\ Counts(d, n) \in Nat /\ d.add \in Nat
    BY <1>1, <1>3 DEF Counts, Tells
  <2> QED
    BY <2>2, <2>3, WantedFinite DEF Counted
<1>6. Heard(d, t) => Heard(d, u)
  BY <1>2 DEF Heard
<1>7. Said(d, u, n)
  BY <1>4, <1>5, <1>6 DEF Said
<1> QED
  BY <1>7 DEF d, u, n, t, S

\* An address that is in the table keeps its slot, another one goes into a free slot.
LEMMA WithSlots ==
  ASSUME NEW t, TableInv(t), NEW e, e.addr \in Addr,
         FindAddress(t, e.addr) = None => Slot \ t[Fam(e.addr)].bits # {}
  PROVE  LET g == Fam(e.addr)
             old == FindAddress(t, e.addr)
             k == FreeIndex(t[g].bits, t[g].next)
             u == With(t, e)
         IN  /\ old # None => \A f \in Family : u[f].bits = t[f].bits /\ u[f].addr = t[f].addr
             /\ old = None =>
                  /\ k \in Slot /\ k \notin t[g].bits /\ u[g].addr[k] = e.addr
                  /\ \A f \in Family :
                       /\ u[f].bits = IF f = g THEN t[g].bits \cup {k} ELSE t[f].bits
                       /\ \A i \in t[f].bits : u[f].addr[i] = t[f].addr[i]
<1> DEFINE g == Fam(e.addr)
           old == FindAddress(t, e.addr)
           k == FreeIndex(t[g].bits, t[g].next)
           u == With(t, e)
<1>1. g \in Family /\ t \in [Family -> Table] /\ t[g] \in Table
  BY FamilyOf DEF TableInv
<1>2. /\ old # None => old \in t[g].bits /\ t[g].addr[old] = e.addr
      /\ old = None => k \in Slot \ t[g].bits
  BY <1>1, FindAddressFinds, FreeIndexFree DEF Table
<1>3. CASE old # None
  <2>1. u = [t EXCEPT ![g].addr[old] = e.addr, ![g].low[old] = e.low]
    BY <1>3 DEF With
  <2>2. [t[g].addr EXCEPT ![old] = e.addr] = t[g].addr
    BY <1>1, <1>2, <1>3 DEF Table
  <2> HIDE DEF u, g, old
  <2>3. u[g] = [t[g] EXCEPT !.addr = [t[g].addr EXCEPT ![old] = e.addr],
                            !.low = [t[g].low EXCEPT ![old] = e.low]]
    BY <1>1, <2>1 DEF Table
  <2>4. \A f \in Family : f # g => u[f] = t[f]
    BY <1>1, <2>1
  <2>5. u[g].bits = t[g].bits /\ u[g].addr = [t[g].addr EXCEPT ![old] = e.addr]
    BY <1>1, <2>3 DEF Table
  <2>6. \A f \in Family : u[f].bits = t[f].bits /\ u[f].addr = t[f].addr
    BY <2>2, <2>4, <2>5
  <2> QED
    BY <1>3, <2>6 DEF u, g, old
<1>4. CASE old = None
  <2> DEFINE v == [t EXCEPT ![g].addr[k] = e.addr, ![g].low[k] = e.low]
  <2>1. u = [v EXCEPT ![g].bits = @ \cup {k}, ![g].next = k + 1]
    BY <1>4 DEF With
  <2>2. k \in Slot /\ k \notin t[g].bits
    BY <1>2, <1>4
  <2> HIDE DEF u, g, k, old
  <2>3. /\ DOMAIN v = Family /\ v[g] = [t[g] EXCEPT !.addr = [t[g].addr EXCEPT ![k] = e.addr],
                                                   !.low = [t[g].low EXCEPT ![k] = e.low]]
        /\ \A f \in Family : f # g => v[f] = t[f]
    BY <1>1 DEF Table
  <2> HIDE DEF v
  <2>4. \A f \in Family : f # g => u[f] = t[f]
    BY <1>1, <2>1, <2>3
  <2>5. u[g].bits = t[g].bits \cup {k} /\ u[g].addr = [t[g].addr EXCEPT ![k] = e.addr]
    <3>1. u[g] = [v[g] EXCEPT !.bits = v[g].bits \cup {k}, !.next = k + 1]
      BY <1>1, <2>1, <2>3
    <3> QED
      BY <1>1, <2>3, <3>1 DEF Table
  <2>6. u[g].addr[k] = e.addr /\ \A i \in t[g].bits : u[g].addr[i] = t[g].addr[i]
    BY <1>1, <2>2, <2>5 DEF Table
  <2>7. \A f \in Family :
          /\ u[f].bits = IF f = g THEN t[g].bits \cup {k} ELSE t[f].bits
          /\ \A i \in t[f].bits : u[f].addr[i] = t[f].addr[i]
    BY <2>4, <2>5, <2>6
  <2> QED
    BY <1>4, <2>2, <2>6, <2>7 DEF u, g, k, old
<1> QED
  BY <1>3, <1>4

\* A new one is one more, which the event will count; its slot was not announced.
LEMMA GainSaid ==
  ASSUME FMInv, MeshInv, SaidInv, ns.now = None, NEW e \in Event, e.code # "del",
         FindAddress(ns.loc, e.addr) = None => Slot \ ns.loc[Fam(e.addr)].bits # {}
  PROVE  Said([conn EXCEPT !.late = @ \cup Late(e)], With(ns.loc, e), Taken(ns.loc, e))
<1> DEFINE t == ns.loc
           u == With(t, e)
           n == Taken(t, e)
           S == Late(e)
           d == [conn EXCEPT !.late = @ \cup S]
           g == Fam(e.addr)
           old == FindAddress(t, e.addr)
           k == FreeIndex(t[g].bits, t[g].next)
<1>1. /\ TableInv(t) /\ IsConn(conn) /\ conn.add \in Nat /\ Said(conn, t, None) /\ e.addr \in Addr
      /\ conn.ann \in [Family -> SUBSET Slot] /\ e.code \in {"add", "del", "mod"}
      /\ g \in Family /\ t \in [Family -> Table] /\ t[g] \in Table
  BY FamilyOf DEF FMInv, MeshInv, ConnInv, Typed, Event, SaidInv, TableInv
<1>2. n # None /\ n.addr = e.addr /\ (old = None => n.code = "add")
  <2>1. n # None
    BY <1>1, TakenIsNow
  <2> QED
    BY <2>1 DEF Taken
<1>3. Tells(conn, d) /\ d.ann = conn.ann /\ d.late = conn.late \cup S
  BY <1>1 DEF Tells, IsConn, ConnFields
<1>4. old = None /\ k \in conn.ann[g] => "again" \in S
  BY DEF Late, Noted
<1>5. /\ old # None => \A f \in Family : u[f].bits = t[f].bits /\ u[f].addr = t[f].addr
      /\ old = None =>
           /\ k \in Slot /\ k \notin t[g].bits /\ u[g].addr[k] = e.addr
           /\ \A f \in Family :
                /\ u[f].bits = IF f = g THEN t[g].bits \cup {k} ELSE t[f].bits
                /\ \A i \in t[f].bits : u[f].addr[i] = t[f].addr[i]
  BY <1>1, WithSlots
<1>6. CASE old # None
  <2>1. \A f \in Family : u[f].bits = t[f].bits /\ u[f].addr = t[f].addr
    BY <1>5, <1>6
  <2> HIDE DEF u, n, d, t
  <2>2. Said(d, t, None)
    BY <1>1, <1>3, TellsSaid
  <2>3. Wanted(d, u) = Wanted(d, t)
    BY <2>1 DEF Wanted
  <2>4. Counts(d, None) = 0 /\ Counts(d, n) \in Nat /\ d.add \in Nat
    BY <1>1, <1>3 DEF Counts, Tells
  <2>5. Counted(d, t, None) => Counted(d, u, n)
    BY <2>3, <2>4, WantedFinite DEF Counted
  <2>6. Heard(d, t) => Heard(d, u)
    BY <2>1 DEF Heard
  <2>7. Said(d, u, n)
    BY <2>2, <2>5, <2>6 DEF Said
  <2> QED
    BY <2>7 DEF d, u, n, t
<1>7. CASE old = None
  <2>1. \A f \in Family :
          /\ u[f].bits = IF f = g THEN t[g].bits \cup {k} ELSE t[f].bits
          /\ \A i \in t[f].bits : u[f].addr[i] = t[f].addr[i]
    BY <1>5, <1>7
  <2>2. k \in Slot /\ k \notin t[g].bits
    BY <1>5, <1>7
  <2> HIDE DEF u, n, d, t, k, g, old, S
  <2>3. Said(d, t, None)
    BY <1>1, <1>3, TellsSaid
  <2>4. Counted(d, t, None) => Counted(d, u, n)
    <3>1. Counts(d, None) = 0 /\ Counts(d, n) \in Nat /\ d.add \in Nat
      BY <1>1, <1>3 DEF Counts, Tells
    <3>2. CASE Concerns(d, g)
      <4>1. Counts(d, n) = 1
        BY <1>2, <1>7, <3>2 DEF Counts, g
      <4>2. Wanted(d, u) \subseteq Wanted(d, t) \cup {<<g, k>>}
        <5> SUFFICES ASSUME NEW p \in Wanted(d, u), p \notin Wanted(d, t) PROVE p = <<g, k>>
          OBVIOUS
        <5>1. p = <<p[1], p[2]>> /\ p[1] \in Family
          BY DEF Wanted
        <5> QED
          BY <2>1, <5>1 DEF Wanted
      <4>3. Cardinality(Wanted(d, t) \cup {<<g, k>>}) <= Cardinality(Wanted(d, t)) + 1
            /\ IsFiniteSet(Wanted(d, t) \cup {<<g, k>>})
        <5> DEFINE W == Wanted(d, t)
        <5>1. IsFiniteSet(W) /\ Cardinality(W) \in Nat
          BY WantedFinite
        <5> HIDE DEF W
        <5>2. /\ IsFiniteSet(W \cup {<<g, k>>})
              /\ \/ Cardinality(W \cup {<<g, k>>}) = Cardinality(W)
                 \/ Cardinality(W \cup {<<g, k>>}) = Cardinality(W) + 1
          BY <5>1, FS_AddElement
        <5> QED
          BY <5>1, <5>2 DEF W
      <4>4. Cardinality(Wanted(d, u)) <= Cardinality(Wanted(d, t) \cup {<<g, k>>})
        BY <4>2, <4>3, FS_Subset
      <4>5. Cardinality(Wanted(d, t) \cup {<<g, k>>}) \in Nat
        BY <4>3, FS_CardinalityType
      <4> QED
        BY <3>1, <4>1, <4>3, <4>4, <4>5, WantedFinite DEF Counted
    <3>3. CASE ~ Concerns(d, g)
      <4>1. Wanted(d, u) = Wanted(d, t)
        BY <2>1, <3>3 DEF Wanted
      <4> QED
        BY <3>1, <4>1, WantedFinite DEF Counted
    <3> QED
      BY <3>2, <3>3
  <2>5. d.late \cap {"again", "unsaid"} = {} /\ Heard(d, t) => Heard(d, u)
    <3> SUFFICES ASSUME d.late \cap {"again", "unsaid"} = {}, Heard(d, t), NEW f \in Family,
                        Concerns(d, f), NEW i \in d.ann[f], i \in u[f].bits
                 PROVE  u[f].addr[i] \in d.told
      BY DEF Heard
    <3>1. i \in t[f].bits
      BY <1>3, <1>4, <1>7, <2>1
    <3> QED
      BY <2>1, <3>1 DEF Heard
  <2>6. Said(d, u, n)
    BY <2>3, <2>4, <2>5 DEF Said
  <2> QED
    BY <2>6 DEF d, u, n, t, S
<1> QED
  BY <1>6, <1>7

LEMMA TakeSaid ==
  ASSUME FMInv, MeshInv, SaidInv, TakeEvent
  PROVE  SaidInv'
<1> DEFINE q == ns.events
           e == Head(q)
           t == ns.loc
           f == Fam(e.addr)
           i == FindAddress(t, e.addr)
<1>1. /\ q # <<>> /\ ns.now = None
      /\ ns'.loc = IF Dropped(t, e) THEN t ELSE IF e.code = "del" THEN Without(t, e) ELSE With(t, e)
      /\ ns'.now = IF Dropped(t, e) THEN None ELSE Taken(t, e)
      /\ conn' = IF Dropped(t, e) THEN conn ELSE [conn EXCEPT !.late = @ \cup Late(e)]
  BY DEF TakeEvent
<1>2. e \in Event /\ TableInv(t) /\ e.addr \in Addr
  BY <1>1, TailEvents DEF FMInv, Event
<1>3. CASE Dropped(t, e)
  <2>1. ns'.loc = ns.loc /\ ns'.now = ns.now /\ conn' = conn
    BY <1>1, <1>3
  <2> QED
    BY <2>1 DEF SaidInv
<1> HIDE DEF q, e
<1>4. CASE ~ Dropped(t, e) /\ e.code = "del"
  <2>1. i # None
    BY <1>4 DEF Dropped
  <2>2. Said([conn EXCEPT !.late = @ \cup Late(e)], Without(t, e), Taken(t, e))
    BY <1>1, <1>2, <1>4, <2>1, LossSaid
  <2> QED
    BY <1>1, <1>4, <2>2 DEF SaidInv
<1>5. CASE ~ Dropped(t, e) /\ e.code # "del"
  <2>1. i = None => Slot \ t[f].bits # {}
    BY <1>2, <1>5, NotDroppedRoom
  <2>2. Said([conn EXCEPT !.late = @ \cup Late(e)], With(t, e), Taken(t, e))
    BY <1>1, <1>2, <1>5, <2>1, GainSaid
  <2> QED
    BY <1>1, <1>5, <2>2 DEF SaidInv
<1> QED
  BY <1>3, <1>4, <1>5

LEMMA OpenedSaid ==
  ASSUME NEW c, Typed(c), c.phase = "none", NEW t, TableInv(t), NEW e, NEW d, NEW src \in Addr,
         NEW low, Opens(c, d, t, src, low)
  PROVE  Said(d, t, e)
<1> SUFFICES ASSUME d.pm = "fullmesh" PROVE Counted(d, t, e) /\ Heard(d, t)
  BY DEF Said, Serving
<1> DEFINE f == Fam(src)
<1>1. PICK i \in t[f].bits :
        /\ t[f].addr[i] = src /\ d.told = {src} /\ d.ann = [c.ann EXCEPT ![f] = {i}]
        /\ d.add = Cardinality(OtherSlots(c, t, f, i))
  BY DEF Opens
<1>2. /\ f \in Family /\ \A g \in Family : c.ann[g] = {} /\ t[g].bits \subseteq Slot
      /\ c.ann \in [Family -> SUBSET Slot]
  BY FamilyOf DEF Typed, Begun, Idle, TableInv, Table
<1> HIDE DEF f
<1>3. \A g \in Family : d.ann[g] = IF g = f THEN {i} ELSE {}
  BY <1>1, <1>2
<1>4. \A g : Concerns(d, g) <=> Concerns(c, g)
  <2>1. d.kind = c.kind
    BY DEF Opens, Keeps, ConnFields
  <2> QED
    BY <2>1 DEF Concerns
<1>5. Wanted(d, t) = OtherSlots(c, t, f, i)
  <2>1. \A g \in Family, k \in Slot :
          <<g, k>> \in Wanted(d, t) <=> <<g, k>> \in OtherSlots(c, t, f, i)
    <3> SUFFICES ASSUME NEW g \in Family, NEW k \in Slot
                 PROVE  <<g, k>> \in Wanted(d, t) <=> <<g, k>> \in OtherSlots(c, t, f, i)
      OBVIOUS
    <3>1. <<g, k>> \in Wanted(d, t) <=> Concerns(c, g) /\ k \in t[g].bits /\ ~(g = f /\ k = i)
      BY <1>3, <1>4 DEF Wanted
    <3>2. <<g, k>> \in OtherSlots(c, t, f, i) <=> Concerns(c, g) /\ k \in t[g].bits /\ ~(g = f /\ k = i)
      BY DEF OtherSlots
    <3> QED
      BY <3>1, <3>2
  <2>2. Wanted(d, t) \subseteq Family \X Slot
    BY DEF Wanted
  <2>3. OtherSlots(c, t, f, i) \subseteq Family \X Slot
    BY <1>2 DEF OtherSlots
  <2> QED
    BY <2>1, <2>2, <2>3
<1>6. Counted(d, t, e)
  <2>1. Counts(d, e) \in Nat /\ d.add = Cardinality(Wanted(d, t))
    BY <1>1, <1>5 DEF Counts
  <2> QED
    BY <2>1, WantedFinite DEF Counted
<1>7. Heard(d, t)
  BY <1>1, <1>3 DEF Heard
<1> QED
  BY <1>6, <1>7

LEMMA NewSessionSaid ==
  ASSUME FMInv, MeshInv, SaidInv, NewSession
  PROVE  SaidInv'
<1>1. conn.phase = "none" /\ ns' = ns /\ TableInv(ns.loc) /\ Typed(conn)
  BY DEF NewSession, FMInv, MeshInv, ConnInv
<1>2. Said(conn', ns.loc, ns.now)
  BY <1>1, SessionOpens, OpenedSaid
<1> QED
  BY <1>1, <1>2 DEF SaidInv

LEMMA ApplySaid ==
  ASSUME FMInv, MeshInv, SaidInv, ApplyEvent
  PROVE  SaidInv'
<1> DEFINE e == ns.now
           t == ns.loc
           applies == /\ conn.phase = "open" /\ Concerns(conn, Fam(e.addr))
                      /\ ~conn.infinite /\ conn.pm = "fullmesh"
<1>1. /\ e # None /\ ns' = [ns EXCEPT !.now = None]
      /\ \/ ~applies /\ conn' = conn
         \/ applies /\ conn' = [conn EXCEPT !.owned = TRUE]
         \/ applies /\ conn' = Applied(conn, e, t)
  BY DEF ApplyEvent
<1>2. ns'.loc = t /\ ns'.now = None /\ TableInv(t)
  <2>1. ns = [loc |-> ns.loc, events |-> ns.events, now |-> ns.now] /\ TableInv(t)
    BY DEF FMInv
  <2> QED
    BY <1>1, <2>1
<1>3. /\ IsNow(e) /\ Typed(conn) /\ IsConn(conn) /\ IsWork(conn.work) /\ conn.add \in Nat
      /\ \A s \in DOMAIN conn.sub : IsSub(s)
      /\ conn.remove \in SUBSET Lid /\ Said(conn, t, e)
  BY DEF MeshInv, ConnInv, Typed, SaidInv
<1> SUFFICES Said(conn', t, None)
  BY <1>2 DEF SaidInv
<1>4. \A c : Counts(c, None) = 0
  BY DEF Counts
<1>5. CASE ~applies /\ conn' = conn
  <2>1. Serving(conn) => Counts(conn, e) = 0
    BY <1>5 DEF Serving, Counts
  <2> QED
    BY <1>3, <1>4, <1>5, <2>1 DEF Said, Counted
<1>6. CASE applies /\ conn' = [conn EXCEPT !.owned = TRUE]
  <2> DEFINE d == [conn EXCEPT !.owned = TRUE]
  <2>1. Keeps(conn, d, {"owned"}) /\ d.owned = TRUE
    BY <1>3 DEF IsConn, Keeps, ConnFields
  <2> HIDE DEF d
  <2>2. /\ d.phase = conn.phase /\ d.kind = conn.kind /\ d.pm = conn.pm /\ d.infinite = conn.infinite
        /\ d.late = conn.late /\ d.ann = conn.ann /\ d.told = conn.told
    BY <2>1 DEF Keeps, ConnFields
  <2>3. Said(d, t, None)
    BY <1>3, <2>1, <2>2 DEF Said, Serving, Counted, Heard, Concerns
  <2> QED
    BY <1>6, <2>3 DEF d
<1>7. CASE applies /\ conn' = Applied(conn, e, t)
  <2>1. Concerns(conn, Fam(e.addr)) /\ e.code \in {"add", "del", "mod"}
    BY <1>1, <1>3, <1>7 DEF IsNow
  <2> HIDE DEF e, t
  <2>2. e.code # "add" => Said(conn, t, None)
    BY <1>3 DEF Said, Counted, Counts
  <2>3. CASE e.code = "add"
    <3> DEFINE n == conn.add + 1
               d == [conn EXCEPT !.add = n]
    <3>1. conn' = CreateSubflows(d)
      BY <1>7, <2>3 DEF Applied, AppliedAdd
    <3> HIDE DEF n
    <3>2. Keeps(conn, d, {"add"}) /\ d.add = n
      BY <1>3 DEF IsConn, Keeps, ConnFields
    <3> HIDE DEF d
    <3>3. /\ IsConn(d) /\ d.phase = conn.phase /\ d.kind = conn.kind /\ d.pm = conn.pm
          /\ d.infinite = conn.infinite /\ d.owned = conn.owned /\ d.work = conn.work
          /\ d.late = conn.late /\ d.ann = conn.ann /\ d.told = conn.told
      BY <3>2 DEF Keeps, ConnFields
    <3>4. \A g : Concerns(d, g) <=> Concerns(conn, g)
      BY <3>3 DEF Concerns
    <3>5. Wanted(d, t) = Wanted(conn, t)
      BY <3>3, <3>4 DEF Wanted
    <3>6. Counts(conn, e) = 1
      BY <1>1, <2>1, <2>3 DEF Counts
    <3>7. Counted(conn, t, e) => Counted(d, t, None)
      BY <1>3, <1>4, <3>2, <3>3, <3>5, <3>6, WantedFinite DEF Counted, n
    <3>8. Heard(conn, t) => Heard(d, t)
      BY <3>3, <3>4 DEF Heard
    <3>9. Said(d, t, None)
      BY <1>3, <3>3, <3>7, <3>8 DEF Said, Serving
    <3> QED
      BY <1>3, <3>1, <3>3, <3>9, CreateTells, TellsSaid
  <2>4. CASE e.code = "del"
    <3> DEFINE d == UpdateBitfields(conn, t)
               from == {s \in DOMAIN conn.sub : s.src = e.addr}
               R == d.remove \cup {e.id}
               m == [d EXCEPT !.remove = R]
    <3>1. conn' \in {Removed(d, from), m, d}
      BY <1>7, <2>4 DEF Applied, AppliedDel
    <3>2. Keeps(conn, d, {"told", "ann", "rem"})
      BY <1>2, <1>3, UpdatedBitfields DEF t, Typed
    <3>3. Said(d, t, None)
      BY <1>2, <1>3, <2>2, <2>4, UpdatedSaid DEF t, Typed
    <3> HIDE DEF d, R
    <3>4. IsConn(d) /\ d.sub = conn.sub /\ d.remove = conn.remove
      BY <3>2 DEF Keeps, ConnFields
    <3>5. Keeps(d, Removed(d, from), {"sub", "remove"})
      <4>1. from \in SUBSET DOMAIN d.sub
        BY <3>4
      <4> HIDE DEF from
      <4> QED
        BY <1>3, <3>4, <4>1, RemovedSubs
    <3>6. Keeps(d, m, {"remove"}) /\ Keeps(d, d, {"remove"})
      BY <3>4 DEF IsConn, Keeps, ConnFields
    <3> HIDE DEF m, from
    <3>7. Keeps(d, conn', Unheard)
      BY <3>1, <3>5, <3>6 DEF Keeps, Unheard, ConnFields
    <3> QED
      BY <3>3, <3>7, TellsKept, TellsSaid
  <2>5. CASE e.code = "mod"
    <3>1. PICK low : conn' = Prioritised(conn, low)
      BY <1>7, <2>5 DEF Applied, AppliedMod
    <3>2. Keeps(conn, conn', {"sub"})
      BY <1>3, <3>1, PrioritisedSubs
    <3>3. Keeps(conn, conn', Unheard)
      BY <3>2 DEF Keeps, Unheard, ConnFields
    <3> QED
      BY <2>2, <2>5, <3>3, TellsKept, TellsSaid
  <2> QED
    BY <2>1, <2>3, <2>4, <2>5
<1> QED
  BY <1>1, <1>5, <1>6, <1>7

\* The release counts every address without a subflow, those that were not
\* announced among them.
LEMMA ReleaseSaid ==
  ASSUME FMInv, MeshInv, SaidInv, Release
  PROVE  SaidInv'
<1> DEFINE t == ns.loc
           S == Unsaid(conn, t)
           l == conn.late \cup S
           c == [conn EXCEPT !.owned = FALSE, !.late = l]
           d == ReleaseSock(c, t)
           e == ns.now
<1>1. conn.owned /\ ns' = ns /\ conn' = d
  BY DEF Release
<1>2. /\ TableInv(t) /\ Typed(conn) /\ IsConn(conn) /\ Said(conn, t, e) /\ conn.phase # "none"
  BY <1>1 DEF FMInv, MeshInv, ConnInv, Typed, Begun, Idle, SaidInv
<1> HIDE DEF t, e
<1>3. S = {} => \A f \in Family : Concerns(conn, f) =>
                  \A i \in t[f].bits : i \notin conn.ann[f] => <<f, i>> \in Unused(conn, t)
  BY DEF Unsaid
<1> HIDE DEF S
<1>4. S \in {{}, {"unsaid"}}
  BY DEF Unsaid, S
<1>5. Keeps(conn, c, {"owned", "late"}) /\ c.late = l /\ c.owned = FALSE
  BY <1>2 DEF IsConn, Keeps, ConnFields
<1> HIDE DEF c, l
<1>6. /\ IsConn(c) /\ c.phase = conn.phase /\ c.kind = conn.kind /\ c.pm = conn.pm
      /\ c.infinite = conn.infinite /\ c.ann = conn.ann /\ c.told = conn.told /\ c.sub = conn.sub
      /\ c.source = conn.source /\ c.req = conn.req /\ c.add = conn.add /\ c.remove = conn.remove
      /\ c.rem = conn.rem /\ c.work = conn.work /\ c.retry = conn.retry
  BY <1>5 DEF Keeps, ConnFields
<1>7. Typed(c)
  BY <1>2, <1>5, <1>6 DEF Typed, Begun
<1>8. \A f : Concerns(c, f) <=> Concerns(conn, f)
  BY <1>6 DEF Concerns
<1>9. Unused(c, t) = Unused(conn, t) /\ Wanted(c, t) = Wanted(conn, t)
  BY <1>6, <1>8 DEF Unused, Wanted
<1> DEFINE known == {s \in DOMAIN c.sub : FindAddress(t, s.src) # None}
           new == Cardinality(Unused(c, t))
           low == [s \in {x \in known : Concerns(c, Fam(x.src))} |->
                     t[Fam(s.src)].low[FindAddress(t, s.src)]]
           p == Prioritised(c, low)
           n == p.add + new
           b == [p EXCEPT !.add = n]
           a == IF new = 0 THEN p ELSE CreateSubflows(b)
           gone == {s \in DOMAIN a.sub : FindAddress(t, s.src) = None}
           r == Removed(a, gone)
<1>10. d = UpdateBitfields(r, t)
  BY DEF ReleaseSock
<1>11. new \in Nat
  BY <1>2, UnusedFinite
<1> HIDE DEF low, known, new, d
<1>12. /\ IsConn(p) /\ \A s \in DOMAIN p.sub : IsSub(s)
       /\ Keeps(c, p, {"sub"})
  BY <1>6, <1>7, PrioritisedSubs DEF Typed, Keeps, SubsOf
<1> HIDE DEF p
<1>13. /\ p.add = conn.add /\ p.remove \in SUBSET Lid /\ IsWork(p.work) /\ Keeps(c, p, Unheard)
  BY <1>6, <1>7, <1>12 DEF Keeps, ConnFields, Unheard, Typed
<1>14. /\ IsConn(b) /\ b.add = n /\ b.sub = p.sub /\ b.remove = p.remove /\ b.work = p.work
       /\ Keeps(p, b, {"add"})
  BY <1>12 DEF IsConn, Keeps, ConnFields
<1> HIDE DEF n, b
<1>15. n \in Nat /\ n = conn.add + new
  BY <1>2, <1>11, <1>13 DEF n, Typed
<1>16. Tells(b, a)
  <2>1. CASE new = 0
    <3>1. a = p /\ b.add = p.add
      BY <1>2, <1>13, <1>14, <1>15, <2>1 DEF Typed
    <3> QED
      BY <1>12, <1>14, <3>1 DEF Tells, Keeps, ConnFields
  <2>2. CASE new # 0
    <3>1. a = CreateSubflows(b)
      BY <2>2
    <3> QED
      BY <1>13, <1>14, <3>1, CreateTells
  <2> QED
    BY <2>1, <2>2
<1>17. /\ IsConn(a) /\ a.remove \in SUBSET Lid /\ \A s \in DOMAIN a.sub : IsSub(s)
       /\ a.rem = conn.rem /\ a.ann = conn.ann
  <2>1. LET m == CreateSubflows(b)
        IN  IsConn(m) /\ m.sub = b.sub /\ m.remove = b.remove /\ m.rem = b.rem /\ m.ann = b.ann
    BY <1>13, <1>14, CreateKeeps DEF Keeps, ConnFields
  <2>2. a = p \/ a = CreateSubflows(b)
    OBVIOUS
  <2> HIDE DEF a
  <2>3. p.rem = conn.rem /\ p.ann = conn.ann /\ b.rem = p.rem /\ b.ann = p.ann
    BY <1>6, <1>12, <1>14 DEF Keeps, ConnFields
  <2> QED
    BY <1>12, <1>13, <1>14, <2>1, <2>2, <2>3
<1> HIDE DEF a
<1>18. Keeps(a, r, {"sub", "remove"})
  <2>1. gone \in SUBSET DOMAIN a.sub
    OBVIOUS
  <2> HIDE DEF gone
  <2> QED
    BY <1>17, <2>1, RemovedSubs
<1> HIDE DEF r
<1>19. Tells(a, r)
  <2>1. Keeps(a, r, Unheard)
    BY <1>18 DEF Keeps, Unheard, ConnFields
  <2> QED
    BY <2>1, TellsKept
<1>20. Said(b, t, e)
  <2>1. /\ b.phase = conn.phase /\ b.kind = conn.kind /\ b.pm = conn.pm /\ b.infinite = conn.infinite
        /\ b.ann = conn.ann /\ b.told = conn.told /\ b.late = l
    BY <1>5, <1>6, <1>12, <1>14 DEF Keeps, ConnFields
  <2>2. \A f : Concerns(b, f) <=> Concerns(conn, f)
    BY <2>1 DEF Concerns
  <2> SUFFICES ASSUME Serving(b), b.late \cap {"again", "unsaid"} = {}
               PROVE  Counted(b, t, e) /\ Heard(b, t)
    BY DEF Said
  <2>3. S = {} /\ conn.late \cap {"again", "unsaid"} = {} /\ Serving(conn)
    BY <1>4, <2>1 DEF l, Serving
  <2>4. Wanted(b, t) \subseteq Unused(conn, t)
    <3> SUFFICES ASSUME NEW x \in Wanted(b, t) PROVE x \in Unused(conn, t)
      OBVIOUS
    <3>1. x = <<x[1], x[2]>> /\ x[1] \in Family
      BY DEF Wanted
    <3> QED
      BY <1>3, <2>1, <2>2, <2>3, <3>1 DEF Wanted
  <2>5. Cardinality(Wanted(b, t)) <= new
    <3>1. Unused(conn, t) \subseteq Family \X Slot
      BY <1>2 DEF Unused, TableInv, Table
    <3>2. IsFiniteSet(Unused(conn, t))
      BY <3>1, PairsFinite, FS_Subset
    <3> QED
      BY <1>9, <2>4, <3>2, FS_Subset DEF new
  <2>6. Counts(b, e) \in Nat /\ conn.add \in Nat
    BY <1>2 DEF Counts, Typed
  <2>7. Counted(b, t, e)
    BY <1>11, <1>14, <1>15, <2>5, <2>6, WantedFinite DEF Counted
  <2>8. Heard(b, t)
    BY <1>2, <2>1, <2>2, <2>3 DEF Said, Heard
  <2> QED
    BY <2>7, <2>8
<1>21. Said(r, t, e)
  BY <1>16, <1>19, <1>20, TellsSaid
<1>22. IsConn(r) /\ r.ann \in [Family -> SUBSET Slot] /\ IsRem(r.rem)
  BY <1>2, <1>17, <1>18 DEF Typed, Keeps, ConnFields
<1>23. Said(d, t, e)
  BY <1>2, <1>10, <1>21, <1>22, UpdatedSaid
<1> QED
  BY <1>1, <1>23 DEF SaidInv, t, e

LEMMA DeviceSaid ==
  ASSUME FMInv, SaidInv, NEW a \in Addr, DeviceChanges(a)
  PROVE  SaidInv'
<1>1. conn' = conn /\ \E q : ns' = [ns EXCEPT !.events = q]
  BY DEF DeviceChanges
<1>2. ns = [loc |-> ns.loc, events |-> ns.events, now |-> ns.now]
  BY DEF FMInv
<1>3. ns'.loc = ns.loc /\ ns'.now = ns.now
  BY <1>1, <1>2
<1> QED
  BY <1>1, <1>3 DEF SaidInv

LEMMA InitSaid ==
  Init => SaidInv
<1> SUFFICES ASSUME Init PROVE SaidInv
  OBVIOUS
<1>1. PICK k \in Cases : conn = NoConnection(k.kind)
  BY DEF Init
<1>2. conn.phase = "none"
  BY <1>1 DEF NoConnection
<1> QED
  BY <1>2 DEF SaidInv, Said, Serving

LEMMA StepSaid ==
  FMInv /\ MeshInv /\ SaidInv /\ [Next]_vars => SaidInv'
<1> SUFFICES ASSUME FMInv, MeshInv, SaidInv, [Next]_vars PROVE SaidInv'
  OBVIOUS
<1>1. CASE \E a \in Addr : DeviceChanges(a)
  BY <1>1, DeviceSaid
<1>2. CASE TakeEvent \/ ApplyEvent
  BY <1>2, TakeSaid, ApplySaid
<1>3. CASE NewSession \/ Release \/ AddrSignal
  BY <1>3, NewSessionSaid, ReleaseSaid, SignalSaid
<1>4. CASE WorkerStep \/ RetryStep
  <2>1. Tells(conn, conn') /\ ns' = ns
    BY <1>4, WorkerTells, RetryTells DEF WorkerStep, RetryStep
  <2> QED
    BY <2>1, TellsSaid DEF SaidInv
<1>5. CASE \/ FullyEstablished \/ WorkerStart \/ RetryStart \/ RecvAddAddr \/ RecvRemAddr
           \/ SubflowLost \/ Reap \/ JoinRequest \/ JoinDone \/ JoinExpires \/ Ends
  <2>1. Tells(conn, conn') /\ ns' = ns
    BY <1>5, OthersTell
  <2> QED
    BY <2>1, TellsSaid DEF SaidInv
<1>6. CASE UNCHANGED vars
  BY <1>6 DEF vars, SaidInv
<1> QED
  BY <1>1, <1>2, <1>3, <1>4, <1>5, <1>6 DEF Next

LEMMA AllHeard ==
  FMInv /\ MeshInv /\ SaidInv => AllAnnounced
<1> SUFFICES ASSUME FMInv, MeshInv, SaidInv, Quiet, Serves, conn.add = 0,
                    conn.late \cap {"again", "unsaid"} = {}, NEW f \in Family, Concerns(conn, f),
                    NEW i \in ns.loc[f].bits
             PROVE  ns.loc[f].addr[i] \in conn.told
  BY DEF AllAnnounced
<1> DEFINE t == ns.loc
<1>1. ns.now = None /\ ~conn.owned /\ Serving(conn)
  BY DEF Quiet, Serves, Live, Serving
<1>2. Counted(conn, t, None) /\ Heard(conn, t)
  BY <1>1 DEF SaidInv, Said
<1>3. i \in Slot
  BY DEF FMInv, TableInv, Table
<1>4. Wanted(conn, t) = {}
  <2>1. Counts(conn, None) = 0
    BY DEF Counts
  <2>2. Cardinality(Wanted(conn, t)) = 0
    BY <1>1, <1>2, <2>1, WantedFinite DEF Counted
  <2> DEFINE W == Wanted(conn, t)
  <2>3. IsFiniteSet(W) /\ Cardinality(W) = 0
    BY <2>2, WantedFinite
  <2> HIDE DEF W
  <2>4. W = {}
    BY <2>3, FS_EmptySet
  <2> QED
    BY <2>4 DEF W
<1>5. i \in conn.ann[f]
  <2>1. i \notin conn.ann[f] => <<f, i>> \in Wanted(conn, t)
    BY <1>3 DEF Wanted
  <2> QED
    BY <1>4, <2>1
<1> QED
  BY <1>2, <1>5 DEF Heard

(***************************************************************************)
(* The handlers that count up add_addr, full_mesh_addr_signal() that       *)
(* counts it down and the bits of announced addresses, which follow the    *)
(* slots of the table, agree: when all is quiet and nothing is left to     *)
(* announce the peer has heard of every address of the table.              *)
(***************************************************************************)
THEOREM AddressesAnnounced == Spec => []AllAnnounced
<1>1. Init => FMInv /\ MeshInv /\ SaidInv
  BY InitMeets, InitKeeps, InitSaid
<1>2. FMInv /\ MeshInv /\ SaidInv /\ [Next]_vars => FMInv' /\ MeshInv' /\ SaidInv'
  BY StepMeets, StepKeeps, StepSaid
<1>3. FMInv /\ MeshInv /\ SaidInv => AllAnnounced
  BY AllHeard
<1> QED
  BY <1>1, <1>2, <1>3, PTL DEF Spec

(***************************************************************************)
(* What the workers have still to do                                       *)
(***************************************************************************)

\* The connection has no subflow from the address of slot i, nor a second try of it to make.
Fresh(c, t, f, i) ==
    /\ \A s \in DOMAIN c.sub : s.src # t[f].addr[i]
    /\ \A j \in Slot : c.rem[f][j] # None => i \notin c.rem[f][j].retry

\* The event adds this address.
Gains(e, a) == e # None /\ e.code = "add" /\ e.addr = a

\* The slot is in the copy of the worker, or in the next one; the event being applied,
\* or the release, starts the worker for an address without a subflow.
Awaited(c, t, e, f, i) ==
    \/ c.work.pending
    \/ c.work.run # None /\ i \in c.work.run.loc[f].bits
    \/ (c.owned \/ Gains(e, t[f].addr[i])) /\ Fresh(c, t, f, i)

\* A client makes subflows, and nothing has happened that it does not cope with.
Meshing(c) ==
    Serving(c) /\ ~c.dead /\ ~c.kind.server /\ c.late \cap {"copy", "again", "early"} = {}

\* Each address of the peer has been tried from each slot, or will be.
Tried(c, t, e) ==
    c.master # "new" =>
      \A f \in Family, j \in Slot : Concerns(c, f) /\ c.rem[f][j] # None =>
        \A i \in t[f].bits : i \in c.rem[f][j].bits \/ Awaited(c, t, e, f, i)

\* The first subflow is there until it is reaped, and no worker starts before it is established.
MasterThere(c) ==
    /\ c.master # "gone" => \E s : Single(c, s) /\ s.src = c.source
    /\ c.master = "new" => ~c.work.pending /\ c.work.run = None

\* The slots it was tried from are in use, or an event or the release will see to it.
BitsKnown(c, t, e) ==
    \A f \in Family, j \in Slot : Concerns(c, f) /\ c.rem[f][j] # None =>
      /\ c.rem[f][j].retry \subseteq c.rem[f][j].bits
      /\ c.owned \/ LeavesFam(e, f) \/ c.rem[f][j].bits \subseteq t[f].bits

\* Someone will see to the second tries.
Again(c) ==
    \A f \in Family, j \in Slot :
      Concerns(c, f) /\ c.rem[f][j] # None /\ c.rem[f][j].retry # {} =>
        \/ c.retry.pending \/ c.retry.run # None
        \/ c.work.run # None /\ c.work.run.again

\* The copy has nothing in a slot that the table does not have there.
SameSlots(w, t) ==
    w.run # None => \A f \in Family : \A i \in w.run.loc[f].bits :
      i \in t[f].bits /\ w.run.loc[f].addr[i] = t[f].addr[i]

Based(c, t, e) ==
    /\ c.kind.server \/ c.req = None
    /\ Meshing(c) => /\ MasterThere(c) /\ BitsKnown(c, t, e) /\ Again(c)
                     /\ SameSlots(c.work, t) /\ SameSlots(c.retry, t)

Unborn(c) == c.phase = "none" => c.master = "new" /\ \A f \in Family, j \in Slot : c.rem[f][j] = None

Done(c, t, e) == Based(c, t, e) /\ Unborn(c) /\ (Meshing(c) => Tried(c, t, e))

DoneInv == Done(conn, ns.loc, ns.now)

\* The workers go on as before, or one more time; addresses of the peer may be new.
Proceeds(c, d) ==
    /\ d.phase = c.phase /\ d.kind = c.kind /\ d.pm = c.pm /\ d.source = c.source /\ d.owned = c.owned
    /\ d.req = c.req \/ d.req = None
    /\ (c.infinite => d.infinite) /\ (c.dead => d.dead) /\ c.late \subseteq d.late
    /\ d.work.run = c.work.run /\ (c.work.pending => d.work.pending) /\ d.retry = c.retry
    /\ d.master # "gone" => c.master # "gone" /\ MastersOf(c, d)
    /\ d.master = "new" => c.master = "new" /\ d.work = c.work
    /\ MorePeers(c, d)

LEMMA ProceedsBased ==
  ASSUME NEW c, NEW d, NEW t, NEW e, Based(c, t, e), Proceeds(c, d)
  PROVE  Based(d, t, e) /\ (Meshing(d) => Meshing(c)) /\ \A f : Concerns(d, f) <=> Concerns(c, f)
<1>1. /\ d.phase = c.phase /\ d.kind = c.kind /\ d.pm = c.pm /\ d.source = c.source /\ d.owned = c.owned
      /\ d.work.run = c.work.run /\ d.retry = c.retry /\ c.late \subseteq d.late
      /\ (c.infinite => d.infinite) /\ (c.dead => d.dead)
  BY DEF Proceeds
<1>2. \A f : Concerns(d, f) <=> Concerns(c, f)
  BY <1>1 DEF Concerns
<1>3. Meshing(d) => Meshing(c)
  BY <1>1 DEF Meshing, Serving
<1>4. d.kind.server \/ d.req = None
  BY <1>1 DEF Proceeds, Based
<1>5. MasterThere(c) => MasterThere(d)
  BY <1>1 DEF MasterThere, Proceeds, MastersOf
<1>6. BitsKnown(c, t, e) => BitsKnown(d, t, e)
  <2> SUFFICES ASSUME BitsKnown(c, t, e), NEW f \in Family, NEW j \in Slot, Concerns(d, f),
                      d.rem[f][j] # None
               PROVE  /\ d.rem[f][j].retry \subseteq d.rem[f][j].bits
                      /\ d.owned \/ LeavesFam(e, f) \/ d.rem[f][j].bits \subseteq t[f].bits
    BY DEF BitsKnown
  <2>1. SamePeer(c, d, f, j) \/ NewPeer(d, f, j)
    BY DEF Proceeds, MorePeers
  <2> QED
    BY <1>1, <1>2, <2>1 DEF BitsKnown, SamePeer, NewPeer
<1>7. Again(c) => Again(d)
  <2> SUFFICES ASSUME Again(c), NEW f \in Family, NEW j \in Slot, Concerns(d, f),
                      d.rem[f][j] # None, d.rem[f][j].retry # {}
               PROVE  \/ d.retry.pending \/ d.retry.run # None
                      \/ d.work.run # None /\ d.work.run.again
    BY DEF Again
  <2>1. SamePeer(c, d, f, j)
    BY DEF Proceeds, MorePeers, NewPeer
  <2> QED
    BY <1>1, <1>2, <2>1 DEF Again, SamePeer
<1>8. /\ SameSlots(c.work, t) => SameSlots(d.work, t)
      /\ SameSlots(c.retry, t) => SameSlots(d.retry, t)
  BY <1>1 DEF SameSlots
<1> QED
  BY <1>2, <1>3, <1>4, <1>5, <1>6, <1>7, <1>8 DEF Based

\* Nothing more is to be done than before.
SourcesOf(c, d) == \A s \in DOMAIN d.sub : \E u \in DOMAIN c.sub : u.src = s.src

Follows(c, d) ==
    /\ Proceeds(c, d) /\ SamePeers(c, d) /\ SourcesOf(c, d)
    /\ c.master = "new" => d.master = "new" \/ "early" \in d.late

LEMMA FollowsDone ==
  ASSUME NEW c, NEW d, NEW t, NEW e, Done(c, t, e), c.phase # "none", Follows(c, d)
  PROVE  Done(d, t, e)
<1>1. Based(d, t, e) /\ (Meshing(d) => Meshing(c)) /\ \A f : Concerns(d, f) <=> Concerns(c, f)
  BY ProceedsBased DEF Done, Follows
<1>2. Unborn(d)
  BY DEF Unborn, Follows, Proceeds
<1>3. Meshing(d) => Tried(d, t, e)
  <2> SUFFICES ASSUME Meshing(d), d.master # "new", NEW f \in Family, NEW j \in Slot, Concerns(d, f),
                      d.rem[f][j] # None, NEW i \in t[f].bits, i \notin d.rem[f][j].bits
               PROVE  Awaited(d, t, e, f, i)
    BY DEF Tried
  <2>1. c.master # "new"
    BY DEF Follows, Meshing
  <2>2. c.rem[f][j] # None /\ c.rem[f][j].bits = d.rem[f][j].bits
    BY DEF Follows, SamePeers, SamePeer
  <2>3. Awaited(c, t, e, f, i)
    BY <1>1, <2>1, <2>2 DEF Done, Tried
  <2>4. Fresh(c, t, f, i) => Fresh(d, t, f, i)
    BY DEF Follows, SamePeers, SamePeer, SourcesOf, Fresh
  <2> QED
    BY <2>3, <2>4 DEF Awaited, Follows, Proceeds
<1> QED
  BY <1>1, <1>2, <1>3 DEF Done

\* Fields that a handler may change, as long as the first subflow and the sources stay.
Aloof == {"infinite", "dead", "first", "sub", "req", "add", "ann", "remove", "told", "late"}

LEMMA FollowsKept ==
  ASSUME NEW c, NEW d, Keeps(c, d, Aloof), d.req = c.req \/ d.req = None,
         c.infinite => d.infinite, c.dead => d.dead, c.late \subseteq d.late,
         MastersOf(c, d), SourcesOf(c, d)
  PROVE  Follows(c, d)
<1>1. /\ d.phase = c.phase /\ d.kind = c.kind /\ d.pm = c.pm /\ d.source = c.source /\ d.owned = c.owned
      /\ d.work = c.work /\ d.retry = c.retry /\ d.master = c.master /\ d.rem = c.rem
  BY DEF Keeps, ConnFields, Aloof
<1>2. SamePeers(c, d) /\ MorePeers(c, d)
  BY <1>1 DEF SamePeers, MorePeers, SamePeer
<1> QED
  BY <1>1, <1>2 DEF Follows, Proceeds

LEMMA Asked ==
  ASSUME NEW c, IsConn(c), IsWork(c.work)
  PROVE  LET d == CreateSubflows(c)
         IN  /\ Keeps(c, d, {"work"}) /\ d.work.run = c.work.run
             /\ c.work.pending => d.work.pending
             /\ c.master = "new" => d = c
             /\ ~ (c.infinite \/ c.kind.server \/ c.dead \/ c.master = "new") => d.work.pending
<1> DEFINE d == [c EXCEPT !.work.pending = TRUE]
           skip == c.infinite \/ c.kind.server \/ c.dead \/ c.master = "new"
<1>1. Keeps(c, d, {"work"}) /\ d.work.run = c.work.run /\ d.work.pending = TRUE
  BY DEF IsConn, ConnFields, Keeps, IsWork
<1>2. Keeps(c, c, {"work"})
  BY DEF Keeps
<1>3. CreateSubflows(c) = IF skip THEN c ELSE d
  BY DEF CreateSubflows
<1>4. c.master = "new" => skip
  OBVIOUS
<1> HIDE DEF d, skip
<1>5. CASE skip
  BY <1>2, <1>3, <1>5 DEF skip
<1>6. CASE ~skip
  BY <1>1, <1>3, <1>4, <1>6
<1> QED
  BY <1>5, <1>6

\* With the worker asked for nothing is left out.
LEMMA AsksDone ==
  ASSUME NEW c, NEW t, NEW e, Based(c, t, e), c.phase # "none", IsConn(c), IsWork(c.work)
  PROVE  Done(CreateSubflows(c), t, e)
<1> DEFINE d == CreateSubflows(c)
<1>1. /\ Keeps(c, d, {"work"}) /\ d.work.run = c.work.run
      /\ c.work.pending => d.work.pending
      /\ c.master = "new" => d = c
      /\ ~ (c.infinite \/ c.kind.server \/ c.dead \/ c.master = "new") => d.work.pending
  BY Asked
<1> HIDE DEF d
<1>2. /\ d.phase = c.phase /\ d.kind = c.kind /\ d.pm = c.pm /\ d.source = c.source /\ d.owned = c.owned
      /\ d.infinite = c.infinite /\ d.dead = c.dead /\ d.late = c.late /\ d.retry = c.retry
      /\ d.master = c.master /\ d.rem = c.rem /\ d.sub = c.sub /\ d.req = c.req
  BY <1>1 DEF Keeps, ConnFields
<1>3. Proceeds(c, d)
  BY <1>1, <1>2 DEF Proceeds, MastersOf, Single, MorePeers, SamePeer
<1>4. Based(d, t, e)
  BY <1>3, ProceedsBased
<1>5. Meshing(d) => Tried(d, t, e)
  BY <1>1, <1>2 DEF Meshing, Serving, Tried, Awaited
<1> QED
  BY <1>2, <1>4, <1>5 DEF Done, Unborn, d

LEMMA DeviceDone ==
  ASSUME FMInv, DoneInv, NEW a \in Addr, DeviceChanges(a)
  PROVE  DoneInv'
<1>1. conn' = conn /\ \E q : ns' = [ns EXCEPT !.events = q]
  BY DEF DeviceChanges
<1>2. ns = [loc |-> ns.loc, events |-> ns.events, now |-> ns.now]
  BY DEF FMInv
<1>3. ns'.loc = ns.loc /\ ns'.now = ns.now
  BY <1>1, <1>2
<1> QED
  BY <1>1, <1>3 DEF DoneInv

\* A step that leaves the table and the event alone, and does no more than the above.
LEMMA StepFollows ==
  ASSUME DoneInv, conn.phase # "none", ns' = ns, Follows(conn, conn')
  PROVE  DoneInv'
BY FollowsDone DEF DoneInv

\* The subflows are the same.
LEMMA SubsStay ==
  ASSUME NEW c, NEW d, d.sub = c.sub
  PROVE  MastersOf(c, d) /\ SourcesOf(c, d)
BY DEF MastersOf, Single, SourcesOf

LEMMA SignalDone ==
  ASSUME FMInv, MeshInv, DoneInv, AddrSignal
  PROVE  DoneInv'
<1>1. ns' = ns /\ conn.phase # "none"
  BY DEF AddrSignal, Live
<1>2. Keeps(conn, conn', {"add", "ann", "remove", "told"})
  BY SignalAnnounces
<1>3. Keeps(conn, conn', Aloof) /\ conn'.sub = conn.sub /\ conn'.req = conn.req /\ conn'.late = conn.late
      /\ conn'.infinite = conn.infinite /\ conn'.dead = conn.dead
  BY <1>2 DEF Keeps, ConnFields, Aloof
<1>4. Follows(conn, conn')
  BY <1>3, FollowsKept, SubsStay
<1> QED
  BY <1>1, <1>4, StepFollows

LEMMA ExpiryDone ==
  ASSUME FMInv, MeshInv, DoneInv, JoinExpires
  PROVE  DoneInv'
<1>1. ns' = ns /\ conn' = [conn EXCEPT !.req = None] /\ IsConn(conn) /\ conn.phase # "none"
  BY DEF JoinExpires, MeshInv, ConnInv, Typed, Begun, Idle
<1>2. Keeps(conn, conn', {"req"}) /\ conn'.req = None
  BY <1>1 DEF IsConn, Keeps, ConnFields
<1>3. Keeps(conn, conn', Aloof) /\ conn'.sub = conn.sub /\ conn'.late = conn.late
      /\ conn'.infinite = conn.infinite /\ conn'.dead = conn.dead
  BY <1>2 DEF Keeps, ConnFields, Aloof
<1>4. Follows(conn, conn')
  BY <1>2, <1>3, FollowsKept, SubsStay
<1> QED
  BY <1>1, <1>4, StepFollows

LEMMA EndsDone ==
  ASSUME FMInv, MeshInv, DoneInv, Ends
  PROVE  DoneInv'
<1>1. /\ ns' = ns /\ conn.phase # "none"
      /\ conn' = [conn EXCEPT !.dead = TRUE] \/ conn' = [conn EXCEPT !.infinite = TRUE]
  BY DEF Ends, Live
<1>2. IsConn(conn)
  BY DEF MeshInv, ConnInv, Typed
<1>3. Keeps(conn, conn', {"dead", "infinite"}) /\ (conn.infinite => conn'.infinite)
      /\ (conn.dead => conn'.dead)
  BY <1>1, <1>2 DEF IsConn, Keeps, ConnFields
<1>4. Keeps(conn, conn', Aloof) /\ conn'.sub = conn.sub /\ conn'.late = conn.late /\ conn'.req = conn.req
  BY <1>3 DEF Keeps, ConnFields, Aloof
<1>5. Follows(conn, conn')
  BY <1>3, <1>4, FollowsKept, SubsStay
<1> QED
  BY <1>1, <1>5, StepFollows

LEMMA LostDone ==
  ASSUME FMInv, MeshInv, DoneInv, SubflowLost
  PROVE  DoneInv'
<1>1. PICK s \in {x \in DOMAIN conn.sub : x.open} :
        conn' = [conn EXCEPT !.sub = (@ (-) SetToBag({s})) (+) SetToBag({[s EXCEPT !.open = FALSE]})]
  BY DEF SubflowLost
<1> DEFINE r == [s EXCEPT !.open = FALSE]
           A == conn.sub (-) SetToBag({s})
           B == SetToBag({r})
           b == A (+) B
<1>2. ns' = ns /\ conn.phase # "none"
  BY DEF SubflowLost
<1>3. IsConn(conn) /\ IsSub(s)
  BY <1>1 DEF MeshInv, ConnInv, Typed
<1>4. r.src = s.src /\ r.master = s.master
  BY <1>3 DEF IsSub, SubFields
<1>5. /\ DOMAIN A \subseteq DOMAIN conn.sub /\ DOMAIN B = {r} /\ DOMAIN b = DOMAIN A \cup {r}
      /\ DOMAIN SetToBag({s}) = {s} /\ B[r] = 1
  <2>1. DOMAIN A \subseteq DOMAIN conn.sub /\ DOMAIN SetToBag({s}) = {s}
    BY BagMinus, BagOfSet
  <2>2. DOMAIN B = {r} /\ B[r] = 1
    BY BagOfSet
  <2> HIDE DEF A, B, r
  <2>3. DOMAIN (A (+) B) = DOMAIN A \cup DOMAIN B
    BY BagPlus
  <2> QED
    BY <2>1, <2>2, <2>3
<1>6. ASSUME Single(conn, s)
      PROVE  r \notin DOMAIN conn.sub /\ s \notin DOMAIN A
  <2>1. r # s
    BY <1>1, <1>3 DEF IsSub, SubFields
  <2> HIDE DEF r
  <2> QED
    BY <1>4, <1>6, <2>1, BagTaken DEF Single
<1>7. b[r] = 1 \/ r \in DOMAIN A
  <2> HIDE DEF A, B, r
  <2> QED
    BY <1>5 DEF (+)
<1>8. ASSUME NEW u, Single(conn, u), u # s
      PROVE  u # r /\ u \in DOMAIN b /\ b[u] = 1
  <2>1. u \in DOMAIN conn.sub /\ conn.sub[u] = 1 /\ u \notin DOMAIN SetToBag({s})
    BY <1>5, <1>8 DEF Single
  <2>2. u \in DOMAIN A /\ A[u] = 1
    BY <2>1, BagCounts
  <2>3. u # r
    BY <1>1, <1>4, <1>8 DEF Single
  <2> HIDE DEF A, B, r
  <2> QED
    BY <1>5, <2>2, <2>3, BagCounts
<1>9. conn' = [conn EXCEPT !.sub = b]
  BY <1>1
<1> HIDE DEF r, b, A, B
<1>10. Keeps(conn, conn', {"sub"}) /\ conn'.sub = b
  BY <1>3, <1>9 DEF IsConn, Keeps, ConnFields
<1>11. ASSUME NEW u, Single(conn, u)
       PROVE  \E v : Single(conn', v) /\ v.src = u.src
  <2>1. CASE u = s
    <3>1. Single(conn', r)
      BY <1>4, <1>5, <1>6, <1>7, <1>10, <1>11, <2>1 DEF Single
    <3> QED
      BY <1>4, <2>1, <3>1
  <2>2. CASE u # s
    <3>1. Single(conn', u)
      BY <1>1, <1>4, <1>5, <1>8, <1>10, <1>11, <2>2 DEF Single
    <3> QED
      BY <3>1
  <2> QED
    BY <2>1, <2>2
<1>12. MastersOf(conn, conn') /\ SourcesOf(conn, conn')
  BY <1>1, <1>4, <1>5, <1>10, <1>11 DEF MastersOf, SourcesOf
<1>13. Keeps(conn, conn', Aloof) /\ conn'.late = conn.late /\ conn'.req = conn.req
      /\ conn'.infinite = conn.infinite /\ conn'.dead = conn.dead
  BY <1>10 DEF Keeps, ConnFields, Aloof
<1>14. Follows(conn, conn')
  BY <1>12, <1>13, FollowsKept
<1> QED
  BY <1>2, <1>14, StepFollows

LEMMA RemAddrDone ==
  ASSUME FMInv, MeshInv, DoneInv, RecvRemAddr
  PROVE  DoneInv'
<1>1. PICK id : conn' = Closed(RemRaddr(conn, id), {s \in DOMAIN conn.sub : s.rid = id})
  BY DEF RecvRemAddr
<1> DEFINE c == RemRaddr(conn, id)
           S == {s \in DOMAIN conn.sub : s.rid = id}
<1>2. ns' = ns /\ conn.phase # "none"
  BY DEF RecvRemAddr, Hears, Live
<1>3. IsConn(conn) /\ IsRem(conn.rem) /\ \A s \in DOMAIN conn.sub : IsSub(s)
  BY DEF MeshInv, ConnInv, Typed
<1>4. PeersOf(conn, c) /\ SamePeers(conn, c)
  BY <1>3, RemRaddrPeers
<1>5. conn' = Closed(c, S)
  BY <1>1
<1> HIDE DEF c, S
<1>6. Keeps(conn, c, {"rem"}) /\ IsConn(c) /\ c.sub = conn.sub
  BY <1>4 DEF PeersOf, Keeps, ConnFields
<1>7. Keeps(c, conn', {"sub"}) /\ SubsOf(c, conn') /\ MastersOf(c, conn')
  BY <1>3, <1>5, <1>6, ClosedSubs
<1>8. Keeps(conn, conn', {"rem", "sub"}) /\ conn'.rem = c.rem
  BY <1>6, <1>7 DEF Keeps, ConnFields
<1>9. MastersOf(conn, conn') /\ SourcesOf(conn, conn')
  BY <1>6, <1>7 DEF MastersOf, Single, SourcesOf, SubsOf
<1>10. SamePeers(conn, conn') /\ MorePeers(conn, conn')
  BY <1>4, <1>8 DEF SamePeers, MorePeers, SamePeer
<1>11. Follows(conn, conn')
  BY <1>8, <1>9, <1>10 DEF Follows, Proceeds, Keeps, ConnFields
<1> QED
  BY <1>2, <1>11, StepFollows

LEMMA ReapDone ==
  ASSUME FMInv, MeshInv, DoneInv, Reap
  PROVE  DoneInv'
<1>1. PICK s \in {x \in DOMAIN conn.sub : ~x.open} :
        conn' = [conn EXCEPT !.sub = @ (-) SetToBag({s}),
                             !.master = IF s.master THEN "gone" ELSE @,
                             !.late = IF s.master /\ conn.master = "new" THEN @ \cup {"early"} ELSE @]
  BY DEF Reap
<1> DEFINE b == conn.sub (-) SetToBag({s})
           m == IF s.master THEN "gone" ELSE conn.master
           l == IF s.master /\ conn.master = "new" THEN conn.late \cup {"early"} ELSE conn.late
<1>2. ns' = ns /\ conn.phase # "none"
  BY DEF Reap
<1>3. IsConn(conn)
  BY DEF MeshInv, ConnInv, Typed
<1>4. DOMAIN b \subseteq DOMAIN conn.sub
  BY BagMinus
<1>5. /\ conn.late \subseteq l
      /\ m # "gone" => ~s.master /\ conn.master # "gone"
      /\ m = "new" => conn.master = "new"
      /\ conn.master = "new" => m = "new" \/ "early" \in l
  OBVIOUS
<1>6. ASSUME NEW u, Single(conn, u), ~s.master
      PROVE  u \in DOMAIN b /\ b[u] = 1
  <2>1. u \in DOMAIN conn.sub /\ conn.sub[u] = 1 /\ u \notin DOMAIN SetToBag({s})
    BY <1>6, BagOfSet DEF Single
  <2> QED
    BY <2>1, BagCounts
<1>7. conn' = [conn EXCEPT !.sub = b, !.master = m, !.late = l]
  BY <1>1
<1> HIDE DEF b, m, l
<1>8. Keeps(conn, conn', {"sub", "master", "late"}) /\ conn'.sub = b /\ conn'.late = l /\ conn'.master = m
  BY <1>3, <1>7 DEF IsConn, Keeps, ConnFields
<1>9. ~s.master => MastersOf(conn, conn')
  BY <1>4, <1>6, <1>8 DEF MastersOf, Single
<1>10. SourcesOf(conn, conn')
  BY <1>4, <1>8 DEF SourcesOf
<1>11. /\ conn'.phase = conn.phase /\ conn'.kind = conn.kind /\ conn'.pm = conn.pm
       /\ conn'.source = conn.source /\ conn'.owned = conn.owned /\ conn'.req = conn.req
       /\ conn'.infinite = conn.infinite /\ conn'.dead = conn.dead /\ conn'.rem = conn.rem
       /\ conn'.work = conn.work /\ conn'.retry = conn.retry
  BY <1>8 DEF Keeps, ConnFields
<1>12. SamePeers(conn, conn') /\ MorePeers(conn, conn')
  BY <1>11 DEF SamePeers, MorePeers, SamePeer
<1>13. Proceeds(conn, conn')
  BY <1>5, <1>8, <1>9, <1>11, <1>12 DEF Proceeds
<1>14. Follows(conn, conn')
  BY <1>5, <1>8, <1>10, <1>12, <1>13 DEF Follows
<1> QED
  BY <1>2, <1>14, StepFollows

\* The server makes no subflows.
LEMMA ServerDone ==
  ASSUME NEW c, NEW t, NEW e, c.kind.server, c.phase # "none"
  PROVE  Done(c, t, e)
BY DEF Done, Based, Unborn, Meshing

LEMMA RequestDone ==
  ASSUME FMInv, MeshInv, DoneInv, JoinRequest
  PROVE  DoneInv'
<1>1. PICK q : conn' = [conn EXCEPT !.req = q]
  BY DEF JoinRequest
<1>2. IsConn(conn) /\ conn.kind.server /\ conn.phase # "none"
  BY DEF MeshInv, ConnInv, Typed, JoinRequest, Hears, Live
<1>3. conn'.kind.server /\ conn'.phase # "none"
  BY <1>1, <1>2 DEF IsConn, ConnFields
<1> QED
  BY <1>3, ServerDone DEF DoneInv

LEMMA JoinedDone ==
  ASSUME FMInv, MeshInv, DoneInv, JoinDone
  PROVE  DoneInv'
<1> DEFINE q == conn.req
           d == WithSubflows(conn, q.src, q.dst, q.lid, q.rid, q.low, 1)
<1>1. q # None /\ conn' = [d EXCEPT !.req = None] /\ conn.phase # "none"
  BY DEF JoinDone, Hears, Live
<1>2. IsConn(conn) /\ q.src \in Addr /\ q.lid \in Lid
  BY <1>1 DEF MeshInv, ConnInv, Typed, IsReq
<1>3. conn.kind.server
  BY <1>1 DEF DoneInv, Done, Based
<1>4. Keeps(conn, d, {"sub", "told"})
  <2> HIDE DEF q
  <2> QED
    BY <1>2, WithSubflowsAdds
<1> HIDE DEF d
<1>5. conn'.kind.server /\ conn'.phase # "none"
  BY <1>1, <1>3, <1>4 DEF IsConn, Keeps, ConnFields
<1> QED
  BY <1>5, ServerDone DEF DoneInv

\* A step after which the worker is asked for.
LEMMA StepAsks ==
  ASSUME DoneInv, conn.phase # "none", ns' = ns, NEW c, Proceeds(conn, c), IsConn(c), IsWork(c.work),
         conn' = CreateSubflows(c)
  PROVE  DoneInv'
<1>1. Based(c, ns.loc, ns.now) /\ c.phase # "none"
  BY ProceedsBased DEF DoneInv, Done, Proceeds
<1> QED
  BY <1>1, AsksDone DEF DoneInv

LEMMA EstablishedDone ==
  ASSUME FMInv, MeshInv, DoneInv, FullyEstablished
  PROVE  DoneInv'
<1> DEFINE d == [conn EXCEPT !.master = "est"]
<1>1. conn' = CreateSubflows(d) /\ ns' = ns /\ conn.phase # "none" /\ conn.master = "new"
  BY DEF FullyEstablished, Live
<1>2. IsConn(conn) /\ IsWork(conn.work)
  BY DEF MeshInv, ConnInv, Typed
<1>3. Keeps(conn, d, {"master"}) /\ d.master = "est"
  BY <1>2 DEF IsConn, Keeps, ConnFields
<1> HIDE DEF d
<1>4. /\ d.phase = conn.phase /\ d.kind = conn.kind /\ d.pm = conn.pm /\ d.source = conn.source
      /\ d.owned = conn.owned /\ d.req = conn.req /\ d.infinite = conn.infinite
      /\ d.dead = conn.dead /\ d.rem = conn.rem /\ d.late = conn.late
      /\ d.work = conn.work /\ d.retry = conn.retry /\ d.sub = conn.sub
  BY <1>3 DEF Keeps, ConnFields
<1>5. MastersOf(conn, d) /\ MorePeers(conn, d)
  BY <1>4, SubsStay DEF MorePeers, SamePeer
<1>6. Proceeds(conn, d)
  BY <1>1, <1>3, <1>4, <1>5 DEF Proceeds
<1> QED
  BY <1>1, <1>2, <1>3, <1>4, <1>6, StepAsks DEF Keeps

LEMMA AddAddrDone ==
  ASSUME FMInv, MeshInv, DoneInv, RecvAddAddr
  PROVE  DoneInv'
<1>1. ns' = ns /\ conn.phase # "none"
  BY DEF RecvAddAddr, Hears, Live
<1>2. IsWork(conn.work)
  BY DEF MeshInv, ConnInv, Typed
<1>3. CASE conn' = conn
  BY <1>1, <1>3 DEF DoneInv
<1>4. ASSUME NEW c, NEW d, PeersOf(conn, c), MorePeers(conn, c), Keeps(c, d, {"late"}),
             c.late \subseteq d.late, conn' = CreateSubflows(d)
      PROVE  DoneInv'
  <2>1. Keeps(conn, d, {"rem", "late"}) /\ conn.late \subseteq d.late /\ d.rem = c.rem
    BY <1>4 DEF PeersOf, Keeps, ConnFields
  <2>2. /\ d.phase = conn.phase /\ d.kind = conn.kind /\ d.pm = conn.pm /\ d.source = conn.source
        /\ d.owned = conn.owned /\ d.req = conn.req /\ d.infinite = conn.infinite
        /\ d.dead = conn.dead /\ d.master = conn.master /\ IsConn(d)
        /\ d.work = conn.work /\ d.retry = conn.retry /\ d.sub = conn.sub
    BY <2>1 DEF Keeps, ConnFields
  <2>3. MorePeers(conn, d)
    BY <1>4, <2>1 DEF MorePeers, SamePeer, NewPeer
  <2>4. MastersOf(conn, d)
    BY <2>2, SubsStay
  <2>5. Proceeds(conn, d)
    BY <2>1, <2>2, <2>3, <2>4 DEF Proceeds
  <2> QED
    BY <1>1, <1>2, <1>4, <2>2, <2>5, StepAsks
<1> QED
  BY <1>3, <1>4, AddAddrIs

LEMMA StartedRuns ==
  ASSUME FMInv
  PROVE  /\ Started.run # None /\ Started.run.loc = ns.loc /\ SameSlots(Started, ns.loc)
<1>1. Started.run = [loc |-> ns.loc, again |-> FALSE] /\ Started.run.loc = ns.loc
  BY DEF Started
<1>2. ns.loc \in [Family -> Table]
  BY DEF FMInv, TableInv
<1>3. [loc |-> ns.loc, again |-> FALSE] \in [loc : [Family -> Table], again : BOOLEAN]
  BY <1>2
<1>4. Started.run # None
  BY <1>1, <1>3, NoneAssumption DEF Table
<1> QED
  BY <1>1, <1>4 DEF SameSlots

LEMMA WorkerStartDone ==
  ASSUME FMInv, MeshInv, DoneInv, WorkerStart
  PROVE  DoneInv'
<1>1. ns' = ns /\ conn.work.pending /\ conn.work.run = None /\ conn' = [conn EXCEPT !.work = Started]
  BY DEF WorkerStart
<1>2. IsConn(conn) /\ conn.phase # "none"
  BY <1>1 DEF MeshInv, ConnInv, Typed, Begun, Idle
<1>3. Keeps(conn, conn', {"work"}) /\ conn'.work = Started
  BY <1>1, <1>2 DEF IsConn, Keeps, ConnFields
<1>4. /\ conn'.phase = conn.phase /\ conn'.kind = conn.kind /\ conn'.pm = conn.pm
      /\ conn'.source = conn.source /\ conn'.owned = conn.owned /\ conn'.req = conn.req
      /\ conn'.infinite = conn.infinite /\ conn'.dead = conn.dead /\ conn'.rem = conn.rem
      /\ conn'.master = conn.master /\ conn'.retry = conn.retry /\ conn'.late = conn.late
      /\ conn'.sub = conn.sub
  BY <1>3 DEF Keeps, ConnFields
<1>5. (Meshing(conn') => Meshing(conn)) /\ \A f : Concerns(conn', f) <=> Concerns(conn, f)
  BY <1>4 DEF Meshing, Serving, Concerns
<1>6. Started.run # None /\ Started.run.loc = ns.loc /\ SameSlots(Started, ns.loc)
  BY StartedRuns
<1>7. ASSUME Meshing(conn')
      PROVE  /\ MasterThere(conn') /\ BitsKnown(conn', ns.loc, ns.now) /\ Again(conn')
             /\ SameSlots(conn'.work, ns.loc) /\ SameSlots(conn'.retry, ns.loc)
             /\ Tried(conn', ns.loc, ns.now)
  <2>1. /\ MasterThere(conn) /\ BitsKnown(conn, ns.loc, ns.now) /\ Again(conn)
        /\ SameSlots(conn.retry, ns.loc)
    BY <1>5, <1>7 DEF DoneInv, Done, Based
  <2>2. MasterThere(conn')
    BY <1>1, <1>4, <2>1 DEF MasterThere, Single
  <2>3. BitsKnown(conn', ns.loc, ns.now)
    BY <1>4, <1>5, <2>1 DEF BitsKnown
  <2>4. Again(conn')
    BY <1>1, <1>4, <1>5, <2>1 DEF Again
  <2>5. Tried(conn', ns.loc, ns.now)
    BY <1>3, <1>6 DEF Tried, Awaited
  <2> QED
    BY <1>3, <1>4, <1>6, <2>1, <2>2, <2>3, <2>4, <2>5
<1> QED
  BY <1>1, <1>2, <1>4, <1>7 DEF DoneInv, Done, Based, Unborn

LEMMA RetryStartDone ==
  ASSUME FMInv, MeshInv, DoneInv, RetryStart
  PROVE  DoneInv'
<1>1. ns' = ns /\ conn.retry.pending /\ conn' = [conn EXCEPT !.retry = Started]
  BY DEF RetryStart
<1>2. IsConn(conn) /\ conn.phase # "none"
  BY <1>1 DEF MeshInv, ConnInv, Typed, Begun, Idle
<1>3. Keeps(conn, conn', {"retry"}) /\ conn'.retry = Started
  BY <1>1, <1>2 DEF IsConn, Keeps, ConnFields
<1>4. /\ conn'.phase = conn.phase /\ conn'.kind = conn.kind /\ conn'.pm = conn.pm
      /\ conn'.source = conn.source /\ conn'.owned = conn.owned /\ conn'.req = conn.req
      /\ conn'.infinite = conn.infinite /\ conn'.dead = conn.dead /\ conn'.rem = conn.rem
      /\ conn'.master = conn.master /\ conn'.work = conn.work /\ conn'.late = conn.late
      /\ conn'.sub = conn.sub
  BY <1>3 DEF Keeps, ConnFields
<1>5. (Meshing(conn') => Meshing(conn)) /\ \A f : Concerns(conn', f) <=> Concerns(conn, f)
  BY <1>4 DEF Meshing, Serving, Concerns
<1>6. Started.run # None /\ SameSlots(Started, ns.loc)
  BY StartedRuns
<1>7. ASSUME Meshing(conn')
      PROVE  /\ MasterThere(conn') /\ BitsKnown(conn', ns.loc, ns.now) /\ Again(conn')
             /\ SameSlots(conn'.work, ns.loc) /\ SameSlots(conn'.retry, ns.loc)
             /\ Tried(conn', ns.loc, ns.now)
  <2>1. /\ MasterThere(conn) /\ BitsKnown(conn, ns.loc, ns.now) /\ Again(conn)
        /\ SameSlots(conn.work, ns.loc) /\ Tried(conn, ns.loc, ns.now)
    BY <1>5, <1>7 DEF DoneInv, Done, Based
  <2>2. MasterThere(conn')
    BY <1>4, <2>1 DEF MasterThere, Single
  <2>3. BitsKnown(conn', ns.loc, ns.now)
    BY <1>4, <1>5, <2>1 DEF BitsKnown
  <2>4. Again(conn')
    BY <1>3, <1>6 DEF Again
  <2>5. Tried(conn', ns.loc, ns.now)
    BY <1>4, <1>5, <2>1 DEF Tried, Awaited, Fresh
  <2> QED
    BY <1>3, <1>4, <1>6, <2>1, <2>2, <2>3, <2>4, <2>5
<1> QED
  BY <1>1, <1>2, <1>4, <1>7 DEF DoneInv, Done, Based, Unborn

\* A step after which nothing is promised any more.
LEMMA NothingPromised ==
  ASSUME NEW c, NEW d, NEW t, NEW e, Based(c, t, e), c.phase # "none", d.phase = c.phase,
         d.kind = c.kind, d.req = c.req, ~Meshing(d)
  PROVE  Done(d, t, e)
BY DEF Done, Based, Unborn

\* More subflows: the first one stays as it is.
LEMMA WithSubflowsMaster ==
  ASSUME NEW c, IsConn(c), NEW src, NEW dst, NEW lid, NEW rid, NEW low, NEW k
  PROVE  MastersOf(c, WithSubflows(c, src, dst, lid, rid, low, k))
<1> DEFINE s == [src |-> src, dst |-> dst, lid |-> lid, rid |-> rid, low |-> low,
                 master |-> FALSE, open |-> TRUE]
           B == [new \in {s} |-> k]
           b == c.sub (+) B
           told == c.told \cup {src}
           d == [c EXCEPT !.sub = b, !.told = told]
<1>1. WithSubflows(c, src, dst, lid, rid, low, k) = IF k = 0 THEN c ELSE d
  BY DEF WithSubflows
<1>2. MastersOf(c, c)
  BY DEF MastersOf
<1>3. s.master = FALSE /\ DOMAIN B = {s}
  OBVIOUS
<1> HIDE DEF s
<1>4. DOMAIN b = DOMAIN c.sub \cup {s}
  BY <1>3, BagPlus
<1>5. ASSUME NEW u, Single(c, u)
      PROVE  b[u] = 1
  <2>1. u \in DOMAIN c.sub /\ c.sub[u] \in Nat /\ u \notin DOMAIN B /\ c.sub[u] = 1
    BY <1>3, <1>5 DEF Single
  <2> HIDE DEF B
  <2> QED
    BY <2>1, BagCounts
<1> HIDE DEF b, told
<1>6. d.sub = b
  BY DEF IsConn, ConnFields
<1> HIDE DEF d
<1>7. ASSUME NEW u, Single(c, u)
      PROVE  Single(d, u)
  BY <1>3, <1>4, <1>5, <1>6, <1>7 DEF Single
<1>8. MastersOf(c, d)
  BY <1>7 DEF MastersOf
<1> QED
  BY <1>1, <1>2, <1>8

LEMMA SubsocketsAdd ==
  ASSUME NEW c, IsConn(c), NEW copy, NEW f \in Family, NEW j, NEW i \in Slot, NEW src \in Addr, NEW k
  PROVE  LET d == Subsockets(c, copy, f, j, i, src, k)
         IN  /\ Keeps(c, d, {"sub", "told"}) /\ MastersOf(c, d)
             /\ \A s \in DOMAIN d.sub : s \in DOMAIN c.sub \/ s.src = src
<1> DEFINE r == c.rem[f][j]
           lid == IF copy[f].addr[i] = None THEN 0 ELSE LocId(f, i)
           dst == r.addr
           rid == r.id
           low == copy[f].low[i]
<1>1. Subsockets(c, copy, f, j, i, src, k) = WithSubflows(c, src, dst, lid, rid, low, k)
  BY DEF Subsockets
<1>2. lid \in Lid
  BY LidOfSlot, FullMeshAssumption DEF Lid
<1> HIDE DEF lid, dst, rid, low
<1> QED
  BY <1>1, <1>2, WithSubflowsAdds, WithSubflowsMaster

\* d is c with the pair of slot i and the peer's slot j tried, or to be tried again.
Tries(c, d, t, f, j, i) ==
    /\ d.pm = c.pm /\ d.infinite = c.infinite /\ d.dead = c.dead /\ d.source = c.source
    /\ d.owned = c.owned /\ d.master = c.master /\ c.late \subseteq d.late
    /\ d.retry = c.retry /\ d.work.pending = c.work.pending
    /\ c.work.run = None => d.work.run = None
    /\ c.work.run # None => /\ d.work.run # None /\ d.work.run.loc = c.work.run.loc
                            /\ c.work.run.again => d.work.run.again
    /\ MastersOf(c, d)
    /\ \A g \in Family, k \in Slot : (g # f \/ k # j) => d.rem[g][k] = c.rem[g][k]
    /\ c.rem[f][j] # None
    /\ d.rem[f][j].bits = c.rem[f][j].bits \cup {i}
    /\ d.rem[f][j].retry \subseteq c.rem[f][j].retry \cup {i}
    /\ d.rem[f][j].retry \subseteq c.rem[f][j].retry \/ (d.work.run # None /\ d.work.run.again)

\* Whose turn it was, and from where.
InTurn(c, d, t, f, j, i) ==
    /\ i \in t[f].bits
    /\ i \in c.rem[f][j].retry \/ (c.work.run # None /\ i \in c.work.run.loc[f].bits)
    /\ \A s \in DOMAIN d.sub : s.src = t[f].addr[i] \/ \E u \in DOMAIN c.sub : u.src = s.src

LEMMA PairDone ==
  ASSUME NEW c, NEW d, NEW t, NEW e, TableInv(t), Done(c, t, e), c.phase # "none", d.phase = c.phase,
         d.kind = c.kind, d.req = c.req, NEW f \in Family, NEW j \in Slot, NEW i \in Slot,
         Tries(c, d, t, f, j, i), Meshing(d) => InTurn(c, d, t, f, j, i)
  PROVE  Done(d, t, e)
<1> SUFFICES ASSUME Meshing(d)
             PROVE  Done(d, t, e)
  BY NothingPromised DEF Done
<1>1. Meshing(c) /\ InTurn(c, d, t, f, j, i) /\ \A g : Concerns(d, g) <=> Concerns(c, g)
  BY DEF Tries, Meshing, Serving, Concerns
<1>2. /\ MasterThere(c) /\ BitsKnown(c, t, e) /\ Again(c) /\ Tried(c, t, e)
      /\ SameSlots(c.work, t) /\ SameSlots(c.retry, t)
  BY <1>1 DEF Done, Based
<1>3. MasterThere(d)
  BY <1>2 DEF MasterThere, Tries, MastersOf
<1>4. BitsKnown(d, t, e)
  <2> SUFFICES ASSUME NEW g \in Family, NEW k \in Slot, Concerns(d, g), d.rem[g][k] # None
               PROVE  /\ d.rem[g][k].retry \subseteq d.rem[g][k].bits
                      /\ d.owned \/ LeavesFam(e, g) \/ d.rem[g][k].bits \subseteq t[g].bits
    BY DEF BitsKnown
  <2>1. c.rem[g][k] # None
    BY DEF Tries
  <2>2. /\ c.rem[g][k].retry \subseteq c.rem[g][k].bits
        /\ c.owned \/ LeavesFam(e, g) \/ c.rem[g][k].bits \subseteq t[g].bits
    BY <1>1, <1>2, <2>1 DEF BitsKnown
  <2>3. CASE g # f \/ k # j
    BY <2>2, <2>3 DEF Tries
  <2>4. CASE g = f /\ k = j
    BY <1>1, <2>2, <2>4 DEF Tries, InTurn
  <2> QED
    BY <2>3, <2>4
<1>5. Again(d)
  <2> SUFFICES ASSUME NEW g \in Family, NEW k \in Slot, Concerns(d, g), d.rem[g][k] # None,
                      d.rem[g][k].retry # {}
               PROVE  \/ d.retry.pending \/ d.retry.run # None
                      \/ d.work.run # None /\ d.work.run.again
    BY DEF Again
  <2>1. c.rem[g][k] # None
    BY DEF Tries
  <2>2. c.rem[g][k].retry # {} \/ (d.work.run # None /\ d.work.run.again)
    BY DEF Tries
  <2> QED
    BY <1>1, <1>2, <2>1, <2>2 DEF Again, Tries
<1>6. SameSlots(d.work, t) /\ SameSlots(d.retry, t)
  BY <1>2 DEF SameSlots, Tries
<1>7. Tried(d, t, e)
  <2> SUFFICES ASSUME d.master # "new", NEW g \in Family, NEW k \in Slot, Concerns(d, g),
                      d.rem[g][k] # None, NEW n \in t[g].bits, n \notin d.rem[g][k].bits
               PROVE  Awaited(d, t, e, g, n)
    BY DEF Tried
  <2>1. c.rem[g][k] # None /\ n \notin c.rem[g][k].bits /\ c.master # "new"
    BY DEF Tries
  <2>2. Awaited(c, t, e, g, n)
    BY <1>1, <1>2, <2>1 DEF Tried
  <2>3. CASE c.work.pending \/ (c.work.run # None /\ n \in c.work.run.loc[g].bits)
    BY <2>3 DEF Awaited, Tries
  <2>4. CASE /\ ~(c.work.run # None /\ n \in c.work.run.loc[g].bits)
             /\ (c.owned \/ Gains(e, t[g].addr[n])) /\ Fresh(c, t, g, n)
    <3>1. g # f \/ n # i
      BY <1>1, <2>4 DEF InTurn, Tries, Fresh
    <3>2. t[g].addr[n] # t[f].addr[i]
      BY <1>1, <3>1 DEF TableInv, InTurn
    <3>3. \A s \in DOMAIN d.sub : s.src # t[g].addr[n]
      BY <1>1, <2>4, <3>2 DEF InTurn, Fresh
    <3>4. \A l \in Slot : d.rem[g][l] # None => n \notin d.rem[g][l].retry
      BY <2>4, <3>1 DEF Fresh, Tries
    <3> QED
      BY <2>4, <3>3, <3>4 DEF Awaited, Fresh, Tries
  <2> QED
    BY <2>2, <2>3, <2>4 DEF Awaited
<1> QED
  BY <1>3, <1>4, <1>5, <1>6, <1>7 DEF Done, Based, Unborn

LEMMA FirstPairDone ==
  ASSUME FMInv, MeshInv, DoneInv, conn.phase = "open", conn.work.run # None, NEW x
  PROVE  Done(FirstPair(conn, x), ns.loc, ns.now)
<1> DEFINE t == ns.loc
           src == conn.source
           dst == MasterDst[Fam(src)]
           low == FALSE
           w == WithSubflows(conn, src, dst, 0, 0, low, x)
           L == {v \in {"source"} : x > 0 /\ FindAddress(t, src) = None}
           d == [w EXCEPT !.first = TRUE, !.late = @ \cup L]
<1>1. IsConn(conn) /\ src \in Addr /\ Done(conn, ns.loc, ns.now) /\ Based(conn, ns.loc, ns.now)
  BY DEF MeshInv, ConnInv, Typed, Begun, DoneInv, Done
<1>2. FirstPair(conn, x) = IF conn.first \/ conn.master = "gone" THEN conn ELSE d
  BY DEF FirstPair
<1> SUFFICES ASSUME conn.master # "gone"
             PROVE  Done(d, ns.loc, ns.now)
  BY <1>1, <1>2
<1> HIDE DEF t, src, dst, low, L
<1>3. /\ Keeps(conn, w, {"sub", "told"}) /\ MastersOf(conn, w)
      /\ \A s \in DOMAIN w.sub : s \in DOMAIN conn.sub \/ s.src = src
  <2>1. 0 \in Lid
    BY FullMeshAssumption DEF Lid
  <2> QED
    BY <1>1, <2>1, WithSubflowsAdds, WithSubflowsMaster
<1> HIDE DEF w
<1>4. Keeps(w, d, {"first", "late"}) /\ d.late = w.late \cup L /\ d.sub = w.sub
  BY <1>3 DEF Keeps, IsConn, ConnFields
<1> HIDE DEF d
<1>5. /\ Keeps(conn, d, Aloof) /\ d.infinite = conn.infinite /\ d.dead = conn.dead /\ d.req = conn.req
      /\ d.pm = conn.pm /\ d.phase = conn.phase /\ d.kind = conn.kind /\ conn.late \subseteq d.late
  BY <1>3, <1>4 DEF Keeps, ConnFields, Aloof
<1>6. MastersOf(conn, d)
  BY <1>3, <1>4 DEF MastersOf, Single
<1>7. CASE ~Meshing(conn)
  <2>1. ~Meshing(d)
    BY <1>5, <1>7 DEF Meshing, Serving
  <2> QED
    BY <1>1, <1>5, <2>1, NothingPromised
<1>8. CASE Meshing(conn)
  <2>1. PICK u : Single(conn, u) /\ u.src = src
    BY <1>1, <1>8 DEF Based, MasterThere, src
  <2>2. SourcesOf(conn, d)
    BY <1>3, <1>4, <2>1 DEF SourcesOf, Single
  <2>3. Follows(conn, d)
    BY <1>1, <1>5, <1>6, <2>2, FollowsKept
  <2> QED
    BY <1>1, <2>3, FollowsDone
<1> QED
  BY <1>7, <1>8

\* What becomes of the row of a peer.
Row(c, d, f, j, B, R) ==
    /\ Keeps(c, d, {"rem"}) /\ IsRem(d.rem) /\ IsRemote(d.rem[f][j])
    /\ \A g \in Family, k \in Slot : (g # f \/ k # j) => d.rem[g][k] = c.rem[g][k]
    /\ d.rem[f][j].bits = B /\ d.rem[f][j].retry = R

LEMMA RowsMarked ==
  ASSUME NEW c, IsConn(c), IsRem(c.rem), NEW f \in Family, NEW j \in Slot, IsRemote(c.rem[f][j]),
         NEW i \in Slot, NEW d
  PROVE  /\ d = [c EXCEPT !.rem[f][j].bits = @ \cup {i}] =>
               Row(c, d, f, j, c.rem[f][j].bits \cup {i}, c.rem[f][j].retry)
         /\ d = [c EXCEPT !.rem[f][j].retry = @ \cup {i}] =>
               Row(c, d, f, j, c.rem[f][j].bits, c.rem[f][j].retry \cup {i})
         /\ d = [c EXCEPT !.rem[f][j].retry = @ \ {i}] =>
               Row(c, d, f, j, c.rem[f][j].bits, c.rem[f][j].retry \ {i})
<1>1. Marked(c, d, f, j, i) =>
        /\ PeersOf(c, d) /\ IsRemote(d.rem[f][j])
        /\ \A g \in Family, k \in Slot : (g # f \/ k # j) => d.rem[g][k] = c.rem[g][k]
        /\ d = [c EXCEPT !.rem[f][j].bits = @ \cup {i}] =>
             d.rem[f][j].bits = c.rem[f][j].bits \cup {i} /\ d.rem[f][j].retry = c.rem[f][j].retry
        /\ d = [c EXCEPT !.rem[f][j].retry = @ \cup {i}] =>
             d.rem[f][j].bits = c.rem[f][j].bits /\ d.rem[f][j].retry = c.rem[f][j].retry \cup {i}
        /\ d = [c EXCEPT !.rem[f][j].retry = @ \ {i}] =>
             d.rem[f][j].bits = c.rem[f][j].bits /\ d.rem[f][j].retry = c.rem[f][j].retry \ {i}
  BY MarkedPeers
<1>2. CASE d = [c EXCEPT !.rem[f][j].bits = @ \cup {i}]
  <2>1. Marked(c, d, f, j, i)
    BY <1>2 DEF Marked
  <2>2. Row(c, d, f, j, c.rem[f][j].bits \cup {i}, c.rem[f][j].retry)
    BY <1>1, <1>2, <2>1 DEF Row, PeersOf
  <2>3. (d = [c EXCEPT !.rem[f][j].retry = @ \cup {i}] =>
           Row(c, d, f, j, c.rem[f][j].bits, c.rem[f][j].retry \cup {i}))
    BY <1>1, <2>1 DEF Row, PeersOf
  <2>4. d = [c EXCEPT !.rem[f][j].retry = @ \ {i}] =>
           Row(c, d, f, j, c.rem[f][j].bits, c.rem[f][j].retry \ {i})
    BY <1>1, <2>1 DEF Row, PeersOf
  <2> QED
    BY <2>2, <2>3, <2>4
<1>3. CASE d = [c EXCEPT !.rem[f][j].retry = @ \cup {i}]
  <2>1. Marked(c, d, f, j, i)
    BY <1>3 DEF Marked
  <2> QED
    BY <1>1, <2>1 DEF Row, PeersOf
<1>4. CASE d = [c EXCEPT !.rem[f][j].retry = @ \ {i}]
  <2>1. Marked(c, d, f, j, i)
    BY <1>4 DEF Marked
  <2> QED
    BY <1>1, <2>1 DEF Row, PeersOf
<1> QED
  BY <1>2, <1>3, <1>4

LEMMA WorkerStepDone ==
  ASSUME FMInv, MeshInv, DoneInv, WorkerStep
  PROVE  DoneInv'
<1>0. PICK x \in FirstPairs(conn) : WorkerSteps(FirstPair(conn, x), conn')
  BY WorkerStepIs
<1> DEFINE t == ns.loc
           c == FirstPair(conn, x)
           copy == c.work.run.loc
<1>1. /\ conn.work.run # None /\ ns' = ns /\ conn.phase = "open" /\ TableInv(t)
  BY DEF WorkerStep, MeshInv, ConnInv, Typed, Begun, Idle, FMInv
<1>2. /\ ConnInv(c, t, ns.now) /\ c.phase = "open" /\ c.work = conn.work
      /\ Done(c, t, ns.now)
  BY <1>1, FirstPairKeeps, FirstPairDone
<1>3. WorkerSteps(c, conn')
  BY <1>0
<1> SUFFICES Done(conn', t, ns.now)
  BY <1>1 DEF DoneInv
<1> HIDE DEF c, t
<1>4. IsConn(c) /\ TableInv(copy) /\ IsRem(c.rem) /\ IsWork(c.work) /\ IsWork(c.retry) /\ c.work.run # None
  BY <1>1, <1>2 DEF ConnInv, Typed, IsWork
<1>5. Based(c, t, ns.now)
  BY <1>2 DEF Done
<1>6. CASE (c.dead \/ c.master = "new") /\ conn' = [c EXCEPT !.work.run = None]
  <2>1. /\ conn'.phase = c.phase /\ conn'.kind = c.kind /\ conn'.req = c.req /\ conn'.dead = c.dead
        /\ conn'.pm = c.pm /\ conn'.infinite = c.infinite /\ conn'.late = c.late
    BY <1>4, <1>6 DEF IsConn, ConnFields
  <2>2. Meshing(conn') => Meshing(c) /\ ~c.dead
    BY <2>1 DEF Meshing, Serving
  <2>3. ~Meshing(conn')
    BY <1>4, <1>5, <1>6, <2>2 DEF Based, MasterThere
  <2> QED
    BY <1>2, <1>5, <2>1, <2>3, NothingPromised
<1>7. ASSUME \A f \in Family, j \in Slot, i \in Slot : i \notin Remaining(c, copy, f, j),
             NEW b, c.retry.pending \/ c.work.run.again => b,
             conn' = [c EXCEPT !.work.run = None, !.retry.pending = b]
      PROVE  Done(conn', t, ns.now)
  <2>1. /\ conn'.phase = c.phase /\ conn'.kind = c.kind /\ conn'.pm = c.pm
        /\ conn'.source = c.source /\ conn'.owned = c.owned /\ conn'.req = c.req
        /\ conn'.infinite = c.infinite /\ conn'.dead = c.dead /\ conn'.rem = c.rem
        /\ conn'.master = c.master /\ conn'.late = c.late /\ conn'.sub = c.sub
    BY <1>4, <1>7 DEF IsConn, ConnFields
  <2>2. /\ conn'.work.run = None /\ conn'.work.pending = c.work.pending
        /\ conn'.retry.run = c.retry.run /\ conn'.retry.pending = b
    BY <1>4, <1>7 DEF IsConn, ConnFields, IsWork
  <2> SUFFICES ASSUME Meshing(conn')
               PROVE  Done(conn', t, ns.now)
    BY <1>2, <1>5, <2>1, NothingPromised
  <2>3. Meshing(c) /\ \A g : Concerns(conn', g) <=> Concerns(c, g)
    BY <2>1 DEF Meshing, Serving, Concerns
  <2>4. /\ MasterThere(c) /\ BitsKnown(c, t, ns.now) /\ Again(c) /\ Tried(c, t, ns.now)
        /\ SameSlots(c.retry, t)
    BY <1>2, <2>3 DEF Done, Based
  <2>5. MasterThere(conn') /\ BitsKnown(conn', t, ns.now)
    BY <2>1, <2>2, <2>3, <2>4 DEF MasterThere, Single, BitsKnown
  <2>6. Again(conn')
    BY <1>7, <2>1, <2>2, <2>3, <2>4 DEF Again
  <2>7. SameSlots(conn'.work, t) /\ SameSlots(conn'.retry, t)
    BY <2>2, <2>4 DEF SameSlots
  <2>8. Tried(conn', t, ns.now)
    <3> SUFFICES ASSUME c.master # "new", NEW g \in Family, NEW k \in Slot, Concerns(c, g),
                        c.rem[g][k] # None, NEW n \in t[g].bits, n \notin c.rem[g][k].bits
                 PROVE  Awaited(conn', t, ns.now, g, n)
      BY <2>1, <2>3 DEF Tried
    <3>1. Awaited(c, t, ns.now, g, n)
      BY <2>4 DEF Tried
    <3>2. n \notin copy[g].bits
      <4>1. copy[g].bits \subseteq Slot
        BY <1>4 DEF TableInv, Table
      <4>2. n \in Slot => n \notin copy[g].bits \ c.rem[g][k].bits
        BY <1>7 DEF Remaining
      <4> QED
        BY <4>1, <4>2
    <3>3. c.work.pending \/ ((c.owned \/ Gains(ns.now, t[g].addr[n])) /\ Fresh(c, t, g, n))
      BY <3>1, <3>2 DEF Awaited
    <3> QED
      BY <2>1, <2>2, <3>3 DEF Awaited, Fresh
  <2> QED
    BY <1>2, <2>1, <2>5, <2>6, <2>7, <2>8 DEF Done, Based, Unborn
<1>8. ASSUME NEW f \in Family, NEW j \in Slot, NEW i \in Slot, TakesPair(c, conn', f, j, i)
      PROVE  Done(conn', t, ns.now)
  <2> DEFINE d == [c EXCEPT !.rem[f][j].bits = @ \cup {i}]
             g == [d EXCEPT !.rem[f][j].retry = @ \cup {i}]
             src == copy[f].addr[i]
  <2>0. c.rem[f][j] # None /\ i \in copy[f].bits /\ src \in Addr /\ IsRemote(c.rem[f][j])
    BY <1>4, <1>8, SlotAddresses DEF TakesPair, IsRem
  <2>1. /\ Keeps(c, d, {"rem"}) /\ IsRem(d.rem) /\ IsRemote(d.rem[f][j])
        /\ \A h \in Family, k \in Slot : (h # f \/ k # j) => d.rem[h][k] = c.rem[h][k]
        /\ d.rem[f][j].bits = c.rem[f][j].bits \cup {i} /\ d.rem[f][j].retry = c.rem[f][j].retry
    <3>1. d = [c EXCEPT !.rem[f][j].bits = @ \cup {i}]
      OBVIOUS
    <3> HIDE DEF d
    <3>2. Row(c, d, f, j, c.rem[f][j].bits \cup {i}, c.rem[f][j].retry)
      BY <1>4, <2>0, <3>1, RowsMarked
    <3> QED
      BY <3>2 DEF Row
  <2>2. \/ \E k : conn' = Subsockets(d, copy, f, j, i, src, k)
        \/ conn' = [g EXCEPT !.work.run.again = TRUE]
    BY <1>8 DEF TakesPair
  <2> HIDE DEF d
  <2>3. Meshing(conn') /\ conn'.late = c.late /\ conn'.phase = c.phase /\ conn'.pm = c.pm
          /\ conn'.infinite = c.infinite /\ conn'.dead = c.dead /\ conn'.kind = c.kind
          => i \in t[f].bits /\ src = t[f].addr[i]
    BY <1>4, <1>5, <2>0 DEF Based, SameSlots, Meshing, Serving
  <2>4. ASSUME NEW k, conn' = Subsockets(d, copy, f, j, i, src, k)
        PROVE  Done(conn', t, ns.now)
    <3>1. /\ Keeps(d, conn', {"sub", "told"}) /\ MastersOf(d, conn')
          /\ \A s \in DOMAIN conn'.sub : s \in DOMAIN d.sub \/ s.src = src
      <4>1. IsConn(d) /\ src \in Addr
        BY <2>0, <2>1 DEF Keeps
      <4> HIDE DEF src, copy
      <4> QED
        BY <2>4, <4>1, SubsocketsAdd
    <3>2. /\ conn'.phase = c.phase /\ conn'.kind = c.kind /\ conn'.pm = c.pm
          /\ conn'.source = c.source /\ conn'.owned = c.owned /\ conn'.req = c.req
          /\ conn'.infinite = c.infinite /\ conn'.dead = c.dead /\ conn'.rem = d.rem
          /\ conn'.master = c.master /\ conn'.late = c.late /\ d.sub = c.sub
          /\ conn'.work = c.work /\ conn'.retry = c.retry
      BY <2>1, <3>1 DEF Keeps, ConnFields
    <3>3. MastersOf(c, conn')
      BY <3>1, <3>2 DEF MastersOf, Single
    <3>4. Tries(c, conn', t, f, j, i)
      BY <2>0, <2>1, <3>2, <3>3 DEF Tries
    <3>5. Meshing(conn') => InTurn(c, conn', t, f, j, i)
      BY <1>4, <2>0, <2>3, <3>1, <3>2 DEF InTurn
    <3> QED
      BY <1>1, <1>2, <3>2, <3>4, <3>5, PairDone
  <2>5. CASE conn' = [g EXCEPT !.work.run.again = TRUE]
    <3>1. /\ Keeps(d, g, {"rem"}) /\ IsRem(g.rem)
          /\ \A h \in Family, k \in Slot : (h # f \/ k # j) => g.rem[h][k] = d.rem[h][k]
          /\ g.rem[f][j].bits = d.rem[f][j].bits /\ g.rem[f][j].retry = d.rem[f][j].retry \cup {i}
      <4>1. g = [d EXCEPT !.rem[f][j].retry = @ \cup {i}]
        OBVIOUS
      <4>2. IsConn(d)
        BY <2>1 DEF Keeps
      <4> HIDE DEF g
      <4>3. Row(d, g, f, j, d.rem[f][j].bits, d.rem[f][j].retry \cup {i})
        BY <2>1, <4>1, <4>2, RowsMarked
      <4> QED
        BY <4>3 DEF Row
    <3> HIDE DEF g
    <3>2. Keeps(c, g, {"rem"}) /\ g.work = c.work /\ IsConn(g)
      BY <2>1, <3>1 DEF Keeps, ConnFields
    <3>3. /\ Keeps(g, conn', {"work"}) /\ conn'.work.pending = g.work.pending
          /\ conn'.work.run = [g.work.run EXCEPT !.again = TRUE]
      BY <1>4, <2>5, <3>2 DEF IsConn, ConnFields, Keeps, IsWork
    <3>4. conn'.work.run # None
      <4>1. /\ conn'.work.run.loc = c.work.run.loc
            /\ conn'.work.run = [loc |-> c.work.run.loc, again |-> TRUE]
        BY <1>4, <3>2, <3>3 DEF IsWork
      <4>2. c.work.run.loc \in [Family -> Table]
        BY <1>4 DEF TableInv
      <4>3. conn'.work.run \in [loc : [Family -> Table], again : BOOLEAN]
        BY <4>1, <4>2
      <4> QED
        BY <4>3, NoneAssumption DEF Table
    <3>5. conn'.work.run.loc = c.work.run.loc /\ conn'.work.run.again = TRUE
      BY <1>4, <3>2, <3>3 DEF IsWork
    <3>6. /\ conn'.phase = c.phase /\ conn'.kind = c.kind /\ conn'.pm = c.pm
          /\ conn'.source = c.source /\ conn'.owned = c.owned /\ conn'.req = c.req
          /\ conn'.infinite = c.infinite /\ conn'.dead = c.dead /\ conn'.rem = g.rem
          /\ conn'.master = c.master /\ conn'.late = c.late /\ conn'.sub = c.sub
          /\ conn'.retry = c.retry /\ conn'.work.pending = c.work.pending
      BY <3>2, <3>3 DEF Keeps, ConnFields
    <3>7. MastersOf(c, conn')
      BY <3>6, SubsStay
    <3>8. Tries(c, conn', t, f, j, i)
      BY <1>4, <2>0, <2>1, <3>1, <3>4, <3>5, <3>6, <3>7 DEF Tries
    <3>9. Meshing(conn') => InTurn(c, conn', t, f, j, i)
      BY <1>4, <2>0, <2>3, <3>6 DEF InTurn
    <3> QED
      BY <1>1, <1>2, <3>6, <3>8, <3>9, PairDone
  <2> QED
    BY <2>2, <2>4, <2>5
<1> QED
  BY <1>3, <1>6, <1>7, <1>8 DEF WorkerSteps

LEMMA RetryStepDone ==
  ASSUME FMInv, MeshInv, DoneInv, RetryStep
  PROVE  DoneInv'
<1> DEFINE t == ns.loc
           copy == conn.retry.run.loc
<1>1. conn.retry.run # None /\ ns' = ns
  BY DEF RetryStep
<1>2. /\ conn.phase = "open" /\ IsConn(conn) /\ IsWork(conn.retry)
      /\ TableInv(copy) /\ TableInv(t) /\ IsRem(conn.rem)
  BY <1>1 DEF FMInv, MeshInv, ConnInv, Typed, Begun, Idle, IsWork
<1>3. Done(conn, t, ns.now) /\ Based(conn, t, ns.now)
  BY DEF DoneInv, Done
<1> SUFFICES Done(conn', t, ns.now)
  BY <1>1 DEF DoneInv
<1>4. ASSUME conn.dead \/ \A f \in Family, j \in Slot, i \in Slot : i \notin ToRetry(conn, f, j),
             conn' = [conn EXCEPT !.retry.run = None]
      PROVE  Done(conn', t, ns.now)
  <2>1. /\ conn'.phase = conn.phase /\ conn'.kind = conn.kind /\ conn'.pm = conn.pm
        /\ conn'.source = conn.source /\ conn'.owned = conn.owned /\ conn'.req = conn.req
        /\ conn'.infinite = conn.infinite /\ conn'.dead = conn.dead /\ conn'.rem = conn.rem
        /\ conn'.master = conn.master /\ conn'.late = conn.late /\ conn'.sub = conn.sub
        /\ conn'.work = conn.work /\ conn'.retry.run = None
    BY <1>2, <1>4 DEF IsConn, ConnFields, IsWork
  <2> SUFFICES ASSUME Meshing(conn')
               PROVE  Done(conn', t, ns.now)
    BY <1>2, <1>3, <2>1, NothingPromised
  <2>2. Meshing(conn) /\ ~conn.dead /\ \A g : Concerns(conn', g) <=> Concerns(conn, g)
    BY <2>1 DEF Meshing, Serving, Concerns
  <2>3. /\ MasterThere(conn) /\ BitsKnown(conn, t, ns.now) /\ Tried(conn, t, ns.now)
        /\ SameSlots(conn.work, t)
    BY <1>3, <2>2 DEF Done, Based
  <2> HIDE DEF t
  <2>4. MasterThere(conn') /\ BitsKnown(conn', t, ns.now)
    BY <2>1, <2>2, <2>3 DEF MasterThere, Single, BitsKnown
  <2>5. Again(conn')
    <3>1. ASSUME NEW f \in Family, NEW j \in Slot, conn.rem[f][j] # None
          PROVE  conn.rem[f][j].retry = {}
      <4>1. conn.rem[f][j].retry \subseteq Slot
        BY <1>2, <3>1 DEF IsRem, IsRemote
      <4>2. \A i \in Slot : i \notin conn.rem[f][j].retry
        BY <1>4, <2>2, <3>1 DEF ToRetry
      <4> QED
        BY <4>1, <4>2
    <3> QED
      BY <2>1, <3>1 DEF Again
  <2>6. SameSlots(conn'.work, t) /\ SameSlots(conn'.retry, t)
    BY <2>1, <2>3 DEF SameSlots
  <2>7. Tried(conn', t, ns.now)
    BY <2>1, <2>2, <2>3 DEF Tried, Awaited, Fresh
  <2> QED
    BY <1>2, <1>3, <2>1, <2>4, <2>5, <2>6, <2>7 DEF Done, Based, Unborn
<1>5. ASSUME NEW f \in Family, NEW j \in Slot, NEW i \in Slot, TriesAgain(conn, conn', f, j, i)
      PROVE  Done(conn', t, ns.now)
  <2> DEFINE S == Outdated(copy, f, i)
             b == [conn EXCEPT !.rem[f][j].bits = @ \cup {i}]
             r == [b EXCEPT !.rem[f][j].retry = @ \ {i}]
             d == [r EXCEPT !.late = @ \cup S]
  <2>0. conn.rem[f][j] # None /\ i \in conn.rem[f][j].retry /\ IsRemote(conn.rem[f][j])
    BY <1>2, <1>5 DEF TriesAgain, IsRem
  <2>1. PICK src \in SourceOf(copy, f, i) : \E k : conn' = Subsockets(d, copy, f, j, i, src, k)
    BY <1>5 DEF TriesAgain
  <2> HIDE DEF S, t
  <2>2. /\ Keeps(conn, b, {"rem"}) /\ IsRem(b.rem) /\ IsRemote(b.rem[f][j])
        /\ \A h \in Family, k \in Slot : (h # f \/ k # j) => b.rem[h][k] = conn.rem[h][k]
        /\ b.rem[f][j].bits = conn.rem[f][j].bits \cup {i} /\ b.rem[f][j].retry = conn.rem[f][j].retry
    <3>1. b = [conn EXCEPT !.rem[f][j].bits = @ \cup {i}]
      OBVIOUS
    <3> HIDE DEF b
    <3>2. Row(conn, b, f, j, conn.rem[f][j].bits \cup {i}, conn.rem[f][j].retry)
      BY <1>2, <2>0, <3>1, RowsMarked
    <3> QED
      BY <3>2 DEF Row
  <2> HIDE DEF b
  <2>3. /\ Keeps(b, r, {"rem"}) /\ IsRem(r.rem)
        /\ \A h \in Family, k \in Slot : (h # f \/ k # j) => r.rem[h][k] = b.rem[h][k]
        /\ r.rem[f][j].bits = b.rem[f][j].bits /\ r.rem[f][j].retry = b.rem[f][j].retry \ {i}
    <3>1. r = [b EXCEPT !.rem[f][j].retry = @ \ {i}] /\ IsConn(b)
      BY <2>2 DEF Keeps
    <3> HIDE DEF r
    <3>2. Row(b, r, f, j, b.rem[f][j].bits, b.rem[f][j].retry \ {i})
      BY <2>2, <3>1, RowsMarked
    <3> QED
      BY <3>2 DEF Row
  <2> HIDE DEF r
  <2>4. Keeps(r, d, {"late"}) /\ d.late = r.late \cup S /\ IsConn(d)
    BY <2>3 DEF Keeps, IsConn, ConnFields
  <2> HIDE DEF d
  <2>5. PICK k : conn' = Subsockets(d, copy, f, j, i, src, k)
    BY <2>1
  <2>6. src \in Addr
    <3>1. copy[f].addr[i] \in Addr \cup {None}
      BY <1>2 DEF TableInv, Table
    <3> QED
      BY <2>1, <3>1 DEF SourceOf
  <2> HIDE DEF copy
  <2>7. /\ Keeps(d, conn', {"sub", "told"}) /\ MastersOf(d, conn')
        /\ \A s \in DOMAIN conn'.sub : s \in DOMAIN d.sub \/ s.src = src
    BY <2>4, <2>5, <2>6, SubsocketsAdd
  <2>8. /\ conn'.phase = conn.phase /\ conn'.kind = conn.kind /\ conn'.pm = conn.pm
        /\ conn'.source = conn.source /\ conn'.owned = conn.owned /\ conn'.req = conn.req
        /\ conn'.infinite = conn.infinite /\ conn'.dead = conn.dead /\ conn'.rem = r.rem
        /\ conn'.master = conn.master /\ conn'.late = conn.late \cup S /\ d.sub = conn.sub
        /\ conn'.work = conn.work /\ conn'.retry = conn.retry
    BY <2>2, <2>3, <2>4, <2>7 DEF Keeps, ConnFields
  <2>9. MastersOf(conn, conn')
    BY <2>7, <2>8 DEF MastersOf, Single
  <2>10. Tries(conn, conn', t, f, j, i)
    BY <2>0, <2>2, <2>3, <2>8, <2>9 DEF Tries
  <2>11. ASSUME Meshing(conn')
         PROVE  InTurn(conn, conn', t, f, j, i)
    <3>1. Meshing(conn) /\ "copy" \notin S
      BY <2>8, <2>11 DEF Meshing, Serving
    <3>2. SameSlots(conn.retry, t)
      BY <1>3, <3>1 DEF Based
    <3>3. i \in copy[f].bits
      BY <3>1 DEF S, Outdated
    <3>4. i \in t[f].bits /\ copy[f].addr[i] = t[f].addr[i]
      BY <1>1, <3>2, <3>3 DEF SameSlots, copy
    <3>5. src = t[f].addr[i]
      BY <1>2, <2>1, <3>3, <3>4, SlotAddresses DEF SourceOf
    <3> QED
      BY <2>0, <2>7, <2>8, <3>4, <3>5 DEF InTurn
  <2> QED
    BY <1>2, <1>3, <2>8, <2>10, <2>11, PairDone
<1> QED
  BY <1>4, <1>5, RetryStepIs DEF RetrySteps

\* The table has no new address.
LEMMA TableShrinks ==
  ASSUME NEW c, NEW d, NEW t, NEW u, NEW n, Done(c, t, None), Keeps(c, d, {"late"}),
         c.late \subseteq d.late,
         \A f \in Family : u[f].bits \subseteq t[f].bits /\ u[f].addr = t[f].addr,
         Meshing(d) => \A f \in Family :
           \/ u[f].bits = t[f].bits
           \/ LeavesFam(n, f) /\ d.work.run = None /\ d.retry.run = None
  PROVE  Done(d, u, n)
<1>1. /\ d.phase = c.phase /\ d.kind = c.kind /\ d.pm = c.pm /\ d.source = c.source /\ d.owned = c.owned
      /\ d.infinite = c.infinite /\ d.dead = c.dead /\ d.retry = c.retry /\ d.work = c.work
      /\ d.master = c.master /\ d.rem = c.rem /\ d.sub = c.sub /\ d.req = c.req
  BY DEF Keeps, ConnFields
<1>2. (Meshing(d) => Meshing(c)) /\ \A f : Concerns(d, f) <=> Concerns(c, f)
  BY <1>1 DEF Meshing, Serving, Concerns
<1>3. \A f : ~LeavesFam(None, f)
  BY DEF LeavesFam
<1>4. ASSUME Meshing(d)
      PROVE  /\ MasterThere(d) /\ BitsKnown(d, u, n) /\ Again(d)
             /\ SameSlots(d.work, u) /\ SameSlots(d.retry, u) /\ Tried(d, u, n)
  <2>1. /\ MasterThere(c) /\ BitsKnown(c, t, None) /\ Again(c)
        /\ SameSlots(c.work, t) /\ SameSlots(c.retry, t) /\ Tried(c, t, None)
    BY <1>2, <1>4 DEF Done, Based
  <2>2. MasterThere(d)
    BY <1>1, <2>1 DEF MasterThere, Single
  <2>3. BitsKnown(d, u, n)
    BY <1>1, <1>2, <1>3, <1>4, <2>1 DEF BitsKnown
  <2>4. Again(d)
    BY <1>1, <1>2, <2>1 DEF Again
  <2>5. SameSlots(d.work, u) /\ SameSlots(d.retry, u)
    BY <1>1, <1>4, <2>1 DEF SameSlots
  <2>6. Tried(d, u, n)
    <3> SUFFICES ASSUME d.master # "new", NEW f \in Family, NEW j \in Slot, Concerns(d, f),
                        d.rem[f][j] # None, NEW i \in u[f].bits, i \notin d.rem[f][j].bits
                 PROVE  Awaited(d, u, n, f, i)
      BY DEF Tried
    <3>1. i \in t[f].bits
      OBVIOUS
    <3>2. Awaited(c, t, None, f, i)
      BY <1>1, <1>2, <2>1, <3>1 DEF Tried
    <3>3. Fresh(c, t, f, i) => Fresh(d, u, f, i)
      BY <1>1 DEF Fresh
    <3> QED
      BY <1>1, <3>2, <3>3 DEF Awaited, Gains
  <2> QED
    BY <2>2, <2>3, <2>4, <2>5, <2>6
<1> QED
  BY <1>1, <1>4 DEF Done, Based, Unborn

\* One address more, from which there is no subflow and no bit.
LEMMA TableGainsDone ==
  ASSUME NEW c, NEW d, NEW t, NEW u, NEW n, Done(c, t, None), Keeps(c, d, {"late"}),
         c.late \subseteq d.late, NEW g \in Family, NEW k \in Slot,
         \A f \in Family :
           /\ u[f].bits = IF f = g THEN t[g].bits \cup {k} ELSE t[f].bits
           /\ \A i \in t[f].bits : u[f].addr[i] = t[f].addr[i],
         Gains(n, u[g].addr[k]),
         Meshing(d) /\ Concerns(d, g) =>
           /\ \A s \in DOMAIN c.sub : s.src # u[g].addr[k]
           /\ \A j \in Slot : c.rem[g][j] # None => k \notin c.rem[g][j].bits
  PROVE  Done(d, u, n)
<1>1. /\ d.phase = c.phase /\ d.kind = c.kind /\ d.pm = c.pm /\ d.source = c.source /\ d.owned = c.owned
      /\ d.infinite = c.infinite /\ d.dead = c.dead /\ d.retry = c.retry /\ d.work = c.work
      /\ d.master = c.master /\ d.rem = c.rem /\ d.sub = c.sub /\ d.req = c.req
  BY DEF Keeps, ConnFields
<1>2. (Meshing(d) => Meshing(c)) /\ \A f : Concerns(d, f) <=> Concerns(c, f)
  BY <1>1 DEF Meshing, Serving, Concerns
<1>3. /\ \A f : ~LeavesFam(None, f)
      /\ \A f \in Family : t[f].bits \subseteq u[f].bits
  BY DEF LeavesFam
<1>4. ASSUME Meshing(d)
      PROVE  /\ MasterThere(d) /\ BitsKnown(d, u, n) /\ Again(d)
             /\ SameSlots(d.work, u) /\ SameSlots(d.retry, u) /\ Tried(d, u, n)
  <2>1. /\ MasterThere(c) /\ BitsKnown(c, t, None) /\ Again(c)
        /\ SameSlots(c.work, t) /\ SameSlots(c.retry, t) /\ Tried(c, t, None)
    BY <1>2, <1>4 DEF Done, Based
  <2>2. MasterThere(d)
    BY <1>1, <2>1 DEF MasterThere, Single
  <2>3. BitsKnown(d, u, n)
    BY <1>1, <1>2, <1>3, <2>1 DEF BitsKnown
  <2>4. Again(d)
    BY <1>1, <1>2, <2>1 DEF Again
  <2>5. SameSlots(d.work, u) /\ SameSlots(d.retry, u)
    BY <1>1, <1>3, <2>1 DEF SameSlots
  <2>6. Tried(d, u, n)
    <3> SUFFICES ASSUME d.master # "new", NEW f \in Family, NEW j \in Slot, Concerns(d, f),
                        d.rem[f][j] # None, NEW i \in u[f].bits, i \notin d.rem[f][j].bits
                 PROVE  Awaited(d, u, n, f, i)
      BY DEF Tried
    <3>1. CASE i \in t[f].bits
      <4>1. Awaited(c, t, None, f, i)
        BY <1>1, <1>2, <2>1, <3>1 DEF Tried
      <4>2. Fresh(c, t, f, i) => Fresh(d, u, f, i)
        BY <1>1, <3>1 DEF Fresh
      <4> QED
        BY <1>1, <4>1, <4>2 DEF Awaited, Gains
    <3>2. CASE i \notin t[f].bits
      <4>1. f = g /\ i = k
        BY <3>2
      <4>2. Fresh(d, u, f, i)
        BY <1>1, <1>2, <1>4, <2>1, <4>1 DEF Fresh, BitsKnown
      <4> QED
        BY <4>1, <4>2 DEF Awaited
    <3> QED
      BY <3>1, <3>2
  <2> QED
    BY <2>2, <2>3, <2>4, <2>5, <2>6
<1> QED
  BY <1>1, <1>4 DEF Done, Based, Unborn

LEMMA LossDone ==
  ASSUME FMInv, MeshInv, DoneInv, ns.now = None, NEW e \in Event, e.code = "del",
         FindAddress(ns.loc, e.addr) # None
  PROVE  Done([conn EXCEPT !.late = @ \cup Late(e)], Without(ns.loc, e), Taken(ns.loc, e))
<1> DEFINE t == ns.loc
           u == Without(t, e)
           n == Taken(t, e)
           S == Late(e)
           d == [conn EXCEPT !.late = @ \cup S]
           busy == conn.work.run # None \/ conn.retry.run # None \/ conn.req # None
<1>1. TableInv(t) /\ Typed(conn) /\ Done(conn, t, None) /\ e.addr \in Addr
  BY DEF FMInv, MeshInv, ConnInv, Event, DoneInv
<1>2. /\ \A f \in Family : u[f].bits \subseteq t[f].bits /\ u[f].addr = t[f].addr
      /\ \A f \in Family : f # Fam(e.addr) => u[f] = t[f]
  BY <1>1, FamilyOf DEF Without, TableInv, Table
<1>3. n # None /\ n.addr = e.addr /\ n.code = "del"
  BY <1>1, TakenIsNow
<1>4. busy => "copy" \in S
  BY DEF Late
<1> HIDE DEF n, u, t, S
<1>5. Keeps(conn, d, {"late"}) /\ d.late = conn.late \cup S
  BY <1>1, LateGrows
<1> HIDE DEF d
<1>6. Meshing(d) => d.work.run = None /\ d.retry.run = None
  BY <1>4, <1>5 DEF Meshing, Keeps, ConnFields
<1>7. \A f \in Family : u[f].bits = t[f].bits \/ LeavesFam(n, f)
  BY <1>2, <1>3 DEF LeavesFam
<1>8. Done(d, u, n)
  BY <1>1, <1>2, <1>5, <1>6, <1>7, TableShrinks
<1> QED
  BY <1>8 DEF d, u, n, t, S

LEMMA GainDone ==
  ASSUME FMInv, MeshInv, DoneInv, ns.now = None, NEW e \in Event, e.code # "del",
         FindAddress(ns.loc, e.addr) = None => Slot \ ns.loc[Fam(e.addr)].bits # {}
  PROVE  Done([conn EXCEPT !.late = @ \cup Late(e)], With(ns.loc, e), Taken(ns.loc, e))
<1> DEFINE t == ns.loc
           u == With(t, e)
           n == Taken(t, e)
           S == Late(e)
           d == [conn EXCEPT !.late = @ \cup S]
           g == Fam(e.addr)
           old == FindAddress(t, e.addr)
           k == FreeIndex(t[g].bits, t[g].next)
<1>1. TableInv(t) /\ Typed(conn) /\ Done(conn, t, None) /\ e.addr \in Addr /\ g \in Family
  BY FamilyOf DEF FMInv, MeshInv, ConnInv, Event, DoneInv
<1>2. n # None /\ n.addr = e.addr /\ (old = None => n.code = "add")
  <2>1. n # None
    BY <1>1, TakenIsNow
  <2> QED
    BY <2>1 DEF Taken
<1>3. /\ old # None => \A f \in Family : u[f].bits = t[f].bits /\ u[f].addr = t[f].addr
      /\ old = None =>
           /\ k \in Slot /\ k \notin t[g].bits /\ u[g].addr[k] = e.addr
           /\ \A f \in Family :
                /\ u[f].bits = IF f = g THEN t[g].bits \cup {k} ELSE t[f].bits
                /\ \A i \in t[f].bits : u[f].addr[i] = t[f].addr[i]
  BY <1>1, WithSlots
<1>4. old = None /\ "again" \notin S =>
        /\ \A s \in DOMAIN conn.sub : s.src # e.addr
        /\ \A j \in Slot : conn.rem[g][j] # None => k \notin conn.rem[g][j].bits
  BY DEF Late, Noted
<1> HIDE DEF n, u, t, S, k, g, old
<1>5. Keeps(conn, d, {"late"}) /\ d.late = conn.late \cup S
  BY <1>1, LateGrows
<1> HIDE DEF d
<1>6. CASE old # None
  <2>1. Done(d, u, n)
    BY <1>1, <1>3, <1>5, <1>6, TableShrinks
  <2> QED
    BY <2>1 DEF d, u, n, t, S
<1>7. CASE old = None
  <2>1. Gains(n, u[g].addr[k])
    BY <1>2, <1>3, <1>7 DEF Gains
  <2>2. Meshing(d) => "again" \notin S
    BY <1>5 DEF Meshing
  <2>3. Done(d, u, n)
    BY <1>1, <1>3, <1>4, <1>5, <1>7, <2>1, <2>2, TableGainsDone
  <2> QED
    BY <2>3 DEF d, u, n, t, S
<1> QED
  BY <1>6, <1>7

LEMMA TakeDone ==
  ASSUME FMInv, MeshInv, DoneInv, TakeEvent
  PROVE  DoneInv'
<1> DEFINE q == ns.events
           e == Head(q)
           t == ns.loc
           f == Fam(e.addr)
           i == FindAddress(t, e.addr)
<1>1. /\ q # <<>> /\ ns.now = None
      /\ ns'.loc = IF Dropped(t, e) THEN t ELSE IF e.code = "del" THEN Without(t, e) ELSE With(t, e)
      /\ ns'.now = IF Dropped(t, e) THEN None ELSE Taken(t, e)
      /\ conn' = IF Dropped(t, e) THEN conn ELSE [conn EXCEPT !.late = @ \cup Late(e)]
  BY DEF TakeEvent
<1>2. e \in Event /\ TableInv(t) /\ e.addr \in Addr
  BY <1>1, TailEvents DEF FMInv, Event
<1>3. CASE Dropped(t, e)
  <2>1. ns'.loc = ns.loc /\ ns'.now = ns.now /\ conn' = conn
    BY <1>1, <1>3
  <2> QED
    BY <2>1 DEF DoneInv
<1> HIDE DEF q, e
<1>4. CASE ~ Dropped(t, e) /\ e.code = "del"
  <2>1. i # None
    BY <1>4 DEF Dropped
  <2>2. Done([conn EXCEPT !.late = @ \cup Late(e)], Without(t, e), Taken(t, e))
    BY <1>1, <1>2, <1>4, <2>1, LossDone
  <2> QED
    BY <1>1, <1>4, <2>2 DEF DoneInv
<1>5. CASE ~ Dropped(t, e) /\ e.code # "del"
  <2>1. i = None => Slot \ t[f].bits # {}
    BY <1>2, <1>5, NotDroppedRoom
  <2>2. Done([conn EXCEPT !.late = @ \cup Late(e)], With(t, e), Taken(t, e))
    BY <1>1, <1>2, <1>5, <2>1, GainDone
  <2> QED
    BY <1>1, <1>5, <2>2 DEF DoneInv
<1> QED
  BY <1>3, <1>4, <1>5

\* An event that takes no address of a family of the connection, and brings none, is over.
LEMMA EventOver ==
  ASSUME NEW c, NEW t, NEW e,
         Meshing(c) => \A f \in Family : Concerns(c, f) /\ LeavesFam(e, f) => c.owned
  PROVE  /\ Based(c, t, e) => Based(c, t, None)
         /\ Done(c, t, e)
              /\ (Meshing(c) => \A f \in Family : \A i \in t[f].bits :
                    Concerns(c, f) /\ Gains(e, t[f].addr[i]) => c.owned)
            => Done(c, t, None)
<1>1. Meshing(c) /\ BitsKnown(c, t, e) => BitsKnown(c, t, None)
  BY DEF BitsKnown
<1>2. Based(c, t, e) => Based(c, t, None)
  BY <1>1 DEF Based
<1>3. ASSUME Meshing(c), Tried(c, t, e),
             \A f \in Family : \A i \in t[f].bits : Concerns(c, f) /\ Gains(e, t[f].addr[i]) => c.owned
      PROVE  Tried(c, t, None)
  <2> SUFFICES ASSUME c.master # "new", NEW f \in Family, NEW j \in Slot, Concerns(c, f),
                      c.rem[f][j] # None, NEW i \in t[f].bits, i \notin c.rem[f][j].bits
               PROVE  Awaited(c, t, None, f, i)
    BY DEF Tried
  <2>1. Awaited(c, t, e, f, i)
    BY <1>3 DEF Tried
  <2> QED
    BY <1>3, <2>1 DEF Awaited
<1> QED
  BY <1>2, <1>3 DEF Done

\* The bits of slots that are not in use go, and the worker is asked for an address
\* that was waited for.
Trims(c, d, t) ==
    /\ d.phase = c.phase /\ d.kind = c.kind /\ d.pm = c.pm /\ d.source = c.source
    /\ d.infinite = c.infinite /\ d.dead = c.dead /\ d.req = c.req /\ d.retry = c.retry
    /\ d.master = c.master /\ c.late \subseteq d.late
    /\ d.work.run = c.work.run /\ (c.work.pending => d.work.pending)
    /\ (c.master = "new" => d.work = c.work)
    /\ MastersOf(c, d) /\ SourcesOf(c, d)
    /\ \A f \in Family, j \in Slot : d.rem[f][j] # None =>
         /\ c.rem[f][j] # None
         /\ d.rem[f][j].bits = c.rem[f][j].bits \cap t[f].bits
         /\ d.rem[f][j].retry = c.rem[f][j].retry \cap t[f].bits

LEMMA TrimmedDone ==
  ASSUME NEW c, NEW d, NEW t, NEW e, NEW n, Done(c, t, e), c.phase # "none", Trims(c, d, t),
         Meshing(c) /\ c.master # "new" => \A f \in Family : \A i \in t[f].bits :
           Concerns(c, f) /\ (c.owned \/ Gains(e, t[f].addr[i])) /\ Fresh(c, t, f, i)
             => d.work.pending \/ d.owned \/ Gains(n, t[f].addr[i])
  PROVE  Done(d, t, n)
<1>1. (Meshing(d) => Meshing(c)) /\ \A f : Concerns(d, f) <=> Concerns(c, f)
  BY DEF Trims, Meshing, Serving, Concerns
<1>2. ASSUME Meshing(d)
      PROVE  /\ MasterThere(d) /\ BitsKnown(d, t, n) /\ Again(d)
             /\ SameSlots(d.work, t) /\ SameSlots(d.retry, t) /\ Tried(d, t, n)
  <2>1. /\ MasterThere(c) /\ BitsKnown(c, t, e) /\ Again(c)
        /\ SameSlots(c.work, t) /\ SameSlots(c.retry, t) /\ Tried(c, t, e)
    BY <1>1, <1>2 DEF Done, Based
  <2>2. MasterThere(d)
    BY <2>1 DEF MasterThere, Trims, MastersOf
  <2>3. BitsKnown(d, t, n)
    <3> SUFFICES ASSUME NEW f \in Family, NEW j \in Slot, Concerns(d, f), d.rem[f][j] # None
                 PROVE  d.rem[f][j].retry \subseteq d.rem[f][j].bits /\ d.rem[f][j].bits \subseteq t[f].bits
      BY DEF BitsKnown
    <3>1. c.rem[f][j] # None /\ c.rem[f][j].retry \subseteq c.rem[f][j].bits
      BY <1>1, <2>1 DEF BitsKnown, Trims
    <3> QED
      BY <3>1 DEF Trims
  <2>4. Again(d)
    <3> SUFFICES ASSUME NEW f \in Family, NEW j \in Slot, Concerns(d, f), d.rem[f][j] # None,
                        d.rem[f][j].retry # {}
                 PROVE  \/ d.retry.pending \/ d.retry.run # None
                        \/ d.work.run # None /\ d.work.run.again
      BY DEF Again
    <3>1. c.rem[f][j] # None /\ c.rem[f][j].retry # {}
      BY DEF Trims
    <3> QED
      BY <1>1, <2>1, <3>1 DEF Again, Trims
  <2>5. SameSlots(d.work, t) /\ SameSlots(d.retry, t)
    BY <2>1 DEF SameSlots, Trims
  <2>6. Tried(d, t, n)
    <3> SUFFICES ASSUME d.master # "new", NEW f \in Family, NEW j \in Slot, Concerns(d, f),
                        d.rem[f][j] # None, NEW i \in t[f].bits, i \notin d.rem[f][j].bits
                 PROVE  Awaited(d, t, n, f, i)
      BY DEF Tried
    <3>1. c.master # "new" /\ c.rem[f][j] # None /\ i \notin c.rem[f][j].bits
      BY DEF Trims
    <3>2. Awaited(c, t, e, f, i)
      BY <1>1, <2>1, <3>1 DEF Tried
    <3>3. Fresh(c, t, f, i) => Fresh(d, t, f, i)
      <4> SUFFICES ASSUME Fresh(c, t, f, i)
                   PROVE  /\ \A s \in DOMAIN d.sub : s.src # t[f].addr[i]
                          /\ \A l \in Slot : d.rem[f][l] # None => i \notin d.rem[f][l].retry
        BY DEF Fresh
      <4>1. \A s \in DOMAIN d.sub : s.src # t[f].addr[i]
        BY DEF Fresh, Trims, SourcesOf
      <4>2. \A l \in Slot : d.rem[f][l] # None => i \notin d.rem[f][l].retry
        BY DEF Fresh, Trims
      <4> QED
        BY <4>1, <4>2
    <3>4. CASE c.work.pending \/ (c.work.run # None /\ i \in c.work.run.loc[f].bits)
      BY <3>4 DEF Awaited, Trims
    <3>5. CASE (c.owned \/ Gains(e, t[f].addr[i])) /\ Fresh(c, t, f, i)
      BY <1>1, <1>2, <3>1, <3>3, <3>5 DEF Awaited
    <3> QED
      BY <3>2, <3>4, <3>5 DEF Awaited
  <2> QED
    BY <2>2, <2>3, <2>4, <2>5, <2>6
<1> QED
  BY <1>2 DEF Done, Based, Unborn, Trims

\* The removal of an address is applied.
LEMMA AppliedDelDone ==
  ASSUME NEW c, NEW t, NEW e, Done(c, t, e), c.phase # "none", TableInv(t), Typed(c), e.code = "del"
  PROVE  Done(AppliedDel(c, e, t), t, None)
<1> DEFINE d == UpdateBitfields(c, t)
           from == {s \in DOMAIN c.sub : s.src = e.addr}
           R == d.remove \cup {e.id}
           m == [d EXCEPT !.remove = R]
           r == Removed(d, from)
<1>1. AppliedDel(c, e, t) \in {r, m, d}
  BY DEF AppliedDel
<1>2. /\ Keeps(c, d, {"told", "ann", "rem"})
      /\ \A f \in Family, j \in Slot :
           d.rem[f][j] # None =>
             /\ c.rem[f][j] # None
             /\ d.rem[f][j].bits = c.rem[f][j].bits \cap t[f].bits
             /\ d.rem[f][j].retry = c.rem[f][j].retry \cap t[f].bits
  BY UpdatedBitfields DEF Typed
<1> HIDE DEF d, R
<1>3. IsConn(d) /\ d.sub = c.sub /\ d.remove = c.remove
  BY <1>2 DEF Keeps, ConnFields
<1>4. Keeps(d, r, {"sub", "remove"}) /\ SubsOf(d, r) /\ MastersOf(d, r)
  <2>1. from \in SUBSET DOMAIN d.sub /\ d.remove \in SUBSET Lid /\ \A s \in DOMAIN d.sub : IsSub(s)
    BY <1>3 DEF Typed
  <2> HIDE DEF from
  <2> QED
    BY <1>3, <2>1, RemovedSubs
<1>5. Keeps(d, m, {"remove"}) /\ Keeps(d, d, {"remove"})
  BY <1>3 DEF IsConn, Keeps, ConnFields
<1> HIDE DEF m, r, from
<1> DEFINE x == AppliedDel(c, e, t)
<1>6. Keeps(d, x, {"sub", "remove"}) /\ MastersOf(d, x) /\ SourcesOf(d, x)
  <2>1. CASE x = r
    BY <1>4, <2>1 DEF SubsOf, SourcesOf
  <2>2. CASE x = m \/ x = d
    BY <1>5, <2>2, SubsStay DEF Keeps, ConnFields
  <2> QED
    BY <1>1, <2>1, <2>2
<1> HIDE DEF x
<1>7. /\ x.phase = c.phase /\ x.kind = c.kind /\ x.pm = c.pm /\ x.source = c.source
      /\ x.infinite = c.infinite /\ x.dead = c.dead /\ x.req = c.req /\ x.retry = c.retry
      /\ x.master = c.master /\ x.late = c.late /\ x.work = c.work /\ x.owned = c.owned
      /\ x.rem = d.rem
  BY <1>2, <1>6 DEF Keeps, ConnFields
<1>8. MastersOf(c, x) /\ SourcesOf(c, x)
  BY <1>3, <1>6 DEF MastersOf, Single, SourcesOf
<1>9. Trims(c, x, t)
  BY <1>2, <1>7, <1>8 DEF Trims
<1>10. \A a : ~Gains(e, a)
  BY DEF Gains
<1>11. Done(x, t, None)
  BY <1>7, <1>9, <1>10, TrimmedDone
<1> QED
  BY <1>11 DEF x

LEMMA ApplyDone ==
  ASSUME FMInv, MeshInv, DoneInv, ApplyEvent
  PROVE  DoneInv'
<1> DEFINE e == ns.now
           t == ns.loc
           applies == /\ conn.phase = "open" /\ Concerns(conn, Fam(e.addr))
                      /\ ~conn.infinite /\ conn.pm = "fullmesh"
<1>1. /\ e # None /\ ns' = [ns EXCEPT !.now = None]
      /\ \/ ~applies /\ conn' = conn
         \/ applies /\ conn' = [conn EXCEPT !.owned = TRUE]
         \/ applies /\ conn' = Applied(conn, e, t)
  BY DEF ApplyEvent
<1>2. ns'.loc = t /\ ns'.now = None /\ TableInv(t)
  <2>1. ns = [loc |-> ns.loc, events |-> ns.events, now |-> ns.now] /\ TableInv(t)
    BY DEF FMInv
  <2> QED
    BY <1>1, <2>1
<1>3. /\ IsNow(e) /\ Typed(conn) /\ IsConn(conn) /\ IsWork(conn.work)
      /\ \A s \in DOMAIN conn.sub : IsSub(s)
      /\ Done(conn, t, e)
  BY DEF MeshInv, ConnInv, Typed, DoneInv
<1> SUFFICES Done(conn', t, None)
  BY <1>2 DEF DoneInv
<1>4. \A f \in Family : \A i \in t[f].bits : Fam(t[f].addr[i]) = f
  BY <1>2 DEF TableInv
<1>5. CASE ~applies /\ conn' = conn
  <2>1. Meshing(conn) => ~Concerns(conn, Fam(e.addr))
    BY <1>5 DEF Meshing, Serving
  <2> HIDE DEF e, t
  <2>2. Meshing(conn) => \A f \in Family : Concerns(conn, f) => ~LeavesFam(e, f)
    BY <2>1 DEF LeavesFam
  <2>3. Meshing(conn) => \A f \in Family : \A i \in t[f].bits :
          Concerns(conn, f) => ~Gains(e, t[f].addr[i])
    BY <1>4, <2>1 DEF Gains
  <2> QED
    BY <1>3, <1>5, <2>2, <2>3, EventOver
<1>6. CASE applies /\ conn' = [conn EXCEPT !.owned = TRUE]
  <2> DEFINE d == [conn EXCEPT !.owned = TRUE]
  <2>1. Keeps(conn, d, {"owned"}) /\ d.owned = TRUE
    BY <1>3 DEF IsConn, Keeps, ConnFields
  <2> HIDE DEF d, e, t
  <2>2. /\ d.phase = conn.phase /\ d.kind = conn.kind /\ d.pm = conn.pm /\ d.source = conn.source
        /\ d.infinite = conn.infinite /\ d.dead = conn.dead /\ d.retry = conn.retry /\ d.work = conn.work
        /\ d.master = conn.master /\ d.rem = conn.rem /\ d.sub = conn.sub /\ d.req = conn.req
        /\ d.late = conn.late
    BY <2>1 DEF Keeps, ConnFields
  <2>3. (Meshing(d) <=> Meshing(conn)) /\ \A f : Concerns(d, f) <=> Concerns(conn, f)
    BY <2>2 DEF Meshing, Serving, Concerns
  <2>4. BitsKnown(conn, t, e) => BitsKnown(d, t, e)
    BY <2>1, <2>2, <2>3 DEF BitsKnown
  <2>5. MasterThere(conn) => MasterThere(d)
    BY <2>2 DEF MasterThere, Single
  <2>6. Again(conn) => Again(d)
    BY <2>2, <2>3 DEF Again
  <2>7. Tried(conn, t, e) => Tried(d, t, e)
    BY <2>1, <2>2, <2>3 DEF Tried, Awaited, Fresh
  <2>8. Done(d, t, e)
    BY <1>3, <2>2, <2>3, <2>4, <2>5, <2>6, <2>7 DEF Done, Based, Unborn
  <2>9. Done(d, t, None)
    BY <2>1, <2>8, EventOver
  <2> QED
    BY <1>6, <2>9 DEF d
<1>7. CASE applies /\ conn' = Applied(conn, e, t)
  <2>1. conn.phase # "none" /\ e.code \in {"add", "del", "mod"}
    BY <1>1, <1>3, <1>7 DEF IsNow
  <2> HIDE DEF e, t
  <2>2. CASE e.code = "add"
    <3> DEFINE n == conn.add + 1
               d == [conn EXCEPT !.add = n]
    <3>1. conn' = CreateSubflows(d)
      BY <1>7, <2>2 DEF Applied, AppliedAdd
    <3> HIDE DEF n
    <3>2. Keeps(conn, d, {"add"}) /\ IsConn(d)
      BY <1>3 DEF IsConn, Keeps, ConnFields
    <3> HIDE DEF d
    <3>3. /\ Keeps(conn, d, Aloof) /\ d.infinite = conn.infinite /\ d.dead = conn.dead
          /\ d.late = conn.late /\ d.sub = conn.sub /\ d.req = conn.req
          /\ d.phase = conn.phase /\ d.work = conn.work
      BY <3>2 DEF Keeps, ConnFields, Aloof
    <3>4. Follows(conn, d)
      BY <3>3, FollowsKept, SubsStay
    <3>5. Based(d, t, e)
      BY <1>3, <2>1, <3>4, FollowsDone DEF Done
    <3>6. Based(d, t, None)
      BY <2>2, <3>5, EventOver DEF LeavesFam
    <3> QED
      BY <1>3, <2>1, <3>1, <3>2, <3>3, <3>6, AsksDone
  <2>3. CASE e.code = "del"
    <3>1. conn' = AppliedDel(conn, e, t)
      BY <1>7, <2>3 DEF Applied
    <3> QED
      BY <1>2, <1>3, <2>1, <2>3, <3>1, AppliedDelDone DEF t
  <2>4. CASE e.code = "mod"
    <3>1. PICK low : conn' = Prioritised(conn, low)
      BY <1>7, <2>4 DEF Applied, AppliedMod
    <3>2. Keeps(conn, conn', {"sub"}) /\ SubsOf(conn, conn') /\ MastersOf(conn, conn')
      BY <1>3, <3>1, PrioritisedSubs
    <3>3. /\ Keeps(conn, conn', Aloof) /\ conn'.infinite = conn.infinite /\ conn'.dead = conn.dead
          /\ conn'.late = conn.late /\ conn'.req = conn.req
      BY <3>2 DEF Keeps, ConnFields, Aloof
    <3>4. Follows(conn, conn')
      BY <3>2, <3>3, FollowsKept DEF SubsOf, SourcesOf
    <3>5. Done(conn', t, e)
      BY <1>3, <2>1, <3>4, FollowsDone
    <3> QED
      BY <2>4, <3>5, EventOver DEF LeavesFam, Gains
  <2> QED
    BY <2>1, <2>2, <2>3, <2>4
<1> QED
  BY <1>1, <1>5, <1>6, <1>7

\* The release asks for the worker if an address has no subflow, and trims the bits.
LEMMA ReleaseTrims ==
  ASSUME NEW c, Typed(c), NEW t, TableInv(t)
  PROVE  LET d == ReleaseSock(c, t)
         IN  /\ Trims(c, d, t) /\ d.owned = c.owned /\ d.late = c.late
             /\ Unused(c, t) # {} /\ ~(c.infinite \/ c.kind.server \/ c.dead \/ c.master = "new")
                  => d.work.pending
<1> DEFINE known == {s \in DOMAIN c.sub : FindAddress(t, s.src) # None}
           new == Cardinality(Unused(c, t))
           low == [s \in {x \in known : Concerns(c, Fam(x.src))} |->
                     t[Fam(s.src)].low[FindAddress(t, s.src)]]
           p == Prioritised(c, low)
           n == p.add + new
           b == [p EXCEPT !.add = n]
           m == CreateSubflows(b)
           a == IF new = 0 THEN p ELSE m
           gone == {s \in DOMAIN a.sub : FindAddress(t, s.src) = None}
           r == Removed(a, gone)
           d == UpdateBitfields(r, t)
           skip == c.infinite \/ c.kind.server \/ c.dead \/ c.master = "new"
<1>1. ReleaseSock(c, t) = d
  BY DEF ReleaseSock
<1>2. Unused(c, t) # {} => new # 0
  <2> DEFINE W == Unused(c, t)
  <2>1. W \subseteq Family \X Slot
    BY DEF Unused, TableInv, Table
  <2> HIDE DEF W
  <2>2. IsFiniteSet(W)
    BY <2>1, PairsFinite, FS_Subset
  <2>3. Cardinality(W) = 0 => W = {}
    BY <2>2, FS_EmptySet
  <2> QED
    BY <2>3 DEF W
<1> HIDE DEF low, known, new
<1>3. /\ IsConn(c) /\ IsWork(c.work) /\ c.remove \in SUBSET Lid
      /\ c.ann \in [Family -> SUBSET Slot] /\ IsRem(c.rem)
      /\ \A s \in DOMAIN c.sub : IsSub(s)
  BY DEF Typed
<1>4. Keeps(c, p, {"sub"}) /\ SubsOf(c, p) /\ MastersOf(c, p)
  BY <1>3, PrioritisedSubs
<1> HIDE DEF p, n
<1>5. Keeps(p, b, {"add"})
  BY <1>4 DEF IsConn, Keeps, ConnFields
<1> HIDE DEF b
<1>6. /\ IsConn(b) /\ IsWork(b.work) /\ b.infinite = c.infinite /\ b.kind = c.kind
      /\ b.dead = c.dead /\ b.master = c.master
  BY <1>3, <1>4, <1>5 DEF Keeps, ConnFields
<1>7. /\ Keeps(b, m, {"work"}) /\ m.work.run = b.work.run
      /\ b.work.pending => m.work.pending
      /\ b.master = "new" => m = b
      /\ ~skip => m.work.pending
  BY <1>6, Asked
<1> HIDE DEF m, skip
<1>8. /\ Keeps(c, a, {"sub", "add", "work"}) /\ a.sub = p.sub /\ a.work.run = c.work.run
      /\ c.work.pending => a.work.pending
      /\ c.master = "new" => a.work = c.work
      /\ new # 0 /\ ~skip => a.work.pending
  <2>1. CASE new = 0
    BY <1>4, <2>1 DEF Keeps, ConnFields
  <2>2. CASE new # 0
    <3>1. a = m
      BY <2>2
    <3> HIDE DEF a
    <3> QED
      BY <1>4, <1>5, <1>6, <1>7, <3>1 DEF Keeps, ConnFields
  <2> QED
    BY <2>1, <2>2
<1> HIDE DEF a
<1>9. Keeps(a, r, {"sub", "remove"}) /\ SubsOf(a, r) /\ MastersOf(a, r)
  <2>1. IsConn(a) /\ a.remove \in SUBSET Lid /\ \A s \in DOMAIN a.sub : IsSub(s)
    BY <1>3, <1>4, <1>8 DEF Keeps, ConnFields, SubsOf
  <2>2. gone \in SUBSET DOMAIN a.sub
    OBVIOUS
  <2> HIDE DEF gone
  <2> QED
    BY <2>1, <2>2, RemovedSubs
<1> HIDE DEF r
<1>10. IsConn(r) /\ r.ann = c.ann /\ r.rem = c.rem /\ r.work = a.work
  BY <1>8, <1>9 DEF Keeps, ConnFields
<1>11. /\ Keeps(r, d, {"told", "ann", "rem"})
       /\ \A f \in Family, j \in Slot :
            d.rem[f][j] # None =>
              /\ r.rem[f][j] # None
              /\ d.rem[f][j].bits = r.rem[f][j].bits \cap t[f].bits
              /\ d.rem[f][j].retry = r.rem[f][j].retry \cap t[f].bits
  BY <1>3, <1>10, UpdatedBitfields
<1> HIDE DEF d
<1>12. /\ d.phase = c.phase /\ d.kind = c.kind /\ d.pm = c.pm /\ d.source = c.source
       /\ d.infinite = c.infinite /\ d.dead = c.dead /\ d.req = c.req /\ d.retry = c.retry
       /\ d.master = c.master /\ d.late = c.late /\ d.owned = c.owned
       /\ d.work = a.work /\ d.sub = r.sub
  BY <1>8, <1>9, <1>11 DEF Keeps, ConnFields
<1>13. MastersOf(c, d)
  <2>1. MastersOf(c, a)
    BY <1>4, <1>8 DEF MastersOf, Single
  <2>2. MastersOf(c, r)
    BY <1>9, <2>1 DEF MastersOf
  <2> QED
    BY <1>12, <2>2 DEF MastersOf, Single
<1>14. SourcesOf(c, d)
  <2>1. \A s \in DOMAIN d.sub : \E u \in DOMAIN p.sub : u.src = s.src
    BY <1>8, <1>9, <1>12 DEF SubsOf
  <2>2. \A s \in DOMAIN p.sub : \E u \in DOMAIN c.sub : u.src = s.src
    BY <1>4 DEF SubsOf
  <2> QED
    BY <2>1, <2>2 DEF SourcesOf
<1>15. Trims(c, d, t)
  BY <1>8, <1>10, <1>11, <1>12, <1>13, <1>14 DEF Trims
<1>16. Unused(c, t) # {} /\ ~skip => d.work.pending
  BY <1>2, <1>8, <1>12
<1> QED
  BY <1>1, <1>12, <1>15, <1>16 DEF skip

LEMMA ReleaseDone ==
  ASSUME FMInv, MeshInv, DoneInv, Release
  PROVE  DoneInv'
<1> DEFINE t == ns.loc
           S == Unsaid(conn, t)
           l == conn.late \cup S
           c == [conn EXCEPT !.owned = FALSE, !.late = l]
           d == ReleaseSock(c, t)
           e == ns.now
<1>1. conn.owned /\ ns' = ns /\ conn' = d
  BY DEF Release
<1>2. /\ TableInv(t) /\ Typed(conn) /\ IsConn(conn) /\ Done(conn, t, e) /\ conn.phase # "none"
  BY <1>1 DEF FMInv, MeshInv, ConnInv, Typed, Begun, Idle, DoneInv
<1> HIDE DEF t, e, S
<1>3. Keeps(conn, c, {"owned", "late"}) /\ c.late = l /\ c.owned = FALSE
  BY <1>2 DEF IsConn, Keeps, ConnFields
<1>4. conn.late \subseteq l
  OBVIOUS
<1> HIDE DEF c, l
<1>5. /\ IsConn(c) /\ c.phase = conn.phase /\ c.kind = conn.kind /\ c.pm = conn.pm
      /\ c.infinite = conn.infinite /\ c.ann = conn.ann /\ c.told = conn.told /\ c.sub = conn.sub
      /\ c.source = conn.source /\ c.req = conn.req /\ c.add = conn.add /\ c.remove = conn.remove
      /\ c.rem = conn.rem /\ c.work = conn.work /\ c.retry = conn.retry /\ c.dead = conn.dead
      /\ c.master = conn.master
  BY <1>3 DEF Keeps, ConnFields
<1>6. Typed(c)
  BY <1>2, <1>5 DEF Typed, Begun
<1>7. /\ Trims(c, d, t)
      /\ Unused(c, t) # {} /\ ~(c.infinite \/ c.kind.server \/ c.dead \/ c.master = "new")
           => d.work.pending
  BY <1>2, <1>6, ReleaseTrims
<1> HIDE DEF d
<1>8. Trims(conn, d, t)
  <2>1. d.late = c.late \/ conn.late \subseteq d.late
    BY <1>3, <1>4, <1>7 DEF Trims
  <2>2. MastersOf(conn, d) /\ SourcesOf(conn, d)
    BY <1>5, <1>7 DEF Trims, MastersOf, Single, SourcesOf
  <2> QED
    BY <1>3, <1>4, <1>5, <1>7, <2>1, <2>2 DEF Trims
<1>9. ASSUME Meshing(conn), conn.master # "new", NEW f \in Family, NEW i \in t[f].bits,
             Concerns(conn, f), Fresh(conn, t, f, i)
      PROVE  d.work.pending
  <2>1. Concerns(c, f) /\ \A s \in DOMAIN c.sub : s.src # t[f].addr[i]
    BY <1>5, <1>9 DEF Concerns, Fresh
  <2>2. <<f, i>> \in Unused(c, t)
    BY <2>1 DEF Unused
  <2> QED
    BY <1>5, <1>7, <1>9, <2>2 DEF Meshing, Serving
<1>10. Done(d, t, e)
  BY <1>2, <1>8, <1>9, TrimmedDone
<1> QED
  BY <1>1, <1>10 DEF DoneInv, t, e

LEMMA OpenedDone ==
  ASSUME NEW c, Typed(c), c.phase = "none", NEW t, NEW e, Unborn(c), NEW d, NEW src \in Addr,
         NEW low, Opens(c, d, t, src, low)
  PROVE  Done(d, t, e)
<1> DEFINE s == Master(src, low)
<1>1. /\ d.master = c.master /\ d.work = c.work /\ d.retry = c.retry /\ d.req = c.req
      /\ d.phase = "open" /\ d.source = src /\ d.sub = SetToBag({s})
  BY DEF Opens, Keeps, ConnFields
<1>2. /\ ~c.work.pending /\ c.work.run = None /\ c.retry.run = None /\ c.req = None
      /\ c.master = "new"
  BY DEF Typed, Begun, Idle, Unborn
<1>3. s.master /\ s.src = src
  BY DEF Master
<1> HIDE DEF s
<1>4. Single(d, s)
  BY <1>1, <1>3, BagOfSet DEF Single
<1>5. MasterThere(d)
  BY <1>1, <1>2, <1>3, <1>4 DEF MasterThere
<1>6. \A f \in Family, j \in Slot : d.rem[f][j] # None =>
        d.rem[f][j].retry = {} /\ d.rem[f][j].bits \subseteq t[f].bits
  BY DEF Opens, Unborn
<1>7. BitsKnown(d, t, e) /\ Again(d)
  BY <1>6 DEF BitsKnown, Again
<1>8. SameSlots(d.work, t) /\ SameSlots(d.retry, t)
  BY <1>1, <1>2 DEF SameSlots
<1> QED
  BY <1>1, <1>2, <1>5, <1>7, <1>8 DEF Done, Based, Unborn, Tried

LEMMA NewSessionDone ==
  ASSUME FMInv, MeshInv, DoneInv, NewSession
  PROVE  DoneInv'
<1>1. conn.phase = "none" /\ ns' = ns /\ Typed(conn) /\ Unborn(conn)
  BY DEF NewSession, MeshInv, ConnInv, DoneInv, Done
<1>2. Done(conn', ns.loc, ns.now)
  BY <1>1, SessionOpens, OpenedDone
<1> QED
  BY <1>1, <1>2 DEF DoneInv

LEMMA InitDone ==
  Init => DoneInv
<1> SUFFICES ASSUME Init PROVE DoneInv
  OBVIOUS
<1>1. PICK k \in Cases : conn = NoConnection(k.kind)
  BY DEF Init
<1>2. conn.phase = "none" /\ conn.master = "new" /\ conn.req = None /\ conn.rem = NoTable
  BY <1>1 DEF NoConnection
<1>3. Unborn(conn)
  BY <1>2 DEF Unborn, NoTable
<1> QED
  BY <1>2, <1>3 DEF DoneInv, Done, Based, Meshing, Serving

LEMMA StepDone ==
  FMInv /\ MeshInv /\ DoneInv /\ [Next]_vars => DoneInv'
<1> SUFFICES ASSUME FMInv, MeshInv, DoneInv, [Next]_vars PROVE DoneInv'
  OBVIOUS
<1>1. CASE \E a \in Addr : DeviceChanges(a)
  BY <1>1, DeviceDone
<1>2. CASE TakeEvent \/ ApplyEvent
  BY <1>2, TakeDone, ApplyDone
<1>3. CASE NewSession \/ FullyEstablished \/ Release
  BY <1>3, NewSessionDone, EstablishedDone, ReleaseDone
<1>4. CASE WorkerStart \/ WorkerStep \/ RetryStart \/ RetryStep
  BY <1>4, WorkerStartDone, WorkerStepDone, RetryStartDone, RetryStepDone
<1>5. CASE RecvAddAddr \/ RecvRemAddr \/ SubflowLost \/ Reap
  BY <1>5, AddAddrDone, RemAddrDone, LostDone, ReapDone
<1>6. CASE JoinRequest \/ JoinDone \/ JoinExpires \/ AddrSignal \/ Ends
  BY <1>6, RequestDone, JoinedDone, ExpiryDone, SignalDone, EndsDone
<1>7. CASE UNCHANGED vars
  BY <1>7 DEF vars, DoneInv
<1> QED
  BY <1>1, <1>2, <1>3, <1>4, <1>5, <1>6, <1>7 DEF Next

\* When all is quiet nobody is left to try a slot.
LEMMA AllTried ==
  FMInv /\ MeshInv /\ DoneInv => MeshDone
<1> SUFFICES ASSUME FMInv, MeshInv, DoneInv, Quiet, Serves, ~conn.kind.server, conn.master # "new",
                    conn.late \cap {"copy", "again", "early"} = {},
                    NEW f \in Family, Concerns(conn, f), NEW j \in Slot, conn.rem[f][j] # None
             PROVE  conn.rem[f][j].bits = ns.loc[f].bits /\ conn.rem[f][j].retry = {}
  BY DEF MeshDone
<1> DEFINE t == ns.loc
<1>1. /\ ns.now = None /\ ~conn.owned /\ Meshing(conn)
      /\ ~conn.work.pending /\ conn.work.run = None
      /\ ~conn.retry.pending /\ conn.retry.run = None
  BY DEF Quiet, Serves, Live, Serving, Meshing
<1>2. Tried(conn, t, None) /\ BitsKnown(conn, t, None) /\ Again(conn)
  BY <1>1 DEF DoneInv, Done, Based
<1>3. \A i : ~Awaited(conn, t, None, f, i)
  BY <1>1 DEF Awaited, Gains
<1>4. t[f].bits \subseteq conn.rem[f][j].bits
  BY <1>2, <1>3 DEF Tried
<1>5. conn.rem[f][j].bits \subseteq t[f].bits
  BY <1>1, <1>2 DEF BitsKnown, LeavesFam
<1>6. conn.rem[f][j].retry = {}
  BY <1>1, <1>2 DEF Again
<1> QED
  BY <1>4, <1>5, <1>6

(***************************************************************************)
(* The subflow worker works on a copy of the table, is asked for by six    *)
(* handlers and asks the retry worker for what failed: when all is quiet,  *)
(* and nothing has happened that the code does not cope with, each address *)
(* of the peer has been tried from each address of the table, none waits   *)
(* for a second try, and none is noted as tried from an empty slot.        *)
(***************************************************************************)
THEOREM MeshComplete == Spec => []MeshDone
<1>1. Init => FMInv /\ MeshInv /\ DoneInv
  BY InitMeets, InitKeeps, InitDone
<1>2. FMInv /\ MeshInv /\ DoneInv /\ [Next]_vars => FMInv' /\ MeshInv' /\ DoneInv'
  BY StepMeets, StepKeeps, StepDone
<1>3. FMInv /\ MeshInv /\ DoneInv => MeshDone
  BY AllTried
<1> QED
  BY <1>1, <1>2, <1>3, PTL DEF Spec

=============================================================================
