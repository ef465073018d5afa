-------------------------- MODULE DynUpdateProofs --------------------------
(***************************************************************************)
(* Safety of the dynamic updates for any endpoints and settings, and any   *)
(* number of updates, failed commands and reloads: server names are        *)
(* unique, haproxy has what the model has, and cookies are preserved.      *)
(***************************************************************************)
EXTENDS DynUpdate, FiniteSetTheorems, TLAPS

\* A leaf is for Zenon unless it names another prover.
USE ZenonT(90)

\* The slots of a backend: no two have the same server or the same endpoint, the
\* n-th server that AddEmptyEndpoint names has not been named before, and cookies
\* are those of pods, or of servers in empty slots.
SlotsInv(s) ==
    /\ s \in Seq(Slot)
    /\ \A i \in DOMAIN s : s[i].name <= Srv(Len(s))
    /\ \A i, j \in DOMAIN s : s[i].name = s[j].name => i = j
    /\ \A i, j \in DOMAIN s : s[i].ep = s[j].ep /\ s[i].ep # 0 => i = j
    /\ \A i \in DOMAIN s : IF s[i].ep = 0 THEN s[i].cookie > FirstSrv
                           ELSE mode.podUID => s[i].cookie = s[i].ep

\* The servers of haproxy are those of the slots, except for their cookies.
Matches(table, s) ==
    /\ DOMAIN table = Names(s)
    /\ \A i \in DOMAIN s :
          /\ table[s[i].name].ep = s[i].ep
          /\ table[s[i].name].weight = IF s[i].ep # 0 THEN s[i].weight ELSE 0

IInv ==
    /\ mode \in Mode /\ hasCommit \in BOOLEAN /\ reload \in BOOLEAN
    /\ SlotsInv(model)
    /\ DOMAIN running \subseteq Nat
    /\ \A n \in DOMAIN running :
          running[n] \in [ep : Ep \cup {0}, weight : Nat, cookie : Nat]
    /\ ~reload => Matches(running, model)
    /\ CookiesPreserved

-----------------------------------------------------------------------------
(* Sequences, ranks and orders.                                            *)

\* A slot of the concatenation is one of the first or of the second.
LEMMA ConcatOf ==
    ASSUME NEW S, NEW a \in Seq(S), NEW b \in Seq(S)
    PROVE  /\ a \o b \in Seq(S) /\ Len(a \o b) = Len(a) + Len(b)
           /\ \A i \in 1..Len(a) + Len(b) :
                 (a \o b)[i] = IF i <= Len(a) THEN a[i] ELSE b[i - Len(a)]
  BY SMTT(90)

\* The slots from the m-th to the n-th, in their order.
LEMMA SubSeqOf ==
    ASSUME NEW S, NEW s, NEW m \in Int, NEW n \in Int, \A i \in m..n : s[i] \in S
    PROVE  /\ SubSeq(s, m, n) \in Seq(S)
           /\ Len(SubSeq(s, m, n)) = IF m <= n THEN n - m + 1 ELSE 0
           /\ \A i \in 1..(n - m + 1) : SubSeq(s, m, n)[i] = s[m + i - 1]
  BY SMTT(90)

\* The number of elements that are not greater ranks the elements of a finite set.
LEMMA RankBijection ==
    ASSUME NEW S, IsFiniteSet(S), NEW key \in [S -> Nat],
           \A x, y \in S : key[x] = key[y] => x = y
    PROVE  [x \in S |-> Cardinality({y \in S : key[y] <= key[x]})]
              \in Bijection(S, 1..Cardinality(S))
<1> DEFINE B(x) == {y \in S : key[y] <= key[x]}
           r == [x \in S |-> Cardinality(B(x))]
           N == Cardinality(S)
<1>1. N \in Nat
  BY FS_CardinalityType
<1>2. ASSUME NEW x \in S
      PROVE  IsFiniteSet(B(x)) /\ Cardinality(B(x)) \in 1..N
  <2>1. B(x) \subseteq S /\ x \in B(x)
    BY SMTT(90)
  <2>2. IsFiniteSet(B(x)) /\ Cardinality(B(x)) <= N
    BY <2>1, FS_Subset
  <2>3. Cardinality(B(x)) \in Nat /\ Cardinality(B(x)) # 0
    <3> HIDE DEF B
    <3> QED
      BY <2>1, <2>2, FS_CardinalityType, FS_EmptySet
  <2> QED
    BY SMTT(90), <1>1, <2>2, <2>3
<1>3. r \in [S -> 1..N]
  BY <1>2
<1>4. ASSUME NEW x \in S, NEW y \in S, key[x] < key[y] PROVE r[x] # r[y]
  <2>1. B(x) \subseteq B(y) /\ y \in B(y) /\ y \notin B(x)
    BY SMTT(90), <1>4
  <2>2. Cardinality(B(x)) # Cardinality(B(y))
    <3>1. IsFiniteSet(B(y))
      BY <1>2
    <3> HIDE DEF B
    <3> QED
      BY <2>1, <3>1, FS_Subset
  <2> QED
    BY <2>2
<1>5. r \in Injection(S, 1..N)
  <2> HIDE DEF r
  <2>1. ASSUME NEW x \in S, NEW y \in S, r[x] = r[y] PROVE x = y
    BY SMTT(90), <1>4, <2>1
  <2> QED
    BY <1>3, <2>1 DEF Injection, IsInjective
<1>6. r \in Surjection(S, 1..N)
  <2>1. IsFiniteSet(1..N) /\ Cardinality(1..N) = N
    BY SMTT(90), <1>1, FS_Interval
  <2> HIDE DEF r
  <2> QED
    BY <1>5, <2>1, FS_Injection
<1> QED
  BY <1>5, <1>6 DEF Bijection

\* A set of numbers in ascending order has each of them once.
LEMMA AscendingBijection ==
    ASSUME NEW S \in SUBSET Nat, IsFiniteSet(S)
    PROVE  /\ Cardinality(S) \in Nat
           /\ Ascending(S) \in Bijection(1..Cardinality(S), S)
<1> DEFINE key == [x \in S |-> x]
           B(x) == {y \in S : y <= x}
           r == [x \in S |-> Cardinality(B(x))]
           N == Cardinality(S)
           a == Ascending(S)
<1>1. N \in Nat
  BY FS_CardinalityType
<1>2. r \in Bijection(S, 1..N)
  <2>1. key \in [S -> Nat] /\ \A x, y \in S : key[x] = key[y] => x = y
    OBVIOUS
  <2>2. [x \in S |-> Cardinality({y \in S : key[y] <= key[x]})] \in Bijection(S, 1..N)
    <3> HIDE DEF key
    <3> QED
      BY <2>1, RankBijection
  <2>3. r = [x \in S |-> Cardinality({y \in S : key[y] <= key[x]})]
    <3>1. ASSUME NEW x \in S PROVE {y \in S : key[y] <= key[x]} = B(x)
      OBVIOUS
    <3> QED
      BY <3>1
  <2> QED
    BY <2>2, <2>3
<1>3. a = [k \in 1..N |-> CHOOSE x \in S : Cardinality(B(x)) = k]
  BY DEF Ascending
<1>4. \A x \in S : r[x] = Cardinality(B(x))
  OBVIOUS
<1> HIDE DEF r, a, B
<1>5. ASSUME NEW k \in 1..N PROVE a[k] \in S /\ r[a[k]] = k
  <2>1. \E x \in S : Cardinality(B(x)) = k
    BY <1>2, <1>4 DEF Bijection, Surjection
  <2> QED
    BY <1>3, <1>4, <2>1
<1>6. a \in [1..N -> S]
  BY <1>3, <1>5
<1>7. \A k, l \in 1..N : a[k] = a[l] => k = l
  BY <1>5
<1>8. ASSUME NEW x \in S PROVE \E k \in 1..N : a[k] = x
  <2>1. r[x] \in 1..N
    BY <1>2 DEF Bijection, Injection
  <2>2. r[a[r[x]]] = r[x] /\ a[r[x]] \in S
    BY <1>5, <2>1
  <2>3. a[r[x]] = x
    BY <1>2, <2>2 DEF Bijection, Injection, IsInjective
  <2> QED
    BY <2>1, <2>3
<1> QED
  BY <1>1, <1>6, <1>7, <1>8 DEF Bijection, Injection, Surjection, IsInjective, a

\* The order by names is one of the orders.
LEMMA ByNameOrders ==
    ASSUME NEW s, SlotsInv(s)
    PROVE  ByName(s) \in Orders(s)
<1> DEFINE D == DOMAIN s
           N == Len(s)
           key == [i \in D |-> s[i].name]
           B(i) == {j \in D : \/ s[j].name < s[i].name
                              \/ s[j].name = s[i].name /\ j <= i}
           r == [i \in D |-> Cardinality(B(i))]
           p == [k \in D |-> CHOOSE i \in D : Cardinality(B(i)) = k]
<1>1. /\ N \in Nat /\ D = 1..N /\ \A i \in D : s[i] \in Slot /\ s[i].name \in Nat
      /\ \A i, j \in D : s[i].name = s[j].name => i = j
  <2>1. N \in Nat /\ D = 1..N /\ \A i \in D : s[i] \in Slot
    BY SMTT(90) DEF SlotsInv
  <2> QED
    BY <2>1 DEF SlotsInv, Slot
<1>2. IsFiniteSet(D) /\ Cardinality(D) = N
  <2> HIDE DEF N
  <2>1. IsFiniteSet(1..N) /\ Cardinality(1..N) = N
    BY SMTT(90), <1>1, FS_Interval
  <2> QED
    BY <1>1, <2>1
<1>3. r \in Bijection(D, D)
  <2>1. key \in [D -> Nat] /\ \A i, j \in D : key[i] = key[j] => i = j
    BY <1>1
  <2>2. [i \in D |-> Cardinality({j \in D : key[j] <= key[i]})] \in Bijection(D, 1..Cardinality(D))
    <3> HIDE DEF key, D
    <3> QED
      BY <1>2, <2>1, RankBijection
  <2>3. ASSUME NEW i \in D PROVE B(i) = {j \in D : key[j] <= key[i]}
    <3>1. ASSUME NEW j \in D PROVE j \in B(i) <=> key[j] <= key[i]
      BY SMTT(90), <1>1
    <3> QED
      BY <3>1
  <2>4. r = [i \in D |-> Cardinality({j \in D : key[j] <= key[i]})]
    <3> HIDE DEF B, D, key
    <3> QED
      BY <2>3
  <2> HIDE DEF r, D, key
  <2> QED
    BY <1>1, <1>2, <2>2, <2>4
<1>4. \A i \in D : r[i] = Cardinality(B(i))
  OBVIOUS
<1>5. ByName(s) = [k \in D |-> s[p[k]]]
  BY SMTT(90) DEF ByName
<1> HIDE DEF r, B, D
<1>6. ASSUME NEW k \in D PROVE p[k] \in D /\ r[p[k]] = k
  <2>1. \E i \in D : Cardinality(B(i)) = k
    BY <1>3, <1>4 DEF Bijection, Surjection
  <2> QED
    BY <1>4, <2>1
<1> HIDE DEF p
<1>7. p \in Injection(D, D)
  <2>1. p \in [D -> D]
    BY <1>6 DEF p
  <2> QED
    BY SMTT(90), <1>6, <2>1 DEF Injection, IsInjective
<1>8. p \in Surjection(D, D)
  BY <1>2, <1>7, FS_Injection
<1>9. p \in Bijection(D, D)
  BY <1>7, <1>8 DEF Bijection
<1> QED
  BY <1>5, <1>9 DEF Orders, D

\* Whatever order sortEndpoints leaves, it only moves the slots.
LEMMA OrderedOrders ==
    ASSUME NEW s, SlotsInv(s), mode \in Mode, NEW updated \in BOOLEAN, NEW t \in Ordered(s, updated)
    PROVE  t \in Orders(s)
<1>1. s \in Orders(s)
  <2> DEFINE D == DOMAIN s
             p == [i \in D |-> i]
  <2>1. p \in Bijection(D, D) /\ s = [i \in D |-> s[p[i]]]
    BY SMTT(90) DEF Bijection, Injection, Surjection, IsInjective, SlotsInv
  <2> HIDE DEF p
  <2> QED
    BY <2>1 DEF Orders
<1>2. ByName(s) \in Orders(s)
  BY ByNameOrders
<1>3. mode.sortBy \in {"endpoint", "name", "ip", "random"}
  BY DynUpdateAssumption
<1> HIDE DEF Orders
<1> QED
  BY <1>1, <1>2, <1>3 DEF Ordered

\* The slots in another order are still those of a backend, on the same servers.
LEMMA OrdersInv ==
    ASSUME NEW s, SlotsInv(s), NEW t \in Orders(s)
    PROVE  SlotsInv(t) /\ \A table : Matches(table, s) => Matches(table, t)
<1> DEFINE D == DOMAIN s
<1>1. Len(s) \in Nat /\ D = 1..Len(s) /\ \A i \in D : s[i] \in Slot
  BY SMTT(90) DEF SlotsInv
<1>2. PICK p \in Bijection(D, D) : t = [i \in D |-> s[p[i]]]
  BY DEF Orders
<1>3. /\ p \in [D -> D] /\ \A i, j \in D : p[i] = p[j] => i = j
      /\ \A j \in D : \E i \in D : p[i] = j
  BY <1>2 DEF Bijection, Injection, Surjection, IsInjective
<1>4. DOMAIN t = D /\ t \in Seq(Slot) /\ Len(t) = Len(s)
  BY SMTT(90), <1>1, <1>2, <1>3
<1>5. \A i \in D : t[i] = s[p[i]] /\ p[i] \in D
  BY <1>2, <1>3
<1> HIDE DEF D
<1>6. SlotsInv(t)
  <2>1. /\ \A i \in DOMAIN t : t[i].name <= Srv(Len(t))
        /\ \A i \in DOMAIN t : IF t[i].ep = 0 THEN t[i].cookie > FirstSrv
                               ELSE mode.podUID => t[i].cookie = t[i].ep
    BY SMTT(90), <1>4, <1>5 DEF SlotsInv, D
  <2>2. ASSUME NEW i \in DOMAIN t, NEW j \in DOMAIN t,
               t[i].name = t[j].name \/ (t[i].ep = t[j].ep /\ t[i].ep # 0)
        PROVE  i = j
    <3>1. i \in D /\ j \in D /\ t[i] = s[p[i]] /\ t[j] = s[p[j]] /\ p[i] \in D /\ p[j] \in D
      BY <1>4, <1>5
    <3>2. p[i] = p[j]
      BY <2>2, <3>1 DEF SlotsInv, D
    <3> QED
      BY <1>3, <3>1, <3>2
  <2> QED
    <3>1. \A i, j \in DOMAIN t : t[i].name = t[j].name => i = j
      BY <2>2
    <3>2. \A i, j \in DOMAIN t : t[i].ep = t[j].ep /\ t[i].ep # 0 => i = j
      BY <2>2
    <3> QED
      BY <1>4, <2>1, <3>1, <3>2 DEF SlotsInv
<1>7. Names(t) = Names(s)
  BY SMTT(90), <1>3, <1>4, <1>5 DEF Names, D
<1>8. ASSUME NEW table, Matches(table, s) PROVE Matches(table, t)
  BY SMTT(90), <1>4, <1>5, <1>7, <1>8 DEF Matches, D
<1> QED
  BY <1>6, <1>8

-----------------------------------------------------------------------------
(* New slots.                                                              *)

\* AddEmptyEndpoint names a server as nobody else.
LEMMA PaddedInv ==
    ASSUME NEW s, SlotsInv(s), NEW n \in Nat
    PROVE  SlotsInv(Padded(s, n))
<1> DEFINE e == [i \in 1..n |-> EmptySlot(Len(s) + i)]
           z == s \o e
<1>1. /\ s \in Seq(Slot) /\ Len(s) \in Nat /\ DOMAIN s = 1..Len(s) /\ FirstSrv \in Nat
      /\ \A i \in DOMAIN s : s[i] \in Slot
  BY SMTT(90), DynUpdateAssumption DEF SlotsInv
<1>2. /\ \A i \in 1..n : /\ e[i] \in Slot /\ e[i].name = FirstSrv + Len(s) + i
                         /\ e[i].cookie = FirstSrv + Len(s) + i /\ e[i].ep = 0
  BY SMTT(90), <1>1 DEF EmptySlot, Srv, Slot
<1>3. e \in Seq(Slot) /\ Len(e) = n
  <2>1. e \in [1..n -> Slot]
    BY <1>2
  <2> HIDE DEF e
  <2> QED
    BY SMTT(90), <2>1
<1> HIDE DEF e
<1>4. /\ z \in Seq(Slot) /\ Len(z) = Len(s) + n /\ DOMAIN z = 1..Len(z)
      /\ \A i \in 1..Len(z) : z[i] = IF i <= Len(s) THEN s[i] ELSE e[i - Len(s)]
  <2>1. /\ z \in Seq(Slot) /\ Len(z) = Len(s) + Len(e)
        /\ \A i \in 1..Len(s) + Len(e) : z[i] = IF i <= Len(s) THEN s[i] ELSE e[i - Len(s)]
    BY <1>1, <1>3, ConcatOf
  <2> HIDE DEF z
  <2> QED
    BY SMTT(90), <1>1, <1>3, <2>1
<1>5. \A i \in DOMAIN z :
         \/ i \in DOMAIN s /\ z[i] = s[i]
         \/ /\ i \notin DOMAIN s /\ z[i].name = FirstSrv + i /\ z[i].ep = 0
            /\ z[i].cookie = FirstSrv + i
  BY SMTT(90), <1>1, <1>2, <1>4
<1> HIDE DEF z
<1>6. /\ \A i \in DOMAIN s : s[i].name \in Nat /\ s[i].name <= FirstSrv + Len(s)
      /\ \A i, j \in DOMAIN s : s[i].name = s[j].name => i = j
      /\ \A i, j \in DOMAIN s : s[i].ep = s[j].ep /\ s[i].ep # 0 => i = j
      /\ \A i \in DOMAIN s : IF s[i].ep = 0 THEN s[i].cookie > FirstSrv
                             ELSE mode.podUID => s[i].cookie = s[i].ep
  BY <1>1 DEF SlotsInv, Srv, Slot
<1>7. \A i \in DOMAIN z : z[i].name <= Srv(Len(z))
  BY SMTT(90), <1>1, <1>4, <1>5, <1>6 DEF Srv
<1>8. \A i, j \in DOMAIN z : z[i].name = z[j].name => i = j
  BY SMTT(90), <1>1, <1>4, <1>5, <1>6
<1>9. \A i, j \in DOMAIN z : z[i].ep = z[j].ep /\ z[i].ep # 0 => i = j
  BY <1>5, <1>6
<1>10. \A i \in DOMAIN z : IF z[i].ep = 0 THEN z[i].cookie > FirstSrv
                           ELSE mode.podUID => z[i].cookie = z[i].ep
  BY SMTT(90), <1>1, <1>4, <1>5, <1>6
<1>11. Padded(s, n) = z
  BY DEF Padded, e, z
<1> QED
  BY <1>4, <1>7, <1>8, <1>9, <1>10, <1>11 DEF SlotsInv

\* The positions of the empty slots.
LEMMA EmptyBijection ==
    ASSUME NEW s, SlotsInv(s)
    PROVE  LET E == {i \in DOMAIN s : s[i].ep = 0}
           IN /\ IsFiniteSet(E) /\ Cardinality(E) \in Nat
              /\ EmptySlots(s) \in Bijection(1..Cardinality(E), E)
              /\ EmptySlots(s) \in Seq(Nat) /\ Len(EmptySlots(s)) = Cardinality(E)
<1> DEFINE E == {i \in DOMAIN s : s[i].ep = 0}
           a == Ascending(E)
<1>1. IsFiniteSet(E) /\ E \in SUBSET Nat
  <2>1. Len(s) \in Nat /\ DOMAIN s = 1..Len(s)
    BY SMTT(90) DEF SlotsInv
  <2>2. E \subseteq 1..Len(s)
    BY <2>1
  <2> HIDE DEF E
  <2> QED
    <3>1. IsFiniteSet(1..Len(s))
      BY SMTT(90), <2>1, FS_Interval
    <3>2. IsFiniteSet(E)
      BY <2>2, <3>1, FS_Subset
    <3>3. E \subseteq Nat
      BY SMTT(90), <2>1, <2>2
    <3> QED
      BY <3>2, <3>3
<1>2. EmptySlots(s) = a
  BY DEF EmptySlots, Enabled
<1> HIDE DEF E
<1>3. Cardinality(E) \in Nat /\ a \in Bijection(1..Cardinality(E), E)
  BY <1>1, AscendingBijection
<1>4. a \in Seq(Nat) /\ Len(a) = Cardinality(E)
  <2>1. a \in [1..Cardinality(E) -> E]
    BY <1>3 DEF Bijection, Injection
  <2>2. a \in [1..Cardinality(E) -> Nat]
    BY <1>1, <2>1
  <2> HIDE DEF a
  <2> QED
    BY SMTT(90), <1>3, <2>2
<1> QED
  BY <1>1, <1>2, <1>3, <1>4 DEF E

\* alignSlots only adds empty slots.
LEMMA AlignInv ==
    ASSUME NEW s, SlotsInv(s), mode \in Mode
    PROVE  SlotsInv(alignSlots(s))
<1> DEFINE free == Len(EmptySlots(s))
           k == IF free < mode.minFree THEN mode.minFree - free ELSE 0
           filled == Padded(s, k)
           b == mode.blockSize
           m == b - (((Len(filled) + b - 1) % b) + 1)
<1>1. mode.minFree \in Nat /\ b \in Nat \ {0}
  BY DynUpdateAssumption
<1>2. free \in Nat
  BY EmptyBijection
<1>3. k \in Nat
  BY SMTT(90), <1>1, <1>2
<1> HIDE DEF k
<1>4. SlotsInv(filled) /\ Len(filled) \in Nat
  <2>1. SlotsInv(filled)
    BY <1>3, PaddedInv
  <2> HIDE DEF filled
  <2> QED
    BY SMTT(90), <2>1 DEF SlotsInv
<1> HIDE DEF filled, b
<1>5. m \in Nat
  <2> DEFINE x == Len(filled) + b - 1
  <2>1. x \in Nat
    BY SMTT(90), <1>1, <1>4
  <2> HIDE DEF x
  <2>2. x % b \in 0..(b - 1)
    BY SMTT(90), <1>1, <2>1
  <2> QED
    BY SMTT(90), <1>1, <2>2 DEF x
<1> HIDE DEF m
<1>6. SlotsInv(Padded(filled, m)) /\ SlotsInv(Padded(s, b))
  BY <1>1, <1>4, <1>5, PaddedInv
<1>7. alignSlots(s) \in {Padded(filled, m), Padded(s, b)}
  BY DEF alignSlots, k, filled, m, b
<1> QED
  BY <1>6, <1>7

\* The slots that a sync adds are those of a backend without empty ones.
LEMMA SyncedInv ==
    ASSUME mode \in Mode, NEW new \in Synced
    PROVE  SlotsInv(new) /\ \A i \in DOMAIN new : new[i].ep # 0
<1>1. /\ FirstSrv \in Nat /\ Ep \subseteq 1..FirstSrv
      /\ mode.podUID \in BOOLEAN /\ mode.ipNaming \in BOOLEAN /\ mode.weights \subseteq Nat
  BY DynUpdateAssumption
<1>0. PICK eps \in Lists, weight \in [Ep -> mode.weights] : new = NewSlots(eps, weight)
  BY SMTT(90) DEF Synced
<1>2. PICK S \in SUBSET Ep : eps \in Injection(1..Cardinality(S), S)
  BY <1>0 DEF Lists
<1> DEFINE N == Cardinality(S)
<1>3. N \in Nat
  <2>1. IsFiniteSet(1..FirstSrv)
    BY SMTT(90), <1>1, FS_Interval
  <2>2. IsFiniteSet(S)
    BY <1>1, <2>1, FS_Subset
  <2> QED
    BY <2>2, FS_CardinalityType
<1>4. eps \in [1..N -> S] /\ \A i, j \in 1..N : eps[i] = eps[j] => i = j
  BY <1>2 DEF Injection, IsInjective
<1> HIDE DEF N
<1>5. \A i \in 1..N : eps[i] \in Ep /\ eps[i] \in Nat /\ eps[i] # 0 /\ eps[i] <= FirstSrv
  <2>1. \A x \in Ep : x \in Nat /\ x # 0 /\ x <= FirstSrv
    BY SMTT(90), <1>1
  <2>2. \A i \in 1..N : eps[i] \in Ep
    BY <1>2, <1>4
  <2> QED
    BY <2>1, <2>2
<1>6. ASSUME NEW i \in 1..N
      PROVE  /\ i \in DOMAIN new /\ new[i] \in Slot
             /\ new[i].ep = eps[i]
             /\ new[i].name = IF mode.ipNaming THEN eps[i] ELSE FirstSrv + i
             /\ mode.podUID => new[i].cookie = eps[i]
  <2>1. weight[eps[i]] \in Nat /\ FirstSrv + i \in Nat /\ FirstSrv + i # 0 /\ DOMAIN eps = 1..N
    BY SMTT(90), <1>1, <1>2, <1>3, <1>4, <1>5
  <2> QED
    BY <1>0, <1>5, <2>1 DEF NewSlots, Slot, Srv
<1>7. new \in Seq(Slot) /\ DOMAIN new = 1..N /\ Len(new) = N
  <2>1. new = [i \in 1..N |-> new[i]]
    BY <1>0, <1>4 DEF NewSlots
  <2> QED
    BY SMTT(90), <1>3, <1>6, <2>1
<1>8. \A i \in DOMAIN new : new[i].name <= Srv(Len(new))
  BY SMTT(90), <1>1, <1>3, <1>5, <1>6, <1>7 DEF Srv
<1>9. \A i, j \in DOMAIN new : new[i].name = new[j].name => i = j
  BY SMTT(90), <1>1, <1>3, <1>4, <1>6, <1>7
<1>10. \A i, j \in DOMAIN new : new[i].ep = new[j].ep => i = j
  BY SMTT(90), <1>4, <1>6, <1>7
<1>11. \A i \in DOMAIN new : new[i].ep # 0 /\ (mode.podUID => new[i].cookie = new[i].ep)
  BY <1>5, <1>6, <1>7
<1> QED
  BY <1>7, <1>8, <1>9, <1>10, <1>11 DEF SlotsInv

-----------------------------------------------------------------------------
(* Which slot an endpoint takes.                                           *)

\* A list of endpoints for which there are enough slots.
Fits(old, new) ==
    /\ SlotsInv(old) /\ SlotsInv(new) /\ \A i \in DOMAIN new : new[i].ep # 0
    /\ Len(new) <= Len(old)

\* The slots whose endpoint is gone, and with the empty ones those that are free.
Vacated(old, new) == {p \in DOMAIN old : old[p].ep # 0 /\ old[p].ep \notin Eps(new)}
Free(old, new) == {p \in DOMAIN old : old[p].ep \notin Eps(new)}

\* The slot of an endpoint is the only one that has it.
LEMMA PositionOf ==
    ASSUME NEW s, SlotsInv(s)
    PROVE  /\ Eps(s) \in SUBSET Ep /\ 0 \notin Eps(s)
           /\ \A e \in Eps(s) : Position(s, e) \in DOMAIN s /\ s[Position(s, e)].ep = e
           /\ \A i \in DOMAIN s : s[i].ep # 0 => s[i].ep \in Eps(s) /\ Position(s, s[i].ep) = i
<1>1. \A i \in DOMAIN s : s[i].ep \in Ep \cup {0}
  <2>1. \A i \in DOMAIN s : s[i] \in Slot
    BY SMTT(90) DEF SlotsInv
  <2> QED
    BY <2>1 DEF Slot
<1>2. \A i, j \in DOMAIN s : s[i].ep = s[j].ep /\ s[i].ep # 0 => i = j
  BY DEF SlotsInv
<1>3. ASSUME NEW e \in Eps(s)
      PROVE  Position(s, e) \in DOMAIN s /\ s[Position(s, e)].ep = e
  <2>1. \E i \in DOMAIN s : s[i].ep = e
    BY DEF Eps
  <2> QED
    BY <2>1 DEF Position
<1>4. ASSUME NEW i \in DOMAIN s, s[i].ep # 0
      PROVE  s[i].ep \in Eps(s) /\ Position(s, s[i].ep) = i
  <2>1. s[i].ep \in Eps(s)
    BY <1>4 DEF Eps
  <2>2. Position(s, s[i].ep) \in DOMAIN s /\ s[Position(s, s[i].ep)].ep = s[i].ep
    BY <1>3, <2>1
  <2> QED
    BY <1>2, <1>4, <2>1, <2>2
<1>5. Eps(s) \in SUBSET Ep /\ 0 \notin Eps(s)
  BY <1>1 DEF Eps
<1> QED
  BY <1>3, <1>4, <1>5

\* Gone has each of the vacated slots once.
LEMMA GoneBijection ==
    ASSUME NEW old, NEW new, SlotsInv(old)
    PROVE  /\ Gone(old, new) \in Seq(Nat)
           /\ Gone(old, new) \in Bijection(1..Len(Gone(old, new)), Vacated(old, new))
<1> DEFINE X == Eps(old) \ Eps(new)
           V == Vacated(old, new)
           c == Cardinality(X)
           a == Ascending(X)
           g == Gone(old, new)
<1>1. /\ Eps(old) \in SUBSET Ep /\ 0 \notin Eps(old)
      /\ \A e \in Eps(old) : Position(old, e) \in DOMAIN old /\ old[Position(old, e)].ep = e
      /\ \A i \in DOMAIN old : old[i].ep # 0 => /\ old[i].ep \in Eps(old)
                                                /\ Position(old, old[i].ep) = i
  BY PositionOf
<1>2. X \in SUBSET Nat /\ IsFiniteSet(X)
  <2>1. FirstSrv \in Nat /\ X \subseteq 1..FirstSrv
    BY <1>1, DynUpdateAssumption
  <2> HIDE DEF X
  <2>2. IsFiniteSet(1..FirstSrv)
    BY SMTT(90), <2>1, FS_Interval
  <2>3. IsFiniteSet(X)
    BY <2>1, <2>2, FS_Subset
  <2> QED
    BY SMTT(90), <2>1, <2>3
<1>3. \A e \in X : e \in Eps(old) /\ e \notin Eps(new) /\ e # 0
  BY <1>1
<1>4. \A i \in V : old[i].ep \in X
  BY <1>1 DEF Vacated
<1>5. g = [k \in DOMAIN a |-> Position(old, a[k])]
  BY DEF Gone
<1> HIDE DEF X, g
<1>6. c \in Nat /\ a \in Bijection(1..c, X)
  BY <1>2, AscendingBijection
<1> HIDE DEF a, c
<1>7. /\ a \in [1..c -> X] /\ \A k, l \in 1..c : a[k] = a[l] => k = l
      /\ \A e \in X : \E k \in 1..c : a[k] = e
  BY <1>6 DEF Bijection, Injection, Surjection, IsInjective
<1>8. DOMAIN g = 1..c
  BY <1>5, <1>7
<1>9. ASSUME NEW k \in 1..c
      PROVE  g[k] \in V /\ old[g[k]].ep = a[k]
  <2>1. a[k] \in X /\ g[k] = Position(old, a[k])
    BY <1>5, <1>7
  <2> QED
    BY <1>1, <1>3, <2>1 DEF Vacated
<1>10. V \subseteq Nat
  BY SMTT(90) DEF Vacated, SlotsInv
<1>11. g \in [1..c -> V]
  BY <1>5, <1>8, <1>9
<1>12. \A k, l \in 1..c : g[k] = g[l] => k = l
  BY SMTT(90), <1>7, <1>9
<1>13. ASSUME NEW i \in V PROVE \E k \in 1..c : g[k] = i
  <2>1. PICK k \in 1..c : a[k] = old[i].ep
    BY <1>4, <1>7
  <2>2. i \in DOMAIN old /\ g[k] = Position(old, old[i].ep) /\ old[i].ep # 0
    BY <1>5, <1>8, <2>1 DEF Vacated
  <2> QED
    BY <1>1, <2>2
<1> HIDE DEF V
<1>14. g \in Seq(Nat) /\ Len(g) = c
  <2>1. g \in [1..c -> Nat]
    BY <1>10, <1>11
  <2> QED
    BY SMTT(90), <1>6, <2>1
<1>15. g \in Bijection(1..c, V)
  BY <1>8, <1>11, <1>12, <1>13 DEF Bijection, Injection, Surjection, IsInjective
<1> QED
  BY <1>14, <1>15 DEF g, V

\* Reusable has each of the free slots once, the vacated ones first.
LEMMA ReusableBijection ==
    ASSUME NEW old, NEW new, SlotsInv(old), SlotsInv(new)
    PROVE  LET g == Gone(old, new)
               e == EmptySlots(old)
               r == Reusable(old, new)
           IN /\ g \in Seq(Nat) /\ e \in Seq(Nat) /\ r \in Seq(Nat) /\ Len(r) = Len(g) + Len(e)
              /\ \A k \in 1..Len(g) : g[k] = r[k] /\ r[k] \in Vacated(old, new)
              /\ \A k \in 1..Len(e) : e[k] = r[Len(g) + k] /\ old[e[k]].ep = 0
              /\ r \in Bijection(1..Len(r), Free(old, new))
<1> DEFINE g == Gone(old, new)
           e == EmptySlots(old)
           r == Reusable(old, new)
           V == Vacated(old, new)
           E == {i \in DOMAIN old : old[i].ep = 0}
           F == Free(old, new)
<1>1. g \in Seq(Nat) /\ g \in Bijection(1..Len(g), V)
  BY GoneBijection
<1>2. e \in Seq(Nat) /\ e \in Bijection(1..Len(e), E)
  BY EmptyBijection
<1>3. F = V \cup E /\ V \cap E = {}
  <2>1. 0 \notin Eps(new)
    BY PositionOf
  <2> QED
    BY <2>1 DEF Free, Vacated
<1>4. r = g \o e
  BY DEF Reusable
<1>5. ASSUME NEW i \in E PROVE old[i].ep = 0
  OBVIOUS
<1> HIDE DEF g, e, r, V, E, F
<1>6. Len(g) \in Nat /\ Len(e) \in Nat
  BY SMTT(90), <1>1, <1>2
<1>7. /\ r \in Seq(Nat) /\ Len(r) = Len(g) + Len(e) /\ DOMAIN r = 1..Len(r)
      /\ \A k \in 1..Len(r) : r[k] = IF k <= Len(g) THEN g[k] ELSE e[k - Len(g)]
  BY SMTT(90), <1>1, <1>2, <1>4, <1>6, ConcatOf
<1>8. /\ \A k \in 1..Len(g) : g[k] \in V /\ \A l \in 1..Len(g) : g[k] = g[l] => k = l
      /\ \A i \in V : \E k \in 1..Len(g) : g[k] = i
  BY <1>1 DEF Bijection, Injection, Surjection, IsInjective
<1>9. /\ \A k \in 1..Len(e) : e[k] \in E /\ \A l \in 1..Len(e) : e[k] = e[l] => k = l
      /\ \A i \in E : \E k \in 1..Len(e) : e[k] = i
  BY <1>2 DEF Bijection, Injection, Surjection, IsInjective
<1>10. ASSUME NEW k \in 1..Len(g) PROVE k \in 1..Len(r) /\ r[k] = g[k]
  BY SMTT(90), <1>6, <1>7
<1>11. ASSUME NEW k \in 1..Len(e) PROVE Len(g) + k \in 1..Len(r) /\ r[Len(g) + k] = e[k]
  BY SMTT(90), <1>6, <1>7
<1>12. ASSUME NEW k \in 1..Len(r)
       PROVE  \/ k \in 1..Len(g) /\ r[k] = g[k]
              \/ k - Len(g) \in 1..Len(e) /\ r[k] = e[k - Len(g)]
  BY SMTT(90), <1>6, <1>7
<1>13. r \in [1..Len(r) -> F]
  <2>1. \A k \in 1..Len(r) : r[k] \in F
    BY <1>3, <1>8, <1>9, <1>12
  <2> QED
    BY SMTT(90), <1>7, <2>1
<1>14. ASSUME NEW k \in 1..Len(r), NEW l \in 1..Len(r), r[k] = r[l] PROVE k = l
  <2>1. CASE k \in 1..Len(g) /\ r[k] = g[k] /\ l \in 1..Len(g) /\ r[l] = g[l]
    BY <1>8, <1>14, <2>1
  <2>2. CASE /\ k - Len(g) \in 1..Len(e) /\ r[k] = e[k - Len(g)]
             /\ l - Len(g) \in 1..Len(e) /\ r[l] = e[l - Len(g)]
    <3>1. k - Len(g) = l - Len(g)
      BY <1>9, <1>14, <2>2
    <3> QED
      BY SMTT(90), <1>6, <1>7, <3>1
  <2> QED
    BY <1>3, <1>8, <1>9, <1>12, <1>14, <2>1, <2>2
<1>15. ASSUME NEW i \in F PROVE \E k \in 1..Len(r) : r[k] = i
  <2>1. CASE i \in V
    BY <1>8, <1>10, <2>1
  <2>2. CASE i \in E
    BY <1>9, <1>11, <2>2
  <2> QED
    BY <1>3, <2>1, <2>2
<1>16. r \in Bijection(1..Len(r), F)
  BY <1>7, <1>13, <1>14, <1>15 DEF Bijection, Injection, Surjection, IsInjective
<1>17. \A k \in 1..Len(g) : g[k] = r[k] /\ r[k] \in V
  BY <1>8, <1>10
<1>18. \A k \in 1..Len(e) : e[k] = r[Len(g) + k] /\ old[e[k]].ep = 0
  BY <1>5, <1>9, <1>11
<1> QED
  BY <1>1, <1>2, <1>7, <1>16, <1>17, <1>18 DEF g, e, r, V, F

\* The added endpoints are ranked in the order of the list.
LEMMA AddedRank ==
    ASSUME NEW old, NEW new, SlotsInv(new)
    PROVE  LET A == Added(old, new)
           IN /\ IsFiniteSet(A) /\ Cardinality(A) \in Nat /\ A \subseteq DOMAIN new
              /\ [i \in A |-> Cardinality({j \in A : j <= i})] \in Bijection(A, 1..Cardinality(A))
<1> DEFINE A == Added(old, new)
           key == [i \in A |-> i]
<1>1. Len(new) \in Nat /\ DOMAIN new = 1..Len(new)
  BY SMTT(90) DEF SlotsInv
<1>2. A \subseteq DOMAIN new
  BY DEF Added
<1> HIDE DEF A
<1>3. IsFiniteSet(1..Len(new))
  BY SMTT(90), <1>1, FS_Interval
<1>4. IsFiniteSet(A)
  BY <1>1, <1>2, <1>3, FS_Subset
<1>5. Cardinality(A) \in Nat
  BY <1>4, FS_CardinalityType
<1>6. key \in [A -> Nat] /\ \A x, y \in A : key[x] = key[y] => x = y
  BY SMTT(90), <1>1, <1>2
<1>7. [i \in A |-> Cardinality({j \in A : key[j] <= key[i]})] \in Bijection(A, 1..Cardinality(A))
  <2> HIDE DEF key
  <2> QED
    BY <1>4, <1>6, RankBijection
<1>8. ASSUME NEW i \in A PROVE {j \in A : key[j] <= key[i]} = {j \in A : j <= i}
  OBVIOUS
<1>9. [i \in A |-> Cardinality({j \in A : key[j] <= key[i]})]
         = [i \in A |-> Cardinality({j \in A : j <= i})]
  BY <1>8
<1> QED
  BY <1>2, <1>4, <1>5, <1>7, <1>9 DEF A

\* There is a free slot for each endpoint that was added: the others keep theirs.
LEMMA EnoughSlots ==
    ASSUME NEW old, NEW new, Fits(old, new)
    PROVE  Cardinality(Added(old, new)) <= Len(Reusable(old, new))
<1> DEFINE A == Added(old, new)
           F == Free(old, new)
           r == Reusable(old, new)
           O == 1..Len(old)
           N == 1..Len(new)
           f == [i \in N \ A |-> Position(old, new[i].ep)]
<1>1. /\ SlotsInv(old) /\ SlotsInv(new) /\ \A i \in DOMAIN new : new[i].ep # 0
      /\ Len(new) \in Nat /\ Len(old) \in Nat /\ Len(new) <= Len(old)
      /\ DOMAIN old = O /\ DOMAIN new = N
  BY SMTT(90) DEF Fits, SlotsInv
<1>2. IsFiniteSet(A) /\ A \subseteq N /\ Cardinality(A) \in Nat
  BY <1>1, AddedRank
<1>3. r \in Bijection(1..Len(r), F) /\ Len(r) \in Nat
  <2>1. r \in Bijection(1..Len(r), F) /\ r \in Seq(Nat)
    BY <1>1, ReusableBijection
  <2> HIDE DEF r
  <2> QED
    BY SMTT(90), <2>1
<1>4. /\ IsFiniteSet(O) /\ Cardinality(O) = Len(old)
      /\ IsFiniteSet(N) /\ Cardinality(N) = Len(new)
  <2>1. ASSUME NEW m \in Nat PROVE IsFiniteSet(1..m) /\ Cardinality(1..m) = m
    BY SMTT(90), FS_Interval
  <2> QED
    BY <1>1, <2>1
<1>5. F \subseteq O
  BY <1>1 DEF Free
<1>6. IsFiniteSet(F) /\ Cardinality(F) = Len(r)
  <2>1. IsFiniteSet(F)
    BY <1>4, <1>5, FS_Subset
  <2>2. IsFiniteSet(1..Len(r)) /\ Cardinality(1..Len(r)) = Len(r)
    <3> HIDE DEF r
    <3> QED
      BY SMTT(90), <1>3, FS_Interval
  <2>3. ExistsBijection(1..Len(r), F)
    BY <1>3 DEF ExistsBijection
  <2> HIDE DEF F, r
  <2> QED
    BY <2>1, <2>2, <2>3, FS_Bijection
<1>7. f \in Bijection(N \ A, O \ F)
  <2>1. /\ \A e \in Eps(old) : Position(old, e) \in DOMAIN old /\ old[Position(old, e)].ep = e
        /\ \A i \in DOMAIN old : old[i].ep # 0 => Position(old, old[i].ep) = i
        /\ 0 \notin Eps(new)
    BY <1>1, PositionOf
  <2>2. /\ \A e \in Eps(new) : \E i \in N : new[i].ep = e
        /\ \A i \in N : new[i].ep \in Eps(new)
        /\ \A i, j \in N : new[i].ep = new[j].ep => i = j
    BY <1>1 DEF Eps, SlotsInv
  <2>3. \A i \in N \ A : new[i].ep \in Eps(old)
    BY <1>1 DEF Added
  <2>4. \A p \in O : p \notin F <=> old[p].ep \in Eps(new)
    BY <1>1 DEF Free
  <2>5. \A i \in N \ A : f[i] \in O /\ old[f[i]].ep = new[i].ep
    BY <1>1, <2>1, <2>3
  <2>6. f \in [N \ A -> O \ F]
    BY <2>2, <2>4, <2>5
  <2> HIDE DEF f
  <2>7. f \in Injection(N \ A, O \ F)
    BY SMTT(90), <2>2, <2>5, <2>6 DEF Injection, IsInjective
  <2>8. ASSUME NEW p \in O \ F PROVE \E i \in N \ A : f[i] = p
    <3>1. PICK i \in N : new[i].ep = old[p].ep
      BY <2>2, <2>4
    <3>2. old[p].ep # 0 /\ Position(old, old[p].ep) = p
      BY <1>1, <2>1, <2>4
    <3>3. i \notin A
      BY <1>1, <3>1, <3>2 DEF Added, Eps
    <3> QED
      BY <3>1, <3>2, <3>3 DEF f
  <2> QED
    BY <2>6, <2>7, <2>8 DEF Bijection, Surjection
<1> HIDE DEF A, F, r, O, N, f
<1>8. Cardinality(N \ A) = Cardinality(N) - Cardinality(A)
  <2>1. N \cap A = A
    BY <1>2
  <2>2. Cardinality(N \ A) = Cardinality(N) - Cardinality(N \cap A)
    BY <1>4, FS_Difference
  <2> QED
    BY <2>1, <2>2
<1>9. Cardinality(O \ F) = Cardinality(O) - Cardinality(F)
  <2>1. O \cap F = F
    BY <1>5
  <2>2. Cardinality(O \ F) = Cardinality(O) - Cardinality(O \cap F)
    BY <1>4, FS_Difference
  <2> QED
    BY <2>1, <2>2
<1>10. Cardinality(N \ A) = Cardinality(O \ F)
  <2>1. ExistsBijection(N \ A, O \ F)
    BY <1>7 DEF ExistsBijection
  <2>2. IsFiniteSet(N \ A) /\ IsFiniteSet(O \ F)
    BY <1>4, FS_Difference
  <2> QED
    BY <2>1, <2>2, FS_Bijection
<1>11. Cardinality(A) <= Len(r)
  BY SMTT(90), <1>1, <1>2, <1>3, <1>4, <1>6, <1>8, <1>9, <1>10
<1> QED
  BY <1>11 DEF A, r

\* The endpoints of new take the slots P of old, the added ones A the first of r.
Takes(old, new, A, r, P) ==
    /\ P \in [DOMAIN new -> DOMAIN old]
    /\ \A i, j \in DOMAIN new : P[i] = P[j] => i = j
    /\ \A i \in DOMAIN new \ A : old[P[i]].ep = new[i].ep
    /\ \A i \in A : \E k \in 1..Cardinality(A) : P[i] = r[k]
    /\ \A k \in 1..Cardinality(A) : \E i \in A : P[i] = r[k]

\* An endpoint keeps its slot, or takes a free one in the order of the list.
LEMMA PlaceOf ==
    ASSUME NEW old, NEW new, Fits(old, new)
    PROVE  Takes(old, new, Added(old, new), Reusable(old, new), Place(old, new))
<1> DEFINE A == Added(old, new)
           a == Cardinality(A)
           r == Reusable(old, new)
           P == Place(old, new)
           rank == [i \in A |-> Cardinality({j \in A : j <= i})]
           N == DOMAIN new
<1>1. /\ SlotsInv(old) /\ SlotsInv(new) /\ \A i \in N : new[i].ep # 0
  BY DEF Fits
<1>2. /\ A \subseteq N /\ a \in Nat /\ rank \in Bijection(A, 1..a)
  BY <1>1, AddedRank
<1>3. r \in Bijection(1..Len(r), Free(old, new)) /\ Len(r) \in Nat
  <2>1. r \in Bijection(1..Len(r), Free(old, new)) /\ r \in Seq(Nat)
    BY <1>1, ReusableBijection
  <2> HIDE DEF r
  <2> QED
    BY SMTT(90), <2>1
<1>4. a <= Len(r)
  BY EnoughSlots
<1>5. P = [i \in N |-> IF i \in A THEN r[rank[i]] ELSE Position(old, new[i].ep)]
  BY DEF Place
<1>6. /\ \A e \in Eps(old) : Position(old, e) \in DOMAIN old /\ old[Position(old, e)].ep = e
      /\ \A i \in N \ A : new[i].ep \in Eps(old)
      /\ \A i \in N : new[i].ep \in Eps(new)
      /\ \A i, j \in N : new[i].ep = new[j].ep => i = j
  BY <1>1, PositionOf DEF Added, SlotsInv
<1>7. \A p \in Free(old, new) : p \in DOMAIN old /\ old[p].ep \notin Eps(new)
  BY DEF Free
<1> HIDE DEF A, a, r, P, rank, N
<1>8. /\ \A i \in A : rank[i] \in 1..a
      /\ \A i, j \in A : rank[i] = rank[j] => i = j
      /\ \A k \in 1..a : \E i \in A : rank[i] = k
  BY <1>2 DEF Bijection, Injection, Surjection, IsInjective
<1>9. /\ \A k \in 1..a : r[k] \in Free(old, new)
      /\ \A k, l \in 1..a : r[k] = r[l] => k = l
  <2>1. \A k \in 1..a : k \in 1..Len(r)
    BY SMTT(90), <1>2, <1>3, <1>4
  <2> QED
    BY <1>3, <2>1 DEF Bijection, Injection, IsInjective
<1>10. \A i \in A : P[i] = r[rank[i]] /\ P[i] \in DOMAIN old /\ old[P[i]].ep \notin Eps(new)
  BY <1>2, <1>5, <1>7, <1>8, <1>9
<1>11. \A i \in N \ A : P[i] \in DOMAIN old /\ old[P[i]].ep = new[i].ep
  BY <1>5, <1>6
<1>12. P \in [N -> DOMAIN old]
  BY <1>5, <1>10, <1>11
<1>13. ASSUME NEW i \in N, NEW j \in N, P[i] = P[j] PROVE i = j
  <2>1. CASE i \in A /\ j \in A
    BY SMTT(90), <1>8, <1>9, <1>10, <1>13, <2>1
  <2>2. CASE i \notin A /\ j \notin A
    BY SMTT(90), <1>6, <1>11, <1>13, <2>2
  <2> QED
    BY SMTT(90), <1>6, <1>10, <1>11, <1>13, <2>1, <2>2
<1>14. /\ \A i \in A : \E k \in 1..a : P[i] = r[k]
       /\ \A k \in 1..a : \E i \in A : P[i] = r[k]
  BY SMTT(90), <1>8, <1>10
<1>15. Takes(old, new, A, r, P)
  BY <1>11, <1>12, <1>13, <1>14 DEF Takes, a, N
<1> QED
  BY <1>15 DEF A, r, P

\* The slots L are those of r after the first a: empty, or of a gone endpoint, in D.
Leaves(old, a, r, D, L) ==
    /\ L \in Seq(Nat) /\ D \in Seq(Nat)
    /\ \A j \in DOMAIN L : \E k \in (a + 1)..Len(r) : L[j] = r[k]
    /\ \A i, j \in DOMAIN L : L[i] = L[j] => i = j
    /\ \A k \in (a + 1)..Len(r) : \E j \in DOMAIN L : L[j] = r[k]
    /\ \A j \in DOMAIN L : old[L[j]].ep = 0 \/ \E i \in DOMAIN D : D[i] = L[j]
    /\ \A i \in DOMAIN D : \E j \in DOMAIN L : D[i] = L[j]

\* The slots that are left are the free ones that nobody takes, and the disabled
\* ones are those whose endpoint is gone.
LEMMA LeftOf ==
    ASSUME NEW old, NEW new, Fits(old, new)
    PROVE  Leaves(old, Cardinality(Added(old, new)), Reusable(old, new),
                  Disabled(old, new), Left(old, new))
<1> DEFINE a == Cardinality(Added(old, new))
           g == Gone(old, new)
           e == EmptySlots(old)
           r == Reusable(old, new)
           u == IF a - Len(g) > 0 THEN a - Len(g) ELSE 0
           D == Disabled(old, new)
           M == SubSeq(e, u + 1, Len(e))
           L == Left(old, new)
<1>1. SlotsInv(old) /\ SlotsInv(new)
  BY DEF Fits
<1>2. a \in Nat
  BY <1>1, AddedRank
<1>3. /\ g \in Seq(Nat) /\ e \in Seq(Nat) /\ r \in Seq(Nat) /\ Len(r) = Len(g) + Len(e)
      /\ \A k \in 1..Len(g) : g[k] = r[k]
      /\ \A k \in 1..Len(e) : e[k] = r[Len(g) + k] /\ old[e[k]].ep = 0
      /\ r \in Bijection(1..Len(r), Free(old, new))
  BY SMTT(90), <1>1, ReusableBijection
<1>4. a <= Len(r)
  BY EnoughSlots
<1>5. D = SubSeq(g, a + 1, Len(g)) /\ L = M \o D
  BY DEF Disabled, Left
<1> DEFINE lg == Len(g)
           le == Len(e)
           lr == Len(r)
           lm == Len(M)
           ld == Len(D)
           ll == Len(L)
<1> HIDE DEF a, g, e, r, D, L
<1>6. lg \in Nat /\ le \in Nat /\ lr \in Nat /\ lr = lg + le /\ a <= lr
  BY SMTT(90), <1>3, <1>4
<1>7. u \in Nat /\ u <= le /\ (a <= lg => u = 0) /\ (a > lg => u = a - lg)
  <2>1. u = IF a - lg > 0 THEN a - lg ELSE 0
    OBVIOUS
  <2> HIDE DEF u, lg, le, lr
  <2> QED
    BY SMTT(90), <1>2, <1>6, <2>1
<1> HIDE DEF u
<1>8. M \in Seq(Nat) /\ lm = le - u /\ \A i \in 1..lm : M[i] = e[u + i]
  <2>1. \A i \in (u + 1)..le : e[i] \in Nat
    <3>1. \A i \in 1..le : e[i] \in Nat
      BY SMTT(90), <1>3
    <3> HIDE DEF le
    <3> QED
      BY SMTT(90), <1>6, <1>7, <3>1
  <2>2. M = SubSeq(e, u + 1, le) /\ u + 1 \in Int /\ le \in Int
    BY SMTT(90), <1>6, <1>7
  <2> HIDE DEF M, le
  <2>3. /\ M \in Seq(Nat) /\ Len(M) = IF u + 1 <= le THEN le - (u + 1) + 1 ELSE 0
        /\ \A i \in 1..(le - (u + 1) + 1) : M[i] = e[u + 1 + i - 1]
    BY SMTT(90), <2>1, <2>2, SubSeqOf
  <2>4. lm = le - u
    BY SMTT(90), <1>6, <1>7, <2>3
  <2>5. ASSUME NEW i \in 1..lm PROVE M[i] = e[u + i]
    <3>1. i \in 1..(le - (u + 1) + 1) /\ u + 1 + i - 1 = u + i
      BY SMTT(90), <1>6, <1>7, <2>4
    <3> QED
      BY <2>3, <3>1
  <2> QED
    BY <2>3, <2>4, <2>5
<1>9. D \in Seq(Nat) /\ ld = (IF a < lg THEN lg - a ELSE 0) /\ \A i \in 1..ld : D[i] = g[a + i]
  <2>1. \A i \in (a + 1)..lg : g[i] \in Nat
    BY SMTT(90), <1>2, <1>3, <1>6
  <2>2. D = SubSeq(g, a + 1, lg) /\ a + 1 \in Int /\ lg \in Int
    BY SMTT(90), <1>2, <1>5, <1>6
  <2> HIDE DEF lg
  <2>3. /\ D \in Seq(Nat) /\ Len(D) = IF a + 1 <= lg THEN lg - (a + 1) + 1 ELSE 0
        /\ \A i \in 1..(lg - (a + 1) + 1) : D[i] = g[a + 1 + i - 1]
    BY SMTT(90), <2>1, <2>2, SubSeqOf
  <2>4. ld = IF a < lg THEN lg - a ELSE 0
    BY SMTT(90), <1>2, <1>6, <2>3
  <2>5. ASSUME NEW i \in 1..ld PROVE D[i] = g[a + i]
    <3>1. i \in 1..(lg - (a + 1) + 1) /\ a + 1 + i - 1 = a + i
      BY SMTT(90), <1>2, <1>6, <2>4
    <3> QED
      BY <2>3, <3>1
  <2> QED
    BY <2>3, <2>4, <2>5
<1> HIDE DEF M
<1>10. /\ L \in Seq(Nat) /\ ll = lm + ld /\ DOMAIN L = 1..ll /\ DOMAIN D = 1..ld
       /\ \A i \in 1..ll : L[i] = IF i <= lm THEN M[i] ELSE D[i - lm]
       /\ ll \in Nat /\ lm \in Nat /\ ld \in Nat
  <2>1. /\ L \in Seq(Nat) /\ Len(L) = Len(M) + Len(D)
        /\ \A i \in 1..Len(M) + Len(D) : L[i] = IF i <= Len(M) THEN M[i] ELSE D[i - Len(M)]
    <3>1. M \in Seq(Nat) /\ D \in Seq(Nat) /\ L = M \o D
      BY <1>5, <1>8, <1>9
    <3> QED
      BY <3>1, ConcatOf
  <2> QED
    BY SMTT(90), <1>8, <1>9, <2>1
<1>11. /\ \A k \in 1..lg : g[k] = r[k]
       /\ \A k \in 1..le : e[k] = r[lg + k] /\ old[e[k]].ep = 0
       /\ \A k, l \in 1..lr : r[k] = r[l] => k = l
  BY <1>3 DEF Bijection, Injection, IsInjective
<1> HIDE DEF lg, le, lr, lm, ld, ll
<1> DEFINE h(j) == IF j <= lm THEN lg + (u + j) ELSE a + (j - lm)
<1>12. ASSUME NEW j \in 1..ll
       PROVE  /\ h(j) \in (a + 1)..lr /\ L[j] = r[h(j)]
              /\ old[L[j]].ep = 0 \/ \E i \in 1..ld : D[i] = L[j]
  <2>1. CASE j <= lm
    <3>1. j \in 1..lm /\ u + j \in 1..le
      BY SMTT(90), <1>6, <1>7, <1>8, <1>10, <2>1
    <3>2. L[j] = e[u + j]
      BY <1>8, <1>10, <2>1, <3>1
    <3>3. L[j] = r[lg + (u + j)] /\ old[L[j]].ep = 0
      BY <1>11, <3>1, <3>2
    <3>4. h(j) = lg + (u + j) /\ h(j) \in (a + 1)..lr
      BY SMTT(90), <1>2, <1>6, <1>7, <2>1, <3>1
    <3> QED
      BY <3>3, <3>4
  <2>2. CASE j > lm
    <3>1. j - lm \in 1..ld /\ a + (j - lm) \in 1..lg
      <4>1. j - lm \in 1..ld
        BY SMTT(90), <1>10, <2>2
      <4>2. a < lg /\ ld = lg - a
        BY SMTT(90), <1>2, <1>6, <1>9, <4>1
      <4> QED
        BY SMTT(90), <1>2, <1>6, <4>1, <4>2
    <3>2. L[j] = D[j - lm] /\ L[j] = g[a + (j - lm)]
      BY SMTT(90), <1>9, <1>10, <2>2, <3>1
    <3>3. h(j) = a + (j - lm) /\ h(j) \in (a + 1)..lr
      BY SMTT(90), <1>2, <1>6, <1>10, <2>2, <3>1
    <3> QED
      BY <1>11, <3>1, <3>2, <3>3
  <2> QED
    BY SMTT(90), <1>10, <2>1, <2>2
<1>13. ASSUME NEW i \in 1..ll, NEW j \in 1..ll, h(i) = h(j) PROVE i = j
  <2>1. ASSUME NEW k \in 1..ll, k > lm PROVE a + (k - lm) <= lg
    <3>1. k - lm \in 1..ld
      BY SMTT(90), <1>10, <2>1
    <3>2. a < lg /\ ld = lg - a
      BY SMTT(90), <1>2, <1>6, <1>9, <3>1
    <3> QED
      BY SMTT(90), <1>2, <1>6, <1>10, <3>1, <3>2
  <2>2. CASE i <= lm /\ j <= lm
    BY SMTT(90), <1>6, <1>7, <1>13, <2>2
  <2>3. CASE i > lm /\ j > lm
    BY SMTT(90), <1>2, <1>10, <1>13, <2>3
  <2>4. CASE i <= lm /\ j > lm
    <3>1. h(j) = a + (j - lm) /\ a + (j - lm) <= lg
      BY SMTT(90), <1>10, <2>1, <2>4
    <3>2. h(i) = lg + (u + i) /\ lg + (u + i) > lg
      BY SMTT(90), <1>6, <1>7, <2>4
    <3> QED
      BY SMTT(90), <1>2, <1>6, <1>7, <1>10, <1>13, <3>1, <3>2
  <2>5. CASE i > lm /\ j <= lm
    <3>1. h(i) = a + (i - lm) /\ a + (i - lm) <= lg
      BY SMTT(90), <1>10, <2>1, <2>5
    <3>2. h(j) = lg + (u + j) /\ lg + (u + j) > lg
      BY SMTT(90), <1>6, <1>7, <2>5
    <3> QED
      BY SMTT(90), <1>2, <1>6, <1>7, <1>10, <1>13, <3>1, <3>2
  <2> QED
    BY SMTT(90), <1>10, <2>2, <2>3, <2>4, <2>5
<1>14. ASSUME NEW i \in 1..ll, NEW j \in 1..ll, L[i] = L[j] PROVE i = j
  <2>1. h(i) \in 1..lr /\ h(j) \in 1..lr /\ r[h(i)] = r[h(j)]
    <3> HIDE DEF h
    <3> QED
      BY SMTT(90), <1>2, <1>6, <1>12, <1>14
  <2>2. h(i) = h(j)
    <3> HIDE DEF h
    <3> QED
      BY <1>11, <2>1
  <2> QED
    BY <1>13, <2>2
<1>15. ASSUME NEW k \in (a + 1)..lr PROVE \E j \in 1..ll : h(j) = k
  <2>1. CASE k <= lg
    <3>1. lm + (k - a) \in 1..ll /\ h(lm + (k - a)) = k
      BY SMTT(90), <1>2, <1>6, <1>9, <1>10, <2>1
    <3> QED
      BY <3>1
  <2>2. CASE k > lg
    <3>1. PICK j \in 1..lm : k = lg + (u + j)
      <4>1. k - lg - u \in 1..lm /\ k = lg + (u + (k - lg - u))
        BY SMTT(90), <1>2, <1>6, <1>7, <1>8, <2>2
      <4> QED
        BY <4>1
    <3>2. j \in 1..ll /\ j <= lm
      BY SMTT(90), <1>10
    <3> QED
      BY <3>1, <3>2
  <2> QED
    BY SMTT(90), <1>2, <1>6, <2>1, <2>2
<1>16. ASSUME NEW i \in 1..ld PROVE \E j \in 1..ll : D[i] = L[j]
  <2> DEFINE j == lm + i
  <2>1. j \in 1..ll /\ ~(j <= lm) /\ j - lm = i
    BY SMTT(90), <1>10
  <2> HIDE DEF j
  <2>2. L[j] = D[j - lm]
    BY <1>10, <2>1
  <2> QED
    BY <2>1, <2>2
<1> HIDE DEF h
<1>17. /\ \A j \in 1..ll : \E k \in (a + 1)..lr : L[j] = r[k]
       /\ \A k \in (a + 1)..lr : \E j \in 1..ll : L[j] = r[k]
  BY <1>12, <1>15
<1>18. DOMAIN L = 1..ll /\ DOMAIN D = 1..ld /\ L \in Seq(Nat) /\ D \in Seq(Nat)
  BY <1>9, <1>10
<1>19. /\ \A i, j \in DOMAIN L : L[i] = L[j] => i = j
       /\ \A j \in DOMAIN L : old[L[j]].ep = 0 \/ \E i \in DOMAIN D : D[i] = L[j]
  <2> HIDE DEF ll, ld
  <2> QED
    BY <1>12, <1>14, <1>18
<1>20. /\ \A j \in DOMAIN L : \E k \in (a + 1)..Len(r) : L[j] = r[k]
       /\ \A k \in (a + 1)..Len(r) : \E j \in DOMAIN L : L[j] = r[k]
       /\ \A i \in DOMAIN D : \E j \in DOMAIN L : D[i] = L[j]
  <2> HIDE DEF ll, ld
  <2> QED
    BY <1>16, <1>17, <1>18 DEF lr
<1>21. Leaves(old, a, r, D, L)
  BY <1>18, <1>19, <1>20 DEF Leaves
<1> QED
  BY <1>21 DEF a, r, D, L

\* P and L share out the slots of old.
Divides(old, new, P, L) ==
    /\ \A j \in DOMAIN L : L[j] \in DOMAIN old
    /\ \A i \in DOMAIN new, j \in DOMAIN L : P[i] # L[j]
    /\ \A p \in DOMAIN old : \/ \E i \in DOMAIN new : P[i] = p
                             \/ \E j \in DOMAIN L : L[j] = p
    /\ Len(new) + Len(L) = Len(old)

\* Each slot of old is taken by one endpoint, or left once.
LEMMA SlotsTaken ==
    ASSUME NEW old, NEW new, Fits(old, new)
    PROVE  Divides(old, new, Place(old, new), Left(old, new))
<1> DEFINE A == Added(old, new)
           a == Cardinality(A)
           r == Reusable(old, new)
           P == Place(old, new)
           L == Left(old, new)
           n == Len(new)
           l == Len(L)
           m == Len(old)
           lr == Len(r)
           F == Free(old, new)
<1>1. /\ SlotsInv(old) /\ SlotsInv(new) /\ \A i \in DOMAIN new : new[i].ep # 0
      /\ n \in Nat /\ m \in Nat /\ DOMAIN new = 1..n /\ DOMAIN old = 1..m
  BY SMTT(90) DEF Fits, SlotsInv
<1>2. A \subseteq DOMAIN new /\ a \in Nat
  BY <1>1, AddedRank
<1>3. /\ P \in [DOMAIN new -> DOMAIN old]
      /\ \A i, j \in DOMAIN new : P[i] = P[j] => i = j
      /\ \A i \in DOMAIN new \ A : old[P[i]].ep = new[i].ep
      /\ \A i \in A : \E k \in 1..a : P[i] = r[k]
      /\ \A k \in 1..a : \E i \in A : P[i] = r[k]
  <2>1. Takes(old, new, A, r, P)
    BY PlaceOf
  <2> HIDE DEF A, r, P
  <2> QED
    BY <2>1 DEF Takes
<1>4. /\ L \in Seq(Nat)
      /\ \A j \in DOMAIN L : \E k \in (a + 1)..lr : L[j] = r[k]
      /\ \A i, j \in DOMAIN L : L[i] = L[j] => i = j
      /\ \A k \in (a + 1)..lr : \E j \in DOMAIN L : L[j] = r[k]
  <2>1. Leaves(old, a, r, Disabled(old, new), L)
    BY LeftOf
  <2> HIDE DEF a, r, L
  <2> QED
    BY <2>1 DEF Leaves
<1>5. r \in Bijection(1..lr, F) /\ r \in Seq(Nat)
  BY <1>1, ReusableBijection
<1>6. a <= lr
  BY EnoughSlots
<1>7. \A p \in DOMAIN old : p \in F <=> old[p].ep \notin Eps(new)
  BY DEF Free
<1>8. F \subseteq DOMAIN old
  BY DEF Free
<1>9. /\ \A i \in DOMAIN new : new[i].ep \in Eps(new)
      /\ \A e \in Eps(new) : \E i \in DOMAIN new : new[i].ep = e
      /\ \A i \in DOMAIN new \ A : new[i].ep \in Eps(old)
      /\ \A i \in A : new[i].ep \notin Eps(old)
      /\ \A p \in DOMAIN old : old[p].ep # 0 => old[p].ep \in Eps(old)
      /\ \A p, q \in DOMAIN old : old[p].ep = old[q].ep /\ old[p].ep # 0 => p = q
  BY <1>1, PositionOf DEF Eps, Added, SlotsInv
<1> HIDE DEF A, a, r, P, L, F
<1>10. lr \in Nat /\ l \in Nat /\ DOMAIN L = 1..l
  BY SMTT(90), <1>4, <1>5
<1> HIDE DEF n, l, m, lr
<1>11. /\ \A k \in 1..lr : r[k] \in F /\ \A h \in 1..lr : r[k] = r[h] => k = h
       /\ \A p \in F : \E k \in 1..lr : r[k] = p
  BY <1>5 DEF Bijection, Injection, Surjection, IsInjective
<1>12. /\ \A k \in (a + 1)..lr : k \in 1..lr /\ k \notin 1..a
       /\ \A k \in 1..a : k \in 1..lr
       /\ \A k \in 1..lr : k \in 1..a \/ k \in (a + 1)..lr
  BY SMTT(90), <1>2, <1>6, <1>10
<1>13. \A j \in DOMAIN L : L[j] \in F
  BY <1>4, <1>11, <1>12
<1>14. ASSUME NEW i \in DOMAIN new, NEW j \in DOMAIN L PROVE P[i] # L[j]
  <2>1. PICK k \in (a + 1)..lr : L[j] = r[k]
    BY <1>4
  <2>2. CASE i \in A
    <3>1. PICK h \in 1..a : P[i] = r[h]
      BY <1>3, <2>2
    <3>2. h \in 1..lr /\ k \in 1..lr /\ h # k
      BY <1>12
    <3> QED
      BY <1>11, <2>1, <3>1, <3>2
  <2>3. CASE i \notin A
    <3>1. old[P[i]].ep \in Eps(new) /\ P[i] \in DOMAIN old
      BY <1>3, <1>9, <2>3
    <3> QED
      BY <1>7, <1>13, <3>1
  <2> QED
    BY <2>2, <2>3
<1>15. ASSUME NEW p \in DOMAIN old
       PROVE  (\E i \in DOMAIN new : P[i] = p) \/ (\E j \in DOMAIN L : L[j] = p)
  <2>1. CASE p \in F
    <3>1. PICK k \in 1..lr : r[k] = p
      BY <1>11, <2>1
    <3>2. CASE k \in 1..a
      BY <1>2, <1>3, <3>1, <3>2
    <3>3. CASE k \in (a + 1)..lr
      BY <1>4, <3>1, <3>3
    <3> QED
      BY <1>12, <3>2, <3>3
  <2>2. CASE p \notin F
    <3>1. PICK i \in DOMAIN new : new[i].ep = old[p].ep
      BY <1>7, <1>9, <2>2
    <3>2. old[p].ep # 0 /\ old[p].ep \in Eps(old)
      BY <1>1, <1>9, <3>1
    <3>3. i \notin A
      BY <1>9, <3>1, <3>2
    <3>4. P[i] \in DOMAIN old /\ old[P[i]].ep = old[p].ep
      BY <1>3, <3>1, <3>3
    <3>5. P[i] = p
      BY <1>9, <3>2, <3>4
    <3> QED
      BY <3>5
  <2> QED
    BY <2>1, <2>2
<1>16. n + l = m
  <2> DEFINE z == [x \in 1..(n + l) |-> IF x <= n THEN P[x] ELSE L[x - n]]
  <2>1. \A i \in 1..n : i \in 1..(n + l) /\ z[i] = P[i]
    BY SMTT(90), <1>1, <1>10
  <2>2. \A j \in 1..l : n + j \in 1..(n + l) /\ z[n + j] = L[j]
    BY SMTT(90), <1>1, <1>10
  <2>3. \A x \in 1..(n + l) : \/ x \in 1..n /\ z[x] = P[x]
                              \/ x - n \in 1..l /\ z[x] = L[x - n] /\ n + (x - n) = x
    BY SMTT(90), <1>1, <1>10
  <2>4. z \in [1..(n + l) -> 1..m]
    <3>1. \A x \in 1..(n + l) : z[x] \in 1..m
      <4> HIDE DEF z
      <4> QED
        BY <1>1, <1>3, <1>8, <1>10, <1>13, <2>3
    <3> QED
      BY <3>1
  <2> HIDE DEF z
  <2>5. ASSUME NEW x \in 1..(n + l), NEW y \in 1..(n + l), z[x] = z[y] PROVE x = y
    <3>1. CASE x \in 1..n /\ z[x] = P[x] /\ y \in 1..n /\ z[y] = P[y]
      BY <1>1, <1>3, <2>5, <3>1
    <3>2. CASE /\ x - n \in 1..l /\ z[x] = L[x - n] /\ n + (x - n) = x
               /\ y - n \in 1..l /\ z[y] = L[y - n] /\ n + (y - n) = y
      <4>1. PICK u \in DOMAIN L, v \in DOMAIN L : u = x - n /\ v = y - n
        BY <1>10, <3>2
      <4>2. L[u] = L[v]
        BY <2>5, <3>2, <4>1
      <4>3. u = v
        BY <1>4, <4>2
      <4> QED
        BY <3>2, <4>1, <4>3
    <3>3. CASE x \in 1..n /\ z[x] = P[x] /\ y - n \in 1..l /\ z[y] = L[y - n]
      BY <1>1, <1>10, <1>14, <2>5, <3>3
    <3>4. CASE y \in 1..n /\ z[y] = P[y] /\ x - n \in 1..l /\ z[x] = L[x - n]
      BY <1>1, <1>10, <1>14, <2>5, <3>4
    <3> QED
      BY <2>3, <3>1, <3>2, <3>3, <3>4
  <2>6. ASSUME NEW p \in 1..m PROVE \E x \in 1..(n + l) : z[x] = p
    BY <1>1, <1>10, <1>15, <2>1, <2>2
  <2>7. z \in Bijection(1..(n + l), 1..m)
    BY <2>4, <2>5, <2>6 DEF Bijection, Injection, Surjection, IsInjective
  <2>8. ASSUME NEW k \in Nat PROVE IsFiniteSet(1..k) /\ Cardinality(1..k) = k
    BY SMTT(90), FS_Interval
  <2>9. ExistsBijection(1..(n + l), 1..m) /\ n + l \in Nat
    BY SMTT(90), <1>1, <1>10, <2>7 DEF ExistsBijection
  <2> QED
    BY SMTT(90), <1>1, <2>8, <2>9, FS_Bijection
<1>17. \A j \in DOMAIN L : L[j] \in DOMAIN old
  BY <1>8, <1>13
<1>18. Divides(old, new, P, L)
  BY <1>14, <1>15, <1>16, <1>17 DEF Divides, n, l, m
<1> QED
  BY <1>18 DEF P, L

\* The n slots of new are on the servers P of old, the l empty ones on L.
Assigns(old, new, P, L, n, l, t) ==
    /\ t \in Seq(Slot) /\ Len(t) = Len(old)
    /\ \A i \in 1..n : /\ t[i].name = old[P[i]].name /\ t[i].ep = new[i].ep
                       /\ t[i].weight = new[i].weight /\ t[i].cookie = new[i].cookie
    /\ \A j \in 1..l : /\ t[n + j].name = old[L[j]].name
                       /\ t[n + j].ep = 0 /\ t[n + j].cookie = FirstSrv + (n + j)
    /\ \A x \in 1..Len(t) : x \in 1..n \/ (x - n \in 1..l /\ n + (x - n) = x)

\* The slots that checkBackendPair leaves: the new endpoints, and the empty ones, on
\* the servers of the slots they take.
LEMMA AssignedOf ==
    ASSUME NEW old, NEW new, Fits(old, new)
    PROVE  Assigns(old, new, Place(old, new), Left(old, new),
                   Len(new), Len(Left(old, new)), Assigned(old, new))
<1> DEFINE P == Place(old, new)
           L == Left(old, new)
           n == Len(new)
           l == Len(L)
           b == [i \in DOMAIN new |-> [new[i] EXCEPT !.name = old[P[i]].name]]
           c == [j \in DOMAIN L |-> [EmptySlot(n + j) EXCEPT !.name = old[L[j]].name]]
           t == Assigned(old, new)
<1>1. /\ SlotsInv(old) /\ SlotsInv(new) /\ FirstSrv \in Nat
      /\ n \in Nat /\ DOMAIN new = 1..n /\ \A i \in DOMAIN new : new[i] \in Slot
      /\ \A i \in DOMAIN old : old[i] \in Slot
  BY SMTT(90), DynUpdateAssumption DEF Fits, SlotsInv
<1>2. P \in [DOMAIN new -> DOMAIN old]
  <2>1. Takes(old, new, Added(old, new), Reusable(old, new), P)
    BY PlaceOf
  <2> HIDE DEF P
  <2> QED
    BY <2>1 DEF Takes
<1>3. L \in Seq(Nat)
  <2>1. Leaves(old, Cardinality(Added(old, new)), Reusable(old, new), Disabled(old, new), L)
    BY LeftOf
  <2> HIDE DEF L
  <2> QED
    BY <2>1 DEF Leaves
<1>4. (\A j \in DOMAIN L : L[j] \in DOMAIN old) /\ n + l = Len(old)
  <2>1. Divides(old, new, P, L)
    BY SlotsTaken
  <2> HIDE DEF P, L
  <2> QED
    BY <2>1 DEF Divides
<1>5. t = b \o c
  <2>1. Placed(old, new) = [i \in DOMAIN new |-> old[P[i]]]
    BY DEF Placed
  <2>2. b = [i \in DOMAIN new |-> [new[i] EXCEPT !.name = Placed(old, new)[i].name]]
    BY <2>1
  <2> QED
    BY <2>2 DEF Assigned
<1> HIDE DEF P, L, t
<1>6. l \in Nat /\ DOMAIN L = 1..l
  BY SMTT(90), <1>3
<1>7. ASSUME NEW i \in 1..n
      PROVE  /\ b[i] \in Slot /\ b[i].name = old[P[i]].name /\ b[i].ep = new[i].ep
             /\ b[i].weight = new[i].weight /\ b[i].cookie = new[i].cookie
  <2>1. new[i] \in Slot /\ old[P[i]] \in Slot /\ i \in DOMAIN new
    BY <1>1, <1>2
  <2> QED
    BY <2>1 DEF Slot
<1>8. ASSUME NEW j \in 1..l
      PROVE  /\ c[j] \in Slot /\ c[j].name = old[L[j]].name /\ c[j].ep = 0
             /\ c[j].cookie = FirstSrv + (n + j)
  <2>1. old[L[j]] \in Slot /\ j \in DOMAIN L
    BY <1>1, <1>4, <1>6
  <2>2. FirstSrv + (n + j) \in Nat \ {0}
    BY SMTT(90), <1>1
  <2> QED
    BY <2>1, <2>2 DEF Slot, EmptySlot, Srv
<1>9. b \in Seq(Slot) /\ c \in Seq(Slot) /\ Len(b) = n /\ Len(c) = l
  <2>1. b \in [1..n -> Slot] /\ c \in [1..l -> Slot]
    BY <1>1, <1>6, <1>7, <1>8
  <2> HIDE DEF b, c, n, l
  <2> QED
    BY SMTT(90), <1>1, <1>6, <2>1
<1> HIDE DEF b, c
<1>10. /\ t \in Seq(Slot) /\ Len(t) = n + l
       /\ \A x \in 1..(n + l) : t[x] = IF x <= n THEN b[x] ELSE c[x - n]
  <2> HIDE DEF n, l
  <2> QED
    BY <1>5, <1>9, ConcatOf
<1> HIDE DEF n, l
<1>11. \A i \in 1..n : t[i] = b[i]
  BY SMTT(90), <1>1, <1>6, <1>10
<1>12. \A j \in 1..l : t[n + j] = c[j]
  BY SMTT(90), <1>1, <1>6, <1>10
<1>13. \A x \in 1..(n + l) : x \in 1..n \/ (x - n \in 1..l /\ n + (x - n) = x)
  BY SMTT(90), <1>1, <1>6
<1>14. /\ \A i \in 1..n : /\ t[i].name = old[P[i]].name /\ t[i].ep = new[i].ep
                          /\ t[i].weight = new[i].weight /\ t[i].cookie = new[i].cookie
       /\ \A j \in 1..l : /\ t[n + j].name = old[L[j]].name
                          /\ t[n + j].ep = 0 /\ t[n + j].cookie = FirstSrv + (n + j)
  BY <1>7, <1>8, <1>11, <1>12
<1>15. Assigns(old, new, P, L, n, l, t)
  BY <1>4, <1>10, <1>13, <1>14 DEF Assigns
<1> QED
  BY <1>15 DEF P, L, t, n, l

\* checkBackendPair keeps the servers of a backend: each name goes to one slot.
LEMMA AssignedInv ==
    ASSUME NEW old, NEW new, Fits(old, new)
    PROVE  SlotsInv(Assigned(old, new)) /\ Names(Assigned(old, new)) = Names(old)
<1> DEFINE P == Place(old, new)
           L == Left(old, new)
           n == Len(new)
           l == Len(L)
           m == Len(old)
           t == Assigned(old, new)
<1>1. /\ SlotsInv(old) /\ SlotsInv(new) /\ FirstSrv \in Nat
      /\ n \in Nat /\ DOMAIN new = 1..n /\ m \in Nat /\ DOMAIN old = 1..m
      /\ \A i \in DOMAIN new : new[i].ep # 0
  BY SMTT(90), DynUpdateAssumption DEF Fits, SlotsInv
<1>2. P \in [1..n -> 1..m] /\ \A i, j \in 1..n : P[i] = P[j] => i = j
  <2>1. Takes(old, new, Added(old, new), Reusable(old, new), P)
    BY PlaceOf
  <2> HIDE DEF P
  <2> QED
    BY <1>1, <2>1 DEF Takes
<1>3. L \in Seq(Nat) /\ \A i, j \in DOMAIN L : L[i] = L[j] => i = j
  <2>1. Leaves(old, Cardinality(Added(old, new)), Reusable(old, new), Disabled(old, new), L)
    BY LeftOf
  <2> HIDE DEF L
  <2> QED
    BY <2>1 DEF Leaves
<1>4. /\ \A j \in DOMAIN L : L[j] \in DOMAIN old
      /\ \A i \in DOMAIN new, j \in DOMAIN L : P[i] # L[j]
      /\ \A p \in DOMAIN old : \/ \E i \in DOMAIN new : P[i] = p
                               \/ \E j \in DOMAIN L : L[j] = p
      /\ n + l = m
  <2>1. Divides(old, new, P, L)
    BY SlotsTaken
  <2> HIDE DEF P, L
  <2> QED
    BY <2>1 DEF Divides
<1>5. /\ t \in Seq(Slot) /\ Len(t) = m
      /\ \A i \in 1..n : /\ t[i].name = old[P[i]].name /\ t[i].ep = new[i].ep
                         /\ t[i].cookie = new[i].cookie
      /\ \A j \in 1..l : /\ t[n + j].name = old[L[j]].name
                         /\ t[n + j].ep = 0 /\ t[n + j].cookie = FirstSrv + (n + j)
      /\ \A x \in 1..Len(t) : x \in 1..n \/ (x - n \in 1..l /\ n + (x - n) = x)
  <2>1. Assigns(old, new, P, L, n, l, t)
    BY AssignedOf
  <2> HIDE DEF P, L, t
  <2> QED
    BY <2>1 DEF Assigns
<1> HIDE DEF P, L, t
<1>6. l \in Nat /\ DOMAIN L = 1..l /\ DOMAIN t = 1..m
  BY SMTT(90), <1>3, <1>5
<1>7. /\ \A i \in 1..m : old[i].name \in Nat /\ old[i].name <= FirstSrv + m
      /\ \A i, j \in 1..m : old[i].name = old[j].name => i = j
  <2>1. /\ \A i \in DOMAIN old : old[i] \in Slot /\ old[i].name <= FirstSrv + m
        /\ \A i, j \in DOMAIN old : old[i].name = old[j].name => i = j
    BY SMTT(90), <1>1 DEF SlotsInv, Srv
  <2>2. \A i \in DOMAIN old : old[i].name \in Nat
    BY <2>1 DEF Slot
  <2> QED
    BY <1>1, <2>1, <2>2
<1>8. /\ \A i, j \in 1..n : new[i].ep = new[j].ep => i = j
      /\ \A i \in 1..n : mode.podUID => new[i].cookie = new[i].ep
  BY <1>1 DEF SlotsInv
<1> HIDE DEF n, l, m
<1> DEFINE z == [x \in 1..m |-> IF x \in 1..n THEN P[x] ELSE L[x - n]]
<1>9. ASSUME NEW x \in 1..m
      PROVE  /\ z[x] \in 1..m /\ t[x].name = old[z[x]].name
             /\ x \in 1..n => z[x] = P[x] /\ t[x].ep = new[x].ep /\ t[x].cookie = new[x].cookie
             /\ x \notin 1..n => /\ x - n \in 1..l /\ z[x] = L[x - n] /\ t[x].ep = 0
                                 /\ t[x].cookie > FirstSrv
  <2>1. CASE x \in 1..n
    BY <1>2, <1>5, <2>1
  <2>2. CASE x \notin 1..n
    <3>1. PICK j \in 1..l : j = x - n /\ n + j = x
      BY <1>5, <2>2
    <3>2. t[x].name = old[L[j]].name /\ t[x].ep = 0 /\ t[x].cookie = FirstSrv + x
      BY <1>5, <3>1
    <3>3. z[x] = L[j] /\ L[j] \in 1..m
      BY <1>1, <1>4, <1>6, <2>2, <3>1
    <3>4. FirstSrv + x > FirstSrv
      BY SMTT(90), <1>1
    <3> QED
      BY <2>2, <3>1, <3>2, <3>3, <3>4
  <2> QED
    BY <2>1, <2>2
<1>10. ASSUME NEW p \in 1..m PROVE \E x \in 1..m : z[x] = p
  <2>1. CASE \E i \in 1..n : P[i] = p
    <3>1. PICK i \in 1..n : P[i] = p
      BY <2>1
    <3>2. i \in 1..m
      BY SMTT(90), <1>1, <1>4, <1>6
    <3> QED
      BY <3>1, <3>2
  <2>2. CASE \E j \in 1..l : L[j] = p
    <3>1. PICK j \in 1..l : L[j] = p
      BY <2>2
    <3>2. n + j \in 1..m /\ n + j \notin 1..n /\ (n + j) - n = j
      BY SMTT(90), <1>1, <1>4, <1>6
    <3>3. z[n + j] = L[j]
      BY <3>2
    <3> QED
      BY <3>1, <3>2, <3>3
  <2> QED
    BY <1>1, <1>4, <1>6, <2>1, <2>2
<1> HIDE DEF z
<1>11. ASSUME NEW x \in 1..m, NEW y \in 1..m, z[x] = z[y] PROVE x = y
  <2>1. CASE x \in 1..n /\ y \in 1..n
    <3>1. P[x] = P[y]
      BY <1>9, <1>11, <2>1
    <3> QED
      BY <1>2, <2>1, <3>1
  <2>2. CASE x \notin 1..n /\ y \notin 1..n
    <3>1. PICK u \in 1..l, v \in 1..l : u = x - n /\ v = y - n
      BY <1>9, <2>2
    <3>2. L[u] = L[v]
      BY <1>9, <1>11, <2>2, <3>1
    <3>3. u = v
      BY <1>3, <1>6, <3>2
    <3> QED
      BY SMTT(90), <1>1, <3>1, <3>3
  <2>3. CASE x \in 1..n /\ y \notin 1..n
    <3>1. PICK v \in 1..l : v = y - n
      BY <1>9, <2>3
    <3>2. P[x] = L[v]
      BY <1>9, <1>11, <2>3, <3>1
    <3> QED
      BY <1>1, <1>4, <1>6, <2>3, <3>2
  <2>4. CASE x \notin 1..n /\ y \in 1..n
    <3>1. PICK v \in 1..l : v = x - n
      BY <1>9, <2>4
    <3>2. P[y] = L[v]
      BY <1>9, <1>11, <2>4, <3>1
    <3> QED
      BY <1>1, <1>4, <1>6, <2>4, <3>2
  <2> QED
    BY <2>1, <2>2, <2>3, <2>4
<1>12. Names(t) = Names(old)
  <2>1. \A x \in 1..m : t[x].name \in Names(old)
    BY SMTT(90), <1>1, <1>9 DEF Names
  <2>2. ASSUME NEW p \in 1..m PROVE old[p].name \in Names(t)
    <3>1. PICK x \in 1..m : z[x] = p
      BY <1>10
    <3>2. t[x].name = old[p].name /\ x \in DOMAIN t
      BY <1>6, <1>9, <3>1
    <3> QED
      BY <3>2 DEF Names
  <2> QED
    BY <1>1, <1>6, <2>1, <2>2 DEF Names
<1>13. ASSUME NEW x \in 1..m PROVE t[x].name <= FirstSrv + m
  <2>1. z[x] \in 1..m /\ t[x].name = old[z[x]].name
    BY <1>9
  <2> QED
    BY <1>7, <2>1
<1>14. \A x, y \in 1..m : t[x].name = t[y].name => x = y
  BY SMTT(90), <1>7, <1>9, <1>11
<1>15. \A x, y \in 1..m : t[x].ep = t[y].ep /\ t[x].ep # 0 => x = y
  BY <1>8, <1>9
<1>16. ASSUME NEW x \in 1..m
       PROVE  IF t[x].ep = 0 THEN t[x].cookie > FirstSrv
              ELSE mode.podUID => t[x].cookie = t[x].ep
  <2>1. CASE x \in 1..n
    <3>1. t[x].ep = new[x].ep /\ t[x].cookie = new[x].cookie
      BY <1>9, <2>1
    <3>2. new[x].ep # 0
      BY <1>1, <2>1
    <3> QED
      BY <1>8, <2>1, <3>1, <3>2
  <2>2. CASE x \notin 1..n
    BY <1>9, <2>2
  <2> QED
    BY <2>1, <2>2
<1>17. SlotsInv(t)
  BY <1>5, <1>6, <1>13, <1>14, <1>15, <1>16 DEF SlotsInv, Srv
<1> QED
  BY <1>12, <1>17 DEF t

\* haproxy loads the servers of the slots, with the cookies of their pods.
LEMMA TableOf ==
    ASSUME NEW s, SlotsInv(s)
    PROVE  /\ Matches(Table(s), s) /\ DOMAIN Table(s) \subseteq Nat
           /\ \A n \in DOMAIN Table(s) :
                 /\ Table(s)[n] \in [ep : Ep \cup {0}, weight : Nat, cookie : Nat]
                 /\ mode.podUID /\ Table(s)[n].ep # 0 => Table(s)[n].cookie = Table(s)[n].ep
<1> DEFINE T == Table(s)
<1>1. /\ \A i \in DOMAIN s : s[i] \in Slot
      /\ \A i, j \in DOMAIN s : s[i].name = s[j].name => i = j
      /\ \A i \in DOMAIN s : mode.podUID /\ s[i].ep # 0 => s[i].cookie = s[i].ep
  BY SMTT(90) DEF SlotsInv
<1>2. DOMAIN T = Names(s)
  BY DEF Table
<1>3. \A i \in DOMAIN s : s[i].name \in Names(s)
  BY DEF Names
<1>4. \A n \in Names(s) : \E i \in DOMAIN s : s[i].name = n
  BY DEF Names
<1>5. ASSUME NEW i \in DOMAIN s
      PROVE  /\ T[s[i].name] \in [ep : Ep \cup {0}, weight : Nat, cookie : Nat]
             /\ T[s[i].name].ep = s[i].ep /\ T[s[i].name].cookie = s[i].cookie
             /\ T[s[i].name].weight = IF s[i].ep # 0 THEN s[i].weight ELSE 0
  <2>1. (CHOOSE k \in DOMAIN s : s[k].name = s[i].name) = i
    BY <1>1
  <2>2. T[s[i].name] = [ep |-> s[i].ep, weight |-> IF s[i].ep # 0 THEN s[i].weight ELSE 0,
                        cookie |-> s[i].cookie]
    BY <1>3, <2>1 DEF Table, Enabled
  <2>3. s[i].ep \in Ep \cup {0} /\ s[i].weight \in Nat /\ s[i].cookie \in Nat
    BY <1>1 DEF Slot
  <2> HIDE DEF T
  <2> QED
    BY SMTT(90), <2>2, <2>3
<1> HIDE DEF T
<1>6. Matches(T, s)
  BY <1>2, <1>5 DEF Matches
<1>7. ASSUME NEW n \in DOMAIN T
      PROVE  /\ n \in Nat /\ T[n] \in [ep : Ep \cup {0}, weight : Nat, cookie : Nat]
             /\ mode.podUID /\ T[n].ep # 0 => T[n].cookie = T[n].ep
  <2>1. PICK i \in DOMAIN s : s[i].name = n
    BY <1>2, <1>4
  <2>2. s[i].name \in Nat
    BY <1>1 DEF Slot
  <2> QED
    BY <1>1, <1>5, <2>1, <2>2
<1> QED
  BY <1>6, <1>7 DEF T

\* The servers of the slots D are disabled, and those of the endpoints E enabled.
Tells(old, new, P, D, E, cmds) ==
    /\ E \subseteq DOMAIN new
    /\ \A j \in DOMAIN D : /\ old[D[j]].name \in DOMAIN cmds
                           /\ cmds[old[D[j]].name].ep = 0 /\ cmds[old[D[j]].name].weight = 0
    /\ \A i \in E : /\ old[P[i]].name \in DOMAIN cmds
                    /\ cmds[old[P[i]].name].ep = new[i].ep
                    /\ cmds[old[P[i]].name].weight = new[i].weight
    /\ \A k \in DOMAIN cmds : \/ \E j \in DOMAIN D : k = old[D[j]].name
                              \/ \E i \in E : k = old[P[i]].name

\* The commands: what execDisableEndpoint is told of the disabled slots, and
\* execEnableEndpoint of the endpoints that changed and were not refused.
LEMMA CommandsOf ==
    ASSUME NEW old, NEW new, Fits(old, new)
    PROVE  Tells(old, new, Place(old, new), Disabled(old, new),
                 Changed(old, new) \ Refused(old, new), Commands(old, new))
<1> DEFINE P == Place(old, new)
           D == Disabled(old, new)
           L == Left(old, new)
           E == Changed(old, new) \ Refused(old, new)
           placed == Placed(old, new)
           X == {old[p].name : p \in Range(D)}
           Y == {placed[i].name : i \in E}
           cmds == Commands(old, new)
<1>1. SlotsInv(old) /\ \A i, j \in DOMAIN old : old[i].name = old[j].name => i = j
  BY DEF Fits, SlotsInv
<1>2. P \in [DOMAIN new -> DOMAIN old] /\ \A i, j \in DOMAIN new : P[i] = P[j] => i = j
  <2>1. Takes(old, new, Added(old, new), Reusable(old, new), P)
    BY PlaceOf
  <2> HIDE DEF P
  <2> QED
    BY <2>1 DEF Takes
<1>3. \A i \in DOMAIN D : \E j \in DOMAIN L : D[i] = L[j]
  <2>1. Leaves(old, Cardinality(Added(old, new)), Reusable(old, new), D, L)
    BY LeftOf
  <2> HIDE DEF D, L
  <2> QED
    BY <2>1 DEF Leaves
<1>4. /\ \A j \in DOMAIN L : L[j] \in DOMAIN old
      /\ \A i \in DOMAIN new, j \in DOMAIN L : P[i] # L[j]
  <2>1. Divides(old, new, P, L)
    BY SlotsTaken
  <2> HIDE DEF P, L
  <2> QED
    BY <2>1 DEF Divides
<1>5. E \subseteq DOMAIN new
  BY DEF Changed
<1>6. \A i \in DOMAIN new : placed[i] = old[P[i]]
  BY DEF Placed
<1>7. cmds = [n \in X \cup Y |->
                 IF n \in X THEN [ep |-> 0, weight |-> 0]
                 ELSE LET i == CHOOSE k \in E : placed[k].name = n
                      IN [ep |-> new[i].ep, weight |-> new[i].weight]]
  BY DEF Commands
<1> HIDE DEF P, D, L, E, placed, cmds
<1>8. X = {old[D[j]].name : j \in DOMAIN D}
  BY DEF Range
<1>9. Y = {old[P[i]].name : i \in E}
  BY SMTT(90), <1>5, <1>6
<1> HIDE DEF X, Y
<1>10. ASSUME NEW j \in DOMAIN D
       PROVE  /\ old[D[j]].name \in DOMAIN cmds
              /\ cmds[old[D[j]].name].ep = 0 /\ cmds[old[D[j]].name].weight = 0
  BY <1>7, <1>8
<1>11. ASSUME NEW i \in E
       PROVE  /\ old[P[i]].name \in DOMAIN cmds
              /\ cmds[old[P[i]].name].ep = new[i].ep /\ cmds[old[P[i]].name].weight = new[i].weight
  <2> DEFINE n == old[P[i]].name
  <2>1. n \in Y /\ i \in DOMAIN new /\ P[i] \in DOMAIN old
    BY <1>2, <1>5, <1>9
  <2>2. n \notin X
    <3>1. ASSUME NEW j \in DOMAIN D, old[D[j]].name = n PROVE FALSE
      <4>1. D[j] = P[i]
        BY <1>1, <1>3, <1>4, <2>1, <3>1
      <4> QED
        BY <1>3, <1>4, <2>1, <4>1
    <3> QED
      BY <1>8, <3>1
  <2>3. (CHOOSE k \in E : placed[k].name = n) = i
    <3>1. placed[i].name = n
      BY <1>6, <2>1
    <3>2. ASSUME NEW k \in E, placed[k].name = n PROVE k = i
      <4>1. k \in DOMAIN new /\ P[k] \in DOMAIN old /\ old[P[k]].name = n
        BY <1>2, <1>5, <1>6, <3>2
      <4>2. P[k] = P[i]
        BY <1>1, <2>1, <4>1
      <4> QED
        BY <1>2, <2>1, <4>1, <4>2
    <3> QED
      BY <3>1, <3>2
  <2> HIDE DEF n
  <2>4. n \in DOMAIN cmds /\ cmds[n] = [ep |-> new[i].ep, weight |-> new[i].weight]
    BY <1>7, <2>1, <2>2, <2>3
  <2>5. cmds[n].ep = new[i].ep /\ cmds[n].weight = new[i].weight
    BY SMTT(90), <2>4
  <2> QED
    BY <2>4, <2>5 DEF n
<1>12. \A n \in DOMAIN cmds : \/ \E j \in DOMAIN D : n = old[D[j]].name
                              \/ \E i \in E : n = old[P[i]].name
  BY <1>7, <1>8, <1>9
<1>13. Tells(old, new, P, D, E, cmds)
  BY <1>5, <1>10, <1>11, <1>12 DEF Tells
<1> QED
  BY <1>13 DEF P, D, E, cmds

\* If every command is sent and none fails, haproxy has what the model has.
LEMMA ExecuteMatches ==
    ASSUME NEW old, NEW new, Fits(old, new), Matches(running, old), Refused(old, new) = {}
    PROVE  Matches(Execute(Commands(old, new), {}, {}), Assigned(old, new))
<1> DEFINE P == Place(old, new)
           D == Disabled(old, new)
           L == Left(old, new)
           E == Changed(old, new)
           cmds == Commands(old, new)
           n == Len(new)
           t == Assigned(old, new)
           x == Execute(cmds, {}, {})
<1>1. /\ SlotsInv(old) /\ \A i, j \in DOMAIN old : old[i].name = old[j].name => i = j
      /\ DOMAIN new = 1..n /\ n \in Nat /\ \A i \in DOMAIN new : new[i].ep # 0
      /\ \A i \in DOMAIN new : new[i] \in Slot
      /\ \A i \in DOMAIN old : old[i] \in Slot
  BY SMTT(90) DEF Fits, SlotsInv
<1>2. P \in [DOMAIN new -> DOMAIN old] /\ \A i, j \in DOMAIN new : P[i] = P[j] => i = j
  <2>1. Takes(old, new, Added(old, new), Reusable(old, new), P)
    BY PlaceOf
  <2> HIDE DEF P
  <2> QED
    BY <2>1 DEF Takes
<1>3. /\ L \in Seq(Nat)
      /\ \A i \in DOMAIN D : \E j \in DOMAIN L : D[i] = L[j]
      /\ \A j \in DOMAIN L : old[L[j]].ep = 0 \/ \E i \in DOMAIN D : D[i] = L[j]
  <2>1. Leaves(old, Cardinality(Added(old, new)), Reusable(old, new), D, L)
    BY LeftOf
  <2> HIDE DEF D, L
  <2> QED
    BY <2>1 DEF Leaves
<1>4. /\ \A j \in DOMAIN L : L[j] \in DOMAIN old
      /\ \A i \in DOMAIN new, j \in DOMAIN L : P[i] # L[j]
  <2>1. Divides(old, new, P, L)
    BY SlotsTaken
  <2> HIDE DEF P, L
  <2> QED
    BY <2>1 DEF Divides
<1>5. /\ E \subseteq DOMAIN new
      /\ \A j \in DOMAIN D : /\ old[D[j]].name \in DOMAIN cmds
                             /\ cmds[old[D[j]].name].ep = 0 /\ cmds[old[D[j]].name].weight = 0
      /\ \A i \in E : /\ old[P[i]].name \in DOMAIN cmds
                      /\ cmds[old[P[i]].name].ep = new[i].ep /\ cmds[old[P[i]].name].weight = new[i].weight
      /\ \A k \in DOMAIN cmds : \/ \E j \in DOMAIN D : k = old[D[j]].name
                                \/ \E i \in E : k = old[P[i]].name
  <2>1. E = E \ Refused(old, new)
    OBVIOUS
  <2>2. Tells(old, new, P, D, E \ Refused(old, new), cmds)
    BY CommandsOf
  <2> HIDE DEF P, D, E, cmds
  <2>3. Tells(old, new, P, D, E, cmds)
    BY <2>1, <2>2
  <2> QED
    BY <2>3 DEF Tells
<1>6. /\ t \in Seq(Slot)
      /\ \A i \in 1..n : /\ t[i].name = old[P[i]].name /\ t[i].ep = new[i].ep
                         /\ t[i].weight = new[i].weight
      /\ \A j \in 1..Len(L) : t[n + j].name = old[L[j]].name /\ t[n + j].ep = 0
      /\ \A k \in 1..Len(t) : k \in 1..n \/ (k - n \in 1..Len(L) /\ n + (k - n) = k)
  <2>1. Assigns(old, new, P, L, n, Len(L), t)
    BY AssignedOf
  <2> HIDE DEF P, L, t
  <2> QED
    BY <2>1 DEF Assigns
<1>7. ASSUME NEW i \in DOMAIN new, i \notin E
      PROVE  new[i].ep = old[P[i]].ep /\ new[i].weight = old[P[i]].weight
  <2>1. new[i] \in Slot /\ old[P[i]] \in Slot
    BY <1>1, <1>2
  <2>2. [new[i] EXCEPT !.name = Placed(old, new)[i].name] = Placed(old, new)[i]
    BY <1>7 DEF Changed
  <2>3. Placed(old, new)[i] = old[P[i]]
    BY DEF Placed
  <2>4. [new[i] EXCEPT !.name = old[P[i]].name] = old[P[i]]
    BY <2>2, <2>3
  <2> HIDE DEF P
  <2>5. /\ [new[i] EXCEPT !.name = old[P[i]].name].ep = new[i].ep
        /\ [new[i] EXCEPT !.name = old[P[i]].name].weight = new[i].weight
    BY <2>1 DEF Slot
  <2> QED
    BY <2>4, <2>5
<1>8. Names(t) = Names(old)
  BY AssignedInv
<1>9. /\ DOMAIN running = Names(old)
      /\ \A i \in DOMAIN old : /\ running[old[i].name].ep = old[i].ep
                               /\ running[old[i].name].weight = IF old[i].ep # 0 THEN old[i].weight ELSE 0
  BY DEF Matches
<1>10. /\ DOMAIN x = DOMAIN running
       /\ \A k \in DOMAIN running :
             /\ k \in DOMAIN cmds => x[k].ep = cmds[k].ep /\ x[k].weight = cmds[k].weight
             /\ k \notin DOMAIN cmds => x[k] = running[k]
  BY DEF Execute
<1>11. \A i \in DOMAIN old : old[i].name \in DOMAIN running
  BY <1>9 DEF Names
<1> HIDE DEF P, D, L, E, cmds, t, x
<1>12. Len(L) \in Nat /\ DOMAIN L = 1..Len(L) /\ DOMAIN t = 1..Len(t)
  BY SMTT(90), <1>3, <1>6
<1> HIDE DEF n
<1>13. ASSUME NEW i \in DOMAIN new
       PROVE  x[old[P[i]].name].ep = new[i].ep /\ x[old[P[i]].name].weight = new[i].weight
  <2>1. P[i] \in DOMAIN old
    BY <1>2
  <2>2. CASE i \in E
    BY <1>5, <1>10, <1>11, <2>1, <2>2
  <2>3. CASE i \notin E
    <3>1. old[P[i]].name \notin DOMAIN cmds
      <4>1. ASSUME NEW j \in DOMAIN D, old[P[i]].name = old[D[j]].name PROVE FALSE
        <5>1. PICK k \in DOMAIN L : D[j] = L[k]
          BY <1>3
        <5> QED
          BY <1>1, <1>4, <2>1, <4>1, <5>1
      <4>2. ASSUME NEW k \in E, old[P[i]].name = old[P[k]].name PROVE FALSE
        <5>1. P[k] \in DOMAIN old /\ k \in DOMAIN new
          BY <1>2, <1>5
        <5> QED
          BY <1>1, <1>2, <2>1, <2>3, <4>2, <5>1
      <4> QED
        BY <1>5, <4>1, <4>2
    <3>2. new[i].ep = old[P[i]].ep /\ new[i].weight = old[P[i]].weight /\ new[i].ep # 0
      BY <1>1, <1>7, <2>3
    <3> QED
      BY <1>9, <1>10, <1>11, <2>1, <3>1, <3>2
  <2> QED
    BY <2>2, <2>3
<1>14. ASSUME NEW j \in DOMAIN L
       PROVE  x[old[L[j]].name].ep = 0 /\ x[old[L[j]].name].weight = 0
  <2>1. L[j] \in DOMAIN old
    BY <1>4
  <2>2. CASE \E i \in DOMAIN D : D[i] = L[j]
    BY SMTT(90), <1>5, <1>10, <1>11, <2>1, <2>2
  <2>3. CASE ~\E i \in DOMAIN D : D[i] = L[j]
    <3>1. old[L[j]].name \notin DOMAIN cmds
      <4>1. ASSUME NEW i \in DOMAIN D, old[L[j]].name = old[D[i]].name PROVE FALSE
        <5>1. D[i] \in DOMAIN old
          BY <1>3, <1>4
        <5> QED
          BY <1>1, <2>1, <2>3, <4>1, <5>1
      <4>2. ASSUME NEW k \in E, old[L[j]].name = old[P[k]].name PROVE FALSE
        <5>1. P[k] \in DOMAIN old /\ k \in DOMAIN new
          BY <1>2, <1>5
        <5> QED
          BY <1>1, <1>4, <2>1, <4>2, <5>1
      <4> QED
        BY <1>5, <4>1, <4>2
    <3>2. old[L[j]].ep = 0
      BY <1>3, <2>3
    <3> QED
      BY <1>9, <1>10, <1>11, <2>1, <3>1, <3>2
  <2> QED
    BY <2>2, <2>3
<1>15. ASSUME NEW k \in DOMAIN t
       PROVE  /\ x[t[k].name].ep = t[k].ep
              /\ x[t[k].name].weight = IF t[k].ep # 0 THEN t[k].weight ELSE 0
  <2>1. CASE k \in 1..n
    BY <1>1, <1>6, <1>13, <2>1
  <2>2. CASE k \notin 1..n
    <3>1. PICK j \in 1..Len(L) : n + j = k
      BY <1>6, <1>12, <2>2
    <3>2. t[k].name = old[L[j]].name /\ t[k].ep = 0
      BY <1>6, <3>1
    <3> QED
      BY <1>12, <1>14, <3>2
  <2> QED
    BY <2>1, <2>2
<1>16. Matches(x, t)
  BY <1>8, <1>9, <1>10, <1>15 DEF Matches
<1> QED
  BY <1>16 DEF x, t, cmds

\* Whatever commands fail, the servers keep their types and, where they are to be
\* preserved, the cookies of their endpoints.
LEMMA ExecuteCookies ==
    ASSUME NEW old, NEW new, Fits(old, new), mode \in Mode, NEW failed, NEW half,
           \A k \in DOMAIN running :
              running[k] \in [ep : Ep \cup {0}, weight : Nat, cookie : Nat]
    PROVE  LET x == Execute(Commands(old, new), failed, half)
           IN /\ DOMAIN x = DOMAIN running
              /\ \A k \in DOMAIN x : x[k] \in [ep : Ep \cup {0}, weight : Nat, cookie : Nat]
              /\ Matches(running, old) /\ CookiesPreserved /\ mode.preserve /\ mode.podUID
                    /\ ~mode.delayed
                 => \A k \in DOMAIN x : x[k].ep # 0 => x[k].cookie = x[k].ep
<1> DEFINE P == Place(old, new)
           D == Disabled(old, new)
           E == Changed(old, new) \ Refused(old, new)
           cmds == Commands(old, new)
           x == Execute(cmds, failed, half)
<1>1. /\ \A i \in DOMAIN new : new[i] \in Slot /\ new[i].ep # 0
      /\ \A i \in DOMAIN new : mode.podUID => new[i].cookie = new[i].ep
      /\ \A i \in DOMAIN old : IF old[i].ep = 0 THEN old[i].cookie > FirstSrv
                               ELSE mode.podUID => old[i].cookie = old[i].ep
      /\ FirstSrv \in Nat /\ Ep \subseteq 1..FirstSrv
  BY SMTT(90), DynUpdateAssumption DEF Fits, SlotsInv
<1>2. P \in [DOMAIN new -> DOMAIN old]
  <2>1. Takes(old, new, Added(old, new), Reusable(old, new), P)
    BY PlaceOf
  <2> HIDE DEF P
  <2> QED
    BY <2>1 DEF Takes
<1>3. /\ E \subseteq DOMAIN new
      /\ \A j \in DOMAIN D : cmds[old[D[j]].name].ep = 0 /\ cmds[old[D[j]].name].weight = 0
      /\ \A i \in E : cmds[old[P[i]].name].ep = new[i].ep /\ cmds[old[P[i]].name].weight = new[i].weight
      /\ \A k \in DOMAIN cmds : \/ \E j \in DOMAIN D : k = old[D[j]].name
                                \/ \E i \in E : k = old[P[i]].name
  <2>1. Tells(old, new, P, D, E, cmds)
    BY CommandsOf
  <2> HIDE DEF P, D, E, cmds
  <2> QED
    BY <2>1 DEF Tells
<1>4. ASSUME NEW i \in E PROVE mode.preserve => new[i].cookie = old[P[i]].cookie
  BY DEF Refused, Placed, Changed
<1>5. /\ DOMAIN x = DOMAIN running
      /\ \A k \in DOMAIN running :
            \/ x[k] = running[k]
            \/ /\ k \in DOMAIN cmds
               /\ x[k] = [ep |-> cmds[k].ep,
                          weight |-> IF k \in half THEN running[k].weight ELSE cmds[k].weight,
                          cookie |-> running[k].cookie]
  BY DEF Execute
<1> HIDE DEF P, D, E, cmds, x
<1>6. ASSUME NEW i \in DOMAIN new
      PROVE  new[i].ep \in Ep /\ new[i].weight \in Nat
  BY <1>1 DEF Slot
<1>7. ASSUME NEW k \in DOMAIN cmds
      PROVE  cmds[k].ep \in Ep \cup {0} /\ cmds[k].weight \in Nat
  <2>1. CASE \E j \in DOMAIN D : k = old[D[j]].name
    BY SMTT(90), <1>3, <2>1
  <2>2. CASE \E i \in E : k = old[P[i]].name
    BY SMTT(90), <1>3, <1>6, <2>2
  <2> QED
    BY <1>3, <2>1, <2>2
<1>8. \A k \in DOMAIN x : x[k] \in [ep : Ep \cup {0}, weight : Nat, cookie : Nat]
  BY SMTT(90), <1>5, <1>7
<1>9. ASSUME Matches(running, old), CookiesPreserved, mode.preserve, mode.podUID, ~mode.delayed,
             NEW k \in DOMAIN x, x[k].ep # 0
      PROVE  x[k].cookie = x[k].ep
  <2>1. \A h \in DOMAIN running : running[h].ep # 0 => running[h].cookie = running[h].ep
    BY <1>9 DEF CookiesPreserved
  <2>2. CASE x[k] = running[k]
    BY <1>5, <1>9, <2>1, <2>2
  <2>3. CASE /\ k \in DOMAIN cmds
             /\ x[k] = [ep |-> cmds[k].ep,
                        weight |-> IF k \in half THEN running[k].weight ELSE cmds[k].weight,
                        cookie |-> running[k].cookie]
    <3>1. cmds[k].ep # 0 /\ x[k].ep = cmds[k].ep /\ x[k].cookie = running[k].cookie
      BY SMTT(90), <1>9, <2>3
    <3>2. PICK i \in E : k = old[P[i]].name
      BY <1>3, <2>3, <3>1
    <3>3. i \in DOMAIN new /\ P[i] \in DOMAIN old /\ cmds[k].ep = new[i].ep
      BY <1>2, <1>3, <3>2
    <3>4. new[i].ep = new[i].cookie /\ new[i].cookie = old[P[i]].cookie
      BY <1>1, <1>4, <1>9, <3>3
    <3>5. new[i].ep <= FirstSrv /\ new[i].ep \in Nat
      <4>1. new[i].ep \in 1..FirstSrv
        BY <1>1, <1>6, <3>3
      <4> QED
        BY SMTT(90), <1>1, <4>1
    <3>6. old[P[i]].ep # 0 /\ old[P[i]].cookie = old[P[i]].ep
      BY SMTT(90), <1>1, <1>9, <3>3, <3>4, <3>5
    <3>7. running[k].ep = old[P[i]].ep
      BY <1>9, <3>2, <3>3 DEF Matches
    <3> QED
      BY <1>5, <2>1, <3>1, <3>3, <3>4, <3>6, <3>7
  <2> QED
    BY <1>5, <2>2, <2>3
<1> QED
  BY <1>5, <1>8, <1>9 DEF x, cmds

-----------------------------------------------------------------------------
(* The invariant.                                                          *)

\* Nothing is committed, and haproxy has no server of the backend.
LEMMA InitInv ==
    ASSUME Init
    PROVE  IInv
<1>1. model = <<>> /\ mode \in Mode /\ hasCommit = FALSE /\ reload = FALSE /\ running = Table(model)
  BY DEF Init
<1>2. DOMAIN model = {} /\ model \in Seq(Slot)
  BY SMTT(90), <1>1
<1>3. SlotsInv(model)
  BY <1>2 DEF SlotsInv
<1>4. /\ Matches(Table(model), model) /\ DOMAIN Table(model) \subseteq Nat
      /\ \A n \in DOMAIN Table(model) :
            Table(model)[n] \in [ep : Ep \cup {0}, weight : Nat, cookie : Nat]
  BY <1>3, TableOf
<1>5. DOMAIN Table(model) = {}
  BY <1>2 DEF Table, Names
<1>6. CookiesPreserved
  BY <1>1, <1>5 DEF CookiesPreserved
<1> QED
  BY <1>1, <1>3, <1>4, <1>6 DEF IInv

\* Shrink puts the old backend back, and a reload for another reason aligns it.
LEMMA UnchangedInv ==
    ASSUME IInv, NEW new \in Synced, NEW other \in BOOLEAN, Unchanged(new, other)
    PROVE  IInv'
<1>1. /\ mode \in Mode /\ SlotsInv(model) /\ mode' = mode /\ hasCommit' = hasCommit
      /\ running' = running /\ reload' = (reload \/ other)
  BY DEF IInv, Unchanged
<1>2. SlotsInv(model')
  <2>1. CASE model' = model
    BY <1>1, <2>1
  <2>2. SlotsInv(alignSlots(model))
    BY <1>1, AlignInv
  <2>3. CASE model' \in Ordered(alignSlots(model), FALSE)
    <3>1. model' \in Orders(alignSlots(model))
      BY <1>1, <2>2, <2>3, OrderedOrders
    <3> QED
      BY <2>2, <3>1, OrdersInv
  <2>4. model' = model \/ model' = alignSlots(model) \/ model' \in Ordered(alignSlots(model), FALSE)
    BY DEF Unchanged
  <2> QED
    BY <2>1, <2>2, <2>3, <2>4
<1>3. SlotsInv(model)'
  BY <1>1, <1>2 DEF SlotsInv
<1>4. ~reload' => model' = model /\ ~reload
  BY <1>1 DEF Unchanged
<1>5. (~reload => Matches(running, model))'
  BY <1>1, <1>4 DEF IInv, Matches
<1>6. CookiesPreserved'
  BY <1>1 DEF IInv, CookiesPreserved
<1>7. reload' \in BOOLEAN
  BY <1>1
<1> QED
  BY <1>1, <1>3, <1>5, <1>6, <1>7 DEF IInv

\* An update over the admin socket, whatever commands fail.
LEMMA ApplyInv ==
    ASSUME IInv, NEW new \in Synced, NEW other \in BOOLEAN,
           NEW failed, NEW half \in SUBSET failed,
           Apply(new, Commands(model, new), failed, half, other)
    PROVE  IInv'
<1> DEFINE cmds == Commands(model, new)
           slots == Assigned(model, new)
           ok == /\ failed = {} /\ DOMAIN cmds \subseteq DOMAIN running
                 /\ ~Labels(model, new) /\ Refused(model, new) = {} /\ ~other
<1>1. /\ mode \in Mode /\ SlotsInv(model) /\ mode' = mode /\ hasCommit' = hasCommit
      /\ running' = Execute(cmds, failed, half) /\ reload' = (reload \/ ~ok)
      /\ model' \in Ordered(IF ok THEN slots ELSE alignSlots(slots), ok)
      /\ (~reload \/ mode.delayed) /\ Len(new) <= Len(model)
      /\ reload \in BOOLEAN /\ hasCommit \in BOOLEAN
  BY DEF IInv, Apply
<1>2. ok \in BOOLEAN /\ (ok => failed = {} /\ Refused(model, new) = {})
  OBVIOUS
<1> HIDE DEF cmds, slots, ok
<1>3. Fits(model, new)
  BY <1>1, SyncedInv DEF Fits
<1>4. SlotsInv(slots)
  BY <1>3, AssignedInv DEF slots
<1>5. SlotsInv(alignSlots(slots))
  BY <1>1, <1>4, AlignInv
<1>6. /\ SlotsInv(model')
      /\ ok => \A table : Matches(table, slots) => Matches(table, model')
  <2>1. CASE ok
    <3>1. model' \in Orders(slots)
      <4>1. model' \in Ordered(IF ok THEN slots ELSE alignSlots(slots), ok) /\ ok = TRUE
        BY <1>1, <1>2, <2>1
      <4>2. model' \in Ordered(slots, TRUE)
        BY <4>1
      <4> QED
        BY <1>1, <1>4, <4>2, OrderedOrders
    <3> QED
      BY <1>4, <3>1, OrdersInv
  <2>2. CASE ~ok
    <3>1. model' \in Orders(alignSlots(slots))
      <4>1. model' \in Ordered(IF ok THEN slots ELSE alignSlots(slots), ok) /\ ok = FALSE
        BY <1>1, <1>2, <2>2
      <4>2. model' \in Ordered(alignSlots(slots), FALSE)
        BY <4>1
      <4> QED
        BY <1>1, <1>5, <4>2, OrderedOrders
    <3>2. SlotsInv(model')
      BY <1>5, <3>1, OrdersInv
    <3> QED
      BY <2>2, <3>2
  <2> QED
    BY <2>1, <2>2
<1>7. SlotsInv(model)'
  BY <1>1, <1>6 DEF SlotsInv
<1>8. /\ DOMAIN running \subseteq Nat
      /\ \A k \in DOMAIN running : running[k] \in [ep : Ep \cup {0}, weight : Nat, cookie : Nat]
      /\ ~reload => Matches(running, model)
      /\ CookiesPreserved
  BY DEF IInv
<1>9. /\ DOMAIN running' = DOMAIN running
      /\ \A k \in DOMAIN running' :
            running'[k] \in [ep : Ep \cup {0}, weight : Nat, cookie : Nat]
      /\ Matches(running, model) /\ CookiesPreserved /\ mode.preserve /\ mode.podUID
            /\ ~mode.delayed
         => \A k \in DOMAIN running' : running'[k].ep # 0 => running'[k].cookie = running'[k].ep
  <2> DEFINE x == Execute(cmds, failed, half)
  <2>1. /\ DOMAIN x = DOMAIN running
        /\ \A k \in DOMAIN x : x[k] \in [ep : Ep \cup {0}, weight : Nat, cookie : Nat]
        /\ Matches(running, model) /\ CookiesPreserved /\ mode.preserve /\ mode.podUID
              /\ ~mode.delayed
           => \A k \in DOMAIN x : x[k].ep # 0 => x[k].cookie = x[k].ep
    BY <1>1, <1>3, <1>8, ExecuteCookies DEF cmds
  <2>2. running' = x
    BY <1>1
  <2> HIDE DEF x
  <2> QED
    BY <2>1, <2>2
<1>10. CookiesPreserved'
  BY <1>1, <1>8, <1>9 DEF CookiesPreserved
<1>11. ASSUME ~reload' PROVE Matches(running, model)'
  <2>1. ok /\ ~reload
    BY <1>1, <1>11
  <2>2. half = {} /\ failed = {} /\ Refused(model, new) = {}
    BY <1>2, <2>1
  <2>3. Matches(Execute(cmds, {}, {}), slots)
    BY <1>3, <1>8, <2>1, <2>2, ExecuteMatches DEF cmds, slots
  <2>4. Matches(running', slots)
    BY <1>1, <2>2, <2>3
  <2>5. Matches(running', model')
    BY <1>6, <2>1, <2>4
  <2> QED
    BY <2>5 DEF Matches
<1>12. reload' \in BOOLEAN
  BY <1>1
<1> QED
  BY <1>1, <1>7, <1>8, <1>9, <1>10, <1>11, <1>12 DEF IInv

\* A backend of other slots waits for the reload.
LEMMA ReplaceInv ==
    ASSUME IInv, NEW new \in Synced, Replace(new)
    PROVE  IInv'
<1>1. /\ mode \in Mode /\ mode' = mode /\ hasCommit' = TRUE /\ running' = running
      /\ reload' = TRUE /\ model' \in Ordered(alignSlots(new), FALSE)
  BY DEF IInv, Replace
<1>2. SlotsInv(alignSlots(new))
  BY <1>1, SyncedInv, AlignInv
<1>3. model' \in Orders(alignSlots(new))
  BY <1>1, <1>2, OrderedOrders
<1>4. SlotsInv(model')
  BY <1>2, <1>3, OrdersInv
<1>5. SlotsInv(model)'
  BY <1>1, <1>4 DEF SlotsInv
<1>6. CookiesPreserved'
  BY <1>1 DEF IInv, CookiesPreserved
<1> QED
  BY <1>1, <1>5, <1>6 DEF IInv

\* haproxy has the servers of the model after it loads the configuration.
LEMMA ReloadInv ==
    ASSUME IInv, Reload
    PROVE  IInv'
<1>1. /\ mode \in Mode /\ SlotsInv(model) /\ mode' = mode /\ hasCommit' = hasCommit
      /\ running' = Table(model) /\ reload' = FALSE /\ model' = model
  BY DEF IInv, Reload
<1> DEFINE T == Table(model)
<1>2. /\ Matches(T, model) /\ DOMAIN T \subseteq Nat
      /\ \A n \in DOMAIN T :
            /\ T[n] \in [ep : Ep \cup {0}, weight : Nat, cookie : Nat]
            /\ mode.podUID /\ T[n].ep # 0 => T[n].cookie = T[n].ep
  BY <1>1, TableOf
<1>3. running' = T
  BY <1>1
<1> HIDE DEF T
<1>4. SlotsInv(model)'
  BY <1>1 DEF SlotsInv
<1>5. Matches(running, model)'
  BY <1>1, <1>2, <1>3 DEF Matches
<1>6. CookiesPreserved'
  BY <1>1, <1>2, <1>3 DEF CookiesPreserved
<1> QED
  BY <1>1, <1>2, <1>3, <1>4, <1>5, <1>6 DEF IInv

\* Every step keeps the invariant.
LEMMA NextInv ==
    ASSUME IInv, [Next]_vars
    PROVE  IInv'
<1>1. ASSUME NEW new \in Synced, NEW other \in BOOLEAN, Unchanged(new, other)
      PROVE  IInv'
  BY <1>1, UnchangedInv
<1>2. ASSUME NEW new \in {n \in Synced : Len(n) <= Len(model)}, NEW other \in BOOLEAN,
             NEW failed \in SUBSET (IF other THEN {} ELSE DOMAIN Commands(model, new)),
             NEW half \in SUBSET failed,
             Apply(new, Commands(model, new), failed, half, other)
      PROVE  IInv'
  <2>1. new \in Synced
    OBVIOUS
  <2> QED
    BY <1>2, <2>1, ApplyInv
<1>3. ASSUME NEW new \in Synced, Replace(new)
      PROVE  IInv'
  BY <1>3, ReplaceInv
<1>4. CASE Reload
  BY <1>4, ReloadInv
<1>5. CASE UNCHANGED vars
  BY <1>5 DEF vars, IInv, SlotsInv, Matches, CookiesPreserved
<1> QED
  BY <1>1, <1>2, <1>3, <1>4, <1>5 DEF Next

\* The slots of the committed backend always have distinct servers and endpoints;
\* without a reload due haproxy has what they have.
THEOREM IInvHolds == Spec => []IInv
<1>1. Init => IInv
  BY InitInv
<1>2. IInv /\ [Next]_vars => IInv'
  BY NextInv
<1> QED
  BY <1>1, <1>2, PTL DEF Spec

\* The slots and the servers keep their types.
THEOREM TypeCorrect == Spec => []TypeOK
<1>1. IInv => TypeOK
  BY DEF IInv, TypeOK, SlotsInv
<1> QED
  BY <1>1, IInvHolds, PTL

\* Two slots never share a server name: haproxy accepts the backend.
THEOREM UniqueNamesCorrect == Spec => []UniqueNames
<1>1. ASSUME IInv PROVE UniqueNames
  <2> DEFINE N == Len(model)
             f == [i \in 1..N |-> model[i].name]
  <2>1. /\ N \in Nat /\ DOMAIN model = 1..N
        /\ \A i, j \in DOMAIN model : model[i].name = model[j].name => i = j
    BY SMTT(90), <1>1 DEF IInv, SlotsInv
  <2> HIDE DEF N
  <2>2. f \in Bijection(1..N, Names(model))
    BY <2>1 DEF Names, Bijection, Injection, Surjection, IsInjective
  <2>3. ExistsBijection(1..N, Names(model))
    BY <2>2 DEF ExistsBijection
  <2>4. IsFiniteSet(1..N) /\ Cardinality(1..N) = N
    BY SMTT(90), <2>1, FS_Interval
  <2>5. Cardinality(1..N) = Cardinality(Names(model))
    BY <2>3, <2>4, FS_Bijection
  <2> QED
    BY <2>4, <2>5 DEF UniqueNames, N
<1> QED
  BY <1>1, IInvHolds, PTL

\* Once no reload is due, haproxy balances over exactly the endpoints of the model.
THEOREM ConvergedCorrect == Spec => []Converged
<1>1. ASSUME IInv PROVE Converged
  <2>1. SlotsInv(model) /\ (~reload => Matches(running, model))
    BY <1>1 DEF IInv
  <2>2. Matches(Table(model), model)
    BY <2>1, TableOf
  <2>3. ASSUME ~reload, NEW n \in Names(model)
        PROVE  running[n].ep = Table(model)[n].ep /\ running[n].weight = Table(model)[n].weight
    <3>1. PICK i \in DOMAIN model : model[i].name = n
      BY DEF Names
    <3> QED
      BY <2>1, <2>2, <2>3, <3>1 DEF Matches
  <2>4. ~reload => DOMAIN running = Names(model)
    BY <2>1 DEF Matches
  <2> QED
    BY <2>3, <2>4 DEF Converged
<1> QED
  BY <1>1, IInvHolds, PTL

\* Dynamic updates never move a session's cookie to the server of another pod.
THEOREM CookiesPreservedCorrect == Spec => []CookiesPreserved
<1>1. IInv => CookiesPreserved
  BY DEF IInv
<1> QED
  BY <1>1, IInvHolds, PTL

=============================================================================
