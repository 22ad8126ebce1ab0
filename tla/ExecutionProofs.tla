--------------------------- MODULE ExecutionProofs --------------------------
(***************************************************************************)
(* Proofs about what the CPU thread relies on while it runs guest code     *)
(* (Execution), for every page table, TLB, set of BATs, MTS cache and size *)
(* of memory: the MTS caches of both processors implement a stale cache of *)
(* the address translation (ppc32_mem.c, mips64_mem.c, mips64_cp0.c,       *)
(* mips_mts.c), and loads and stores move the bytes they name (mips_mts.c, *)
(* ppc32_mem.c, ppc32_exec.c).                                             *)
(***************************************************************************)
EXTENDS Execution, SequenceTheorems, WellFoundedInduction, TLAPS

-----------------------------------------------------------------------------
(* Arithmetic.                                                             *)

\* A product grows by a whole factor.
LEMMA Times ==
  ASSUME NEW b \in Nat, NEW p \in Nat, NEW q \in Nat, q < p
  PROVE  b * q + b <= b * p
<1>1. PICK d \in Nat : p = q + 1 + d OBVIOUS
<1>2. b * p = b * q + b + b * d BY <1>1
<1>3. b * d \in Nat /\ b * q \in Nat OBVIOUS
<1> QED BY <1>2, <1>3

\* Quotient and remainder,
LEMMA DivMod ==
  ASSUME NEW a \in Nat, NEW b \in Nat, b > 0
  PROVE  a \div b \in Nat /\ (a % b) \in 0 .. (b - 1) /\ a = b * (a \div b) + (a % b)
OBVIOUS

\* and there are no others.
LEMMA DivModUnique ==
  ASSUME NEW a \in Nat, NEW b \in Nat, b > 0, NEW q \in Nat, NEW r \in 0 .. (b - 1), a = b * q + r
  PROVE  q = a \div b /\ r = (a % b)
<1>1. a \div b \in Nat /\ (a % b) \in 0 .. (b - 1) /\ a = b * (a \div b) + (a % b) BY DivMod
<1> DEFINE p == a \div b  m == a % b
<1> HIDE DEF p, m
<1>2. p \in Nat /\ m \in 0 .. (b - 1) /\ b * p + m = b * q + r BY <1>1 DEF p, m
<1>3. b * p \in Nat /\ b * q \in Nat BY <1>2
<1>4. ~ q < p
  <2> SUFFICES ASSUME q < p PROVE FALSE OBVIOUS
  <2>1. b * q + b <= b * p BY <1>2, Times
  <2> QED BY <2>1, <1>2, <1>3
<1>5. ~ p < q
  <2> SUFFICES ASSUME p < q PROVE FALSE OBVIOUS
  <2>1. b * p + b <= b * q BY <1>2, Times
  <2> QED BY <2>1, <1>2, <1>3
<1>6. p = q BY <1>2, <1>4, <1>5
<1>7. m = r
  <2> DEFINE x == b * q
  <2>1. x \in Nat /\ x + m = x + r BY <1>2, <1>3, <1>6
  <2> HIDE DEF x
  <2> QED BY <2>1, <1>2
<1> QED BY <1>6, <1>7 DEF p, m

\* The multiple of n at or below a is x exactly if a is one of the n pages from
\* x on, where x is a multiple itself.
LEMMA BaseRange ==
  ASSUME NEW a \in Nat, NEW n \in Nat, n > 0, NEW k \in Nat
  PROVE  n * k = a - (a % n) <=> n * k <= a /\ a < n * k + n
<1>1. a \div n \in Nat /\ (a % n) \in 0 .. (n - 1) /\ a = n * (a \div n) + (a % n) BY DivMod
<1>2. n * k \in Nat OBVIOUS
<1>3. ASSUME n * k = a - (a % n) PROVE n * k <= a /\ a < n * k + n BY <1>1, <1>2, <1>3
<1>4. ASSUME n * k <= a, a < n * k + n PROVE n * k = a - (a % n)
  <2> DEFINE r == a - n * k
  <2>1. r \in 0 .. (n - 1) /\ a = n * k + r BY <1>2, <1>4
  <2> HIDE DEF r
  <2>2. r = (a % n) BY <2>1, DivModUnique
  <2> QED BY <1>2, <2>1, <2>2
<1> QED BY <1>3, <1>4

\* A set of numbers has a least one.
LEMMA LeastNat ==
  ASSUME NEW S, S \subseteq Nat, S # {}
  PROVE  \E x \in S : \A y \in S : x <= y
<1> DEFINE R == {ss \in Nat \X Nat : ss[1] < ss[2]}
<1>1. IsWellFoundedOn(R, Nat)
  BY NatLessThanWellFounded DEF OpToRel
<1> HIDE DEF R
<1>2. \E x \in S : \A y \in S : ~ (<<y, x>> \in R)
  BY <1>1, WFMin
<1>3. PICK x \in S : \A y \in S : ~ (<<y, x>> \in R)
  BY <1>2
<1>4. ASSUME NEW y \in S PROVE x <= y
  <2>1. <<y, x>> \in Nat \X Nat /\ ~ (<<y, x>>[1] < <<y, x>>[2])
    BY <1>3 DEF R
  <2> QED
    BY <2>1
<1> QED
  BY <1>4

-----------------------------------------------------------------------------
(* The address translation of a PowerPC.                                   *)

\* An entry e of group g is for the page and the segment of m.
IsOf(e, g, m) ==
  /\ e.key = PM!Key(m[2], m[1], e.key.h)
  /\ PM!Group(m[2], m[1]) = (IF e.key.h = 0 THEN g ELSE 1 - g)

\* The page table says what it was made to say: each entry is of a mapping, and
\* each mapping has one.
PteOK(pt, mp) ==
  /\ pt \in [{0, 1} -> [1..PtegSize -> PM!Pte \cup {None}]]
  /\ mp \in [DOMAIN mp -> Nat] /\ DOMAIN mp \subseteq Page \X Nat
  /\ \A g \in {0, 1}, i \in 1..PtegSize :
        pt[g][i] # None => \E m \in DOMAIN mp : IsOf(pt[g][i], g, m) /\ pt[g][i].p = mp[m]
  /\ \A m \in DOMAIN mp : \E g \in {0, 1}, i \in 1..PtegSize : pt[g][i] # None /\ IsOf(pt[g][i], g, m)
  /\ \A m \in DOMAIN mp, g1, g2 \in {0, 1}, i1, i2 \in 1..PtegSize :
        /\ pt[g1][i1] # None /\ IsOf(pt[g1][i1], g1, m)
        /\ pt[g2][i2] # None /\ IsOf(pt[g2][i2], g2, m)
        => g1 = g2 /\ i1 = i2

\* No page of a process is in the TLB of a 405 twice.
Tlb405 == {PM!NoTlb} \cup [v : Page, len : {1}, p : Nat, tid : Nat]
TlbOK(t) ==
  /\ t \in [1..TlbSize -> Tlb405]
  /\ \A i, k \in 1..TlbSize : t[i].v # None /\ t[i].v = t[k].v /\ t[i].tid = t[k].tid => i = k

RegsOK ==
  /\ family \in {"classic", "405"}
  /\ msr \in [ir : BOOLEAN, dr : BOOLEAN, pr : BOOLEAN]
  /\ bat \in [PM!Cid -> [1..1 -> Bats \cup {PM!NoBat}]]
  /\ sr \in [{v \div SegSize : v \in Page} -> Nat]
  /\ pid \in Nat

\* An MTS cache has an entry for each bucket.
MtsShape == mts = [cid \in PM!Cid |-> [b \in MtsBucket |-> mts[cid][b]]]

PpcMmuInv == RegsOK /\ TlbOK(tlb) /\ PteOK(pteg, mapped) /\ MtsShape

LEMMA MinIn == ASSUME NEW S, S \subseteq Nat, S # {} PROVE PM!Min(S) \in S
BY LeastNat DEF PM!Min

\* The one BAT of an access covers a page exactly if its base is that of the page.
LEMMA BatCovers ==
  ASSUME PM!PpcMmuAssumption, NEW b \in Bats \cup {PM!NoBat}, NEW v \in Page
  PROVE  b.bepi = PM!Base(v, b.len) <=> v \in b.bepi..(b.bepi + b.len - 1)
<1>1. v \in Nat BY DEF PM!PpcMmuAssumption
<1>2. b.len \in Nat /\ b.len > 0 /\ b.bepi \in Nat /\ b.bepi % b.len = 0
  <2>1. b \in Bats => /\ b \in [vs : BOOLEAN, vp : BOOLEAN, bepi : Nat, len : Nat \ {0}, brpn : Nat]
                      /\ b.bepi % b.len = 0
    BY DEF PM!PpcMmuAssumption
  <2>2. b = PM!NoBat => b.len = 1 /\ b.bepi = 0 BY DEF PM!NoBat
  <2>3. 0 % 1 = 0 OBVIOUS
  <2> QED BY <2>1, <2>2, <2>3
<1> DEFINE n == b.len  x == b.bepi
<1> HIDE DEF n, x
<1>3. n \in Nat /\ n > 0 /\ x \in Nat /\ x % n = 0 BY <1>2 DEF n, x
<1>4. x \div n \in Nat /\ x = n * (x \div n) BY <1>3, DivMod
<1>5. x = v - (v % n) <=> x <= v /\ v < x + n BY <1>1, <1>3, <1>4, BaseRange
<1>6. x = v - (v % n) <=> v \in x..(x + n - 1) BY <1>1, <1>3, <1>5
<1> QED BY <1>6 DEF n, x, PM!Base

\* A page table entry is of one page of one segment only.
LEMMA OnePte ==
  ASSUME NEW e \in PM!Pte, NEW g \in {0, 1}, NEW m1_ \in Nat \X Nat, NEW m2_ \in Nat \X Nat,
         IsOf(e, g, m1_), IsOf(e, g, m2_)
  PROVE  m1_ = m2_
<1> DEFINE v == m1_[1]  a == m1_[2]  w == m2_[1]  b == m2_[2]
<1>1. v \in Nat /\ a \in Nat /\ w \in Nat /\ b \in Nat /\ m1_ = <<v, a>> /\ m2_ = <<w, b>> OBVIOUS
<1>2. a = b /\ v \div 2 = w \div 2 /\ (v + a) % 2 = (w + b) % 2
  BY DEF IsOf, PM!Key, PM!Group
<1> HIDE DEF v, a, w, b
<1>3. v = w BY <1>1, <1>2
<1> QED BY <1>1, <1>2, <1>3

\* What is in the page table is an entry.
LEMMA PteType ==
  ASSUME NEW pt, NEW mp, PteOK(pt, mp), NEW g \in {0, 1}, NEW i \in 1..PtegSize, pt[g][i] # None
  PROVE  pt[g][i] \in PM!Pte
<1>1. pt \in [{0, 1} -> [1..PtegSize -> PM!Pte \cup {None}]] BY DEF PteOK
<1>2. pt[g] \in [1..PtegSize -> PM!Pte \cup {None}] BY <1>1
<1> QED BY <1>2

\* A mapping is in the page table once.
LEMMA PteOnce ==
  ASSUME NEW pt, NEW mp, PteOK(pt, mp), NEW m \in DOMAIN mp, NEW g1 \in {0, 1}, NEW g2 \in {0, 1},
         NEW i1 \in 1..PtegSize, NEW i2 \in 1..PtegSize,
         pt[g1][i1] # None, IsOf(pt[g1][i1], g1, m), pt[g2][i2] # None, IsOf(pt[g2][i2], g2, m)
  PROVE  g1 = g2 /\ i1 = i2
<1>1. \A n \in DOMAIN mp, x1, x2 \in {0, 1}, y1, y2 \in 1..PtegSize :
        /\ pt[x1][y1] # None /\ IsOf(pt[x1][y1], x1, n)
        /\ pt[x2][y2] # None /\ IsOf(pt[x2][y2], x2, n)
        => x1 = x2 /\ y1 = y2
  BY DEF PteOK
<1> QED BY <1>1

\* What a search of the page table finds is what it was made to say.
LEMMA PteLookup ==
  ASSUME PM!PpcMmuAssumption, PteOK(pteg, mapped), NEW v \in Page, NEW s \in Nat, NEW h \in {0, 1},
         PM!InGroup(s, v, h) # {}
  PROVE  LET g == IF h = 0 THEN PM!Group(s, v) ELSE 1 - PM!Group(s, v)
         IN  /\ <<v, s>> \in DOMAIN mapped
             /\ pteg[g][PM!Min(PM!InGroup(s, v, h))].p = mapped[<<v, s>>]
<1> DEFINE g == IF h = 0 THEN PM!Group(s, v) ELSE 1 - PM!Group(s, v)
           i == PM!Min(PM!InGroup(s, v, h))
<1>1. i \in PM!InGroup(s, v, h) BY MinIn DEF PM!InGroup
<1>2. v \in Nat BY DEF PM!PpcMmuAssumption
<1>3. PM!Group(s, v) \in {0, 1} BY <1>2 DEF PM!Group
<1>4. g \in {0, 1} BY <1>3
<1>5. i \in 1..PtegSize /\ pteg[g][i] # None /\ pteg[g][i].key = PM!Key(s, v, h)
  BY <1>1 DEF PM!InGroup
<1>6. pteg[g][i].key.h = h BY <1>5 DEF PM!Key
<1>7. IsOf(pteg[g][i], g, <<v, s>>) BY <1>3, <1>5, <1>6 DEF IsOf
<1>8. PICK m \in DOMAIN mapped : IsOf(pteg[g][i], g, m) /\ pteg[g][i].p = mapped[m]
  BY <1>4, <1>5 DEF PteOK
<1>9. pteg[g][i] \in PM!Pte BY <1>4, <1>5, PteType
<1>10. m \in Nat \X Nat /\ <<v, s>> \in Nat \X Nat BY <1>2 DEF PteOK, PM!PpcMmuAssumption
<1>11. m = <<v, s>> BY <1>4, <1>7, <1>8, <1>9, <1>10, OnePte
<1> QED BY <1>8, <1>11

\* A mapping is found in one of the groups.
LEMMA PteFound ==
  ASSUME PM!PpcMmuAssumption, PteOK(pteg, mapped), NEW v \in Page, NEW s \in Nat,
         <<v, s>> \in DOMAIN mapped
  PROVE  PM!InGroup(s, v, 0) # {} \/ PM!InGroup(s, v, 1) # {}
<1>1. PICK g \in {0, 1}, i \in 1..PtegSize : pteg[g][i] # None /\ IsOf(pteg[g][i], g, <<v, s>>)
  BY DEF PteOK
<1>2. pteg[g][i] \in PM!Pte BY <1>1, PteType
<1>3. pteg[g][i].key.h \in {0, 1} BY <1>2 DEF PM!Pte
<1>4. v \in Nat BY DEF PM!PpcMmuAssumption
<1>5. PM!Group(s, v) \in {0, 1} BY <1>4 DEF PM!Group
<1>6. CASE pteg[g][i].key.h = 0
  <2>1. i \in PM!InGroup(s, v, 0) BY <1>1, <1>6 DEF IsOf, PM!InGroup
  <2> QED BY <2>1
<1>7. CASE pteg[g][i].key.h = 1
  <2>1. g = 1 - PM!Group(s, v) BY <1>1, <1>5, <1>7 DEF IsOf
  <2>2. i \in PM!InGroup(s, v, 1) BY <1>1, <1>7, <2>1 DEF IsOf, PM!InGroup
  <2> QED BY <2>2
<1> QED BY <1>3, <1>6, <1>7

\* The look-up of the code is the translation of the architecture.
LEMMA PpcLookup ==
  ASSUME PM!PpcMmuAssumption, PpcMmuInv, NEW cid \in PM!Cid, NEW v \in Page
  PROVE  PM!slow_lookup(cid, v) = PM!Translation(cid, v)
<1>1. CASE PM!real(cid)
  BY <1>1 DEF PM!slow_lookup, PM!ppc405_slow_lookup, PM!ppc32_slow_lookup, PM!Translation
<1>2. CASE ~PM!real(cid) /\ family = "405"
  <2> DEFINE hits == {i \in 1..TlbSize : /\ tlb[i].v # None /\ tlb[i].tid = pid
                                         /\ PM!Base(v, tlb[i].len) = PM!Base(tlb[i].v, tlb[i].len)}
             mine(i) == tlb[i].v = v /\ tlb[i].tid = pid
  <2>1. v \in Nat /\ v # None BY DEF PM!PpcMmuAssumption
  <2>2. \A x \in Nat : PM!Base(x, 1) = x BY DEF PM!Base
  <2>3. \A i \in 1..TlbSize : tlb[i].v # None =>
           tlb[i].v \in Nat /\ tlb[i].len = 1 /\ tlb[i].p \in Nat
    <3>1. \A i \in 1..TlbSize : tlb[i] \in Tlb405 BY DEF PpcMmuInv, TlbOK
    <3>2. \A e \in Tlb405 : e.v # None => e.v \in Page /\ e.len = 1 /\ e.p \in Nat
      BY DEF Tlb405, PM!NoTlb
    <3> QED BY <3>1, <3>2 DEF PM!PpcMmuAssumption
  <2>4. \A i \in 1..TlbSize : i \in hits <=> mine(i) BY <2>1, <2>2, <2>3
  <2>5. \A i, k \in hits : i = k BY <2>1, <2>4 DEF PpcMmuInv, TlbOK
  <2>6. PM!slow_lookup(cid, v)
          = IF hits = {} THEN None ELSE PM!Base(tlb[PM!Min(hits)].p, tlb[PM!Min(hits)].len)
    BY <1>2 DEF PM!slow_lookup, PM!ppc405_slow_lookup
  <2>7. PM!Translation(cid, v)
          = IF \E i \in 1..TlbSize : mine(i) THEN tlb[CHOOSE i \in 1..TlbSize : mine(i)].p ELSE None
    BY <1>2 DEF PM!Translation
  <2> HIDE DEF hits
  <2>8. CASE hits = {}
    <3>1. ~\E i \in 1..TlbSize : mine(i) BY <2>4, <2>8
    <3> QED BY <2>6, <2>7, <2>8, <3>1
  <2>9. CASE hits # {}
    <3>1. hits \subseteq 1..TlbSize /\ hits \subseteq Nat BY DEF hits, PM!PpcMmuAssumption
    <3>2. PM!Min(hits) \in hits BY <2>9, <3>1, MinIn
    <3>3. \E i \in 1..TlbSize : mine(i) BY <2>4, <3>1, <3>2
    <3>4. (CHOOSE i \in 1..TlbSize : mine(i)) \in hits BY <2>4, <3>3
    <3>5. (CHOOSE i \in 1..TlbSize : mine(i)) = PM!Min(hits) BY <2>5, <3>2, <3>4
    <3>6. PM!Base(tlb[PM!Min(hits)].p, tlb[PM!Min(hits)].len) = tlb[PM!Min(hits)].p
      BY <2>1, <2>2, <2>3, <2>4, <3>1, <3>2
    <3> QED BY <2>6, <2>7, <2>9, <3>3, <3>5, <3>6
  <2> QED BY <2>8, <2>9
<1>3. CASE ~PM!real(cid) /\ family # "405"
  <2> DEFINE b == bat[cid][1]
             on == IF msr.pr THEN b.vp ELSE b.vs
             covers == on /\ v \in b.bepi..(b.bepi + b.len - 1)
             hits == {i \in DOMAIN bat[cid] : /\ IF msr.pr THEN bat[cid][i].vp ELSE bat[cid][i].vs
                                              /\ bat[cid][i].bepi = PM!Base(v, bat[cid][i].len)}
             s == sr[v \div SegSize]
             seg == <<v, s>>
             cov(x) == /\ IF msr.pr THEN x.vp ELSE x.vs
                       /\ v \in x.bepi..(x.bepi + x.len - 1)
  <2>1. DOMAIN bat[cid] = {1} /\ b \in Bats \cup {PM!NoBat} BY DEF PpcMmuInv, RegsOK
  <2>2. b.bepi = PM!Base(v, b.len) <=> v \in b.bepi..(b.bepi + b.len - 1) BY <2>1, BatCovers
  <2>3. v \in Nat /\ b.bepi \in Nat /\ b.brpn \in Nat
    <3>1. b \in Bats => b \in [vs : BOOLEAN, vp : BOOLEAN, bepi : Nat, len : Nat \ {0}, brpn : Nat]
      BY DEF PM!PpcMmuAssumption
    <3>2. b = PM!NoBat => b.bepi = 0 /\ b.brpn = 0 BY DEF PM!NoBat
    <3> QED BY <2>1, <3>1, <3>2 DEF PM!PpcMmuAssumption
  <2>4. hits = IF covers THEN {1} ELSE {} BY <2>1, <2>2
  <2>5. PM!bat_lookup(cid, v)
          = IF hits = {} THEN None
            ELSE bat[cid][PM!Min(hits)].brpn + (v - bat[cid][PM!Min(hits)].bepi)
    BY DEF PM!bat_lookup
  <2>6. PM!Min({1}) = 1 BY MinIn
  <2>7. PM!bat_lookup(cid, v) = IF covers THEN b.brpn + (v - b.bepi) ELSE None
    BY <2>4, <2>5, <2>6
  <2>8. PM!slow_lookup(cid, v)
          = IF PM!bat_lookup(cid, v) # None THEN PM!bat_lookup(cid, v) ELSE PM!pte_lookup(v)
    BY <1>3 DEF PM!slow_lookup, PM!ppc32_slow_lookup
  <2>9. PM!Translation(cid, v)
          = IF \E i \in DOMAIN bat[cid] : cov(bat[cid][i])
            THEN LET x == bat[cid][CHOOSE i \in DOMAIN bat[cid] : cov(bat[cid][i])]
                 IN  x.brpn + v - x.bepi
            ELSE IF sdr1 /\ seg \in DOMAIN mapped THEN mapped[seg] ELSE None
    BY <1>3 DEF PM!Translation
  <2>10. CASE covers
    <3>1. \E i \in DOMAIN bat[cid] : cov(bat[cid][i]) BY <2>1, <2>10
    <3>2. (CHOOSE i \in DOMAIN bat[cid] : cov(bat[cid][i])) = 1 BY <2>1, <3>1
    <3>3. PM!Translation(cid, v) = b.brpn + v - b.bepi BY <2>9, <3>1, <3>2
    <3>4. b.brpn + v - b.bepi = b.brpn + (v - b.bepi) BY <2>3
    <3>5. b.brpn + (v - b.bepi) \in Nat
      BY <2>1, <2>3, <2>10 DEF PM!PpcMmuAssumption, PM!NoBat
    <3>6. PM!bat_lookup(cid, v) = b.brpn + (v - b.bepi) BY <2>7, <2>10
    <3> QED BY <2>7, <2>8, <2>10, <3>3, <3>4, <3>5, <3>6 DEF PM!PpcMmuAssumption
  <2>11. CASE ~covers
    <3>1. ~\E i \in DOMAIN bat[cid] : cov(bat[cid][i]) BY <2>1, <2>11
    <3>2. PM!Translation(cid, v) = IF sdr1 /\ seg \in DOMAIN mapped THEN mapped[seg] ELSE None
      BY <2>9, <3>1
    <3>3. PM!slow_lookup(cid, v) = PM!pte_lookup(v) BY <2>7, <2>8, <2>11
    <3>4. s \in Nat BY DEF PpcMmuInv, RegsOK
    <3>5. PM!pte_lookup(v) =
            IF ~sdr1 THEN None
            ELSE IF PM!InGroup(s, v, 0) # {}
                 THEN pteg[PM!Group(s, v)][PM!Min(PM!InGroup(s, v, 0))].p
            ELSE IF PM!InGroup(s, v, 1) # {}
                 THEN pteg[1 - PM!Group(s, v)][PM!Min(PM!InGroup(s, v, 1))].p
            ELSE None
      BY DEF PM!pte_lookup
    <3>6. PteOK(pteg, mapped) BY DEF PpcMmuInv
    <3> HIDE DEF s
    <3>7. PM!InGroup(s, v, 0) # {} => /\ seg \in DOMAIN mapped
                                      /\ pteg[PM!Group(s, v)][PM!Min(PM!InGroup(s, v, 0))].p = mapped[seg]
      BY <3>4, <3>6, PteLookup
    <3>8. PM!InGroup(s, v, 1) # {} => /\ seg \in DOMAIN mapped
                                      /\ pteg[1 - PM!Group(s, v)][PM!Min(PM!InGroup(s, v, 1))].p = mapped[seg]
      <4>1. 1 # 0 OBVIOUS
      <4> QED BY <3>4, <3>6, <4>1, PteLookup
    <3>9. seg \in DOMAIN mapped => PM!InGroup(s, v, 0) # {} \/ PM!InGroup(s, v, 1) # {}
      BY <3>4, <3>6, PteFound
    <3> QED BY <3>2, <3>3, <3>5, <3>7, <3>8, <3>9
  <2> QED BY <2>10, <2>11
<1> QED BY <1>1, <1>2, <1>3

\* An entry e is made for x.
Added(pt, mp, g, i, x, e, pu, mq) ==
  /\ g \in {0, 1} /\ i \in 1..PtegSize /\ pt[g][i] = None
  /\ x \in Page \X Nat /\ x \notin DOMAIN mp /\ e \in PM!Pte /\ IsOf(e, g, x)
  /\ pu = [pt EXCEPT ![g][i] = e]
  /\ mq \in [DOMAIN mp \cup {x} -> Nat] /\ mq[x] = e.p /\ \A m \in DOMAIN mp : mq[m] = mp[m]

\* The page table after an entry was made for x,
LEMMA PteAdd ==
  ASSUME PM!PpcMmuAssumption, NEW pt, NEW mp, PteOK(pt, mp), NEW g, NEW i, NEW x, NEW e, NEW pu, NEW mq,
         Added(pt, mp, g, i, x, e, pu, mq)
  PROVE  PteOK(pu, mq)
<1> /\ g \in {0, 1} /\ i \in 1..PtegSize /\ pt[g][i] = None
    /\ x \in Page \X Nat /\ x \notin DOMAIN mp /\ e \in PM!Pte /\ IsOf(e, g, x)
    /\ pu = [pt EXCEPT ![g][i] = e]
    /\ mq \in [DOMAIN mp \cup {x} -> Nat] /\ mq[x] = e.p /\ \A m \in DOMAIN mp : mq[m] = mp[m]
  BY DEF Added
<1>1. /\ pt \in [{0, 1} -> [1..PtegSize -> PM!Pte \cup {None}]]
      /\ mp \in [DOMAIN mp -> Nat] /\ DOMAIN mp \subseteq Page \X Nat
  BY DEF PteOK
<1>2. e # None /\ e.p \in Nat BY DEF PM!PpcMmuAssumption, PM!Pte
<1>3. \A g1 \in {0, 1}, i1 \in 1..PtegSize :
         pu[g1][i1] = IF g1 = g /\ i1 = i THEN e ELSE pt[g1][i1]
  BY <1>1
<1>4. pu \in [{0, 1} -> [1..PtegSize -> PM!Pte \cup {None}]] BY <1>1
<1>5. \A m \in Page \X Nat : m \in Nat \X Nat BY DEF PM!PpcMmuAssumption
<1>6. /\ mq \in [DOMAIN mq -> Nat] /\ DOMAIN mq \subseteq Page \X Nat /\ DOMAIN mq = DOMAIN mp \cup {x}
      /\ mq[x] = e.p /\ \A m \in DOMAIN mp : mq[m] = mp[m]
  BY <1>1, <1>2
<1>7. \A g1 \in {0, 1}, i1 \in 1..PtegSize : pu[g1][i1] # None => pu[g1][i1] \in PM!Pte
  BY <1>3, PteType
<1>8. ASSUME NEW m \in DOMAIN mp, NEW g1 \in {0, 1}, NEW i1 \in 1..PtegSize, pt[g1][i1] # None,
             IsOf(pt[g1][i1], g1, x)
      PROVE  FALSE
  <2>1. PICK n \in DOMAIN mp : IsOf(pt[g1][i1], g1, n) BY <1>8 DEF PteOK
  <2>2. pt[g1][i1] \in PM!Pte BY <1>8, PteType
  <2>3. n = x BY <1>1, <1>5, <1>8, <2>1, <2>2, OnePte
  <2> QED BY <2>1, <2>3
<1>9. ASSUME NEW g1 \in {0, 1}, NEW i1 \in 1..PtegSize, pu[g1][i1] # None
      PROVE  \E m \in DOMAIN mq : IsOf(pu[g1][i1], g1, m) /\ pu[g1][i1].p = mq[m]
  <2>1. CASE g1 = g /\ i1 = i BY <1>3, <1>6, <2>1
  <2>2. CASE ~(g1 = g /\ i1 = i)
    <3>1. pu[g1][i1] = pt[g1][i1] BY <1>3, <2>2
    <3>2. PICK m \in DOMAIN mp : IsOf(pt[g1][i1], g1, m) /\ pt[g1][i1].p = mp[m]
      BY <1>9, <3>1 DEF PteOK
    <3> QED BY <1>6, <3>1, <3>2
  <2> QED BY <2>1, <2>2
<1>10. ASSUME NEW m \in DOMAIN mq
       PROVE  \E g1 \in {0, 1}, i1 \in 1..PtegSize : pu[g1][i1] # None /\ IsOf(pu[g1][i1], g1, m)
  <2>1. CASE m = x BY <1>2, <1>3, <2>1
  <2>2. CASE m \in DOMAIN mp
    <3>1. PICK g1 \in {0, 1}, i1 \in 1..PtegSize : pt[g1][i1] # None /\ IsOf(pt[g1][i1], g1, m)
      BY <2>2 DEF PteOK
    <3>2. ~(g1 = g /\ i1 = i) BY <3>1
    <3>3. pu[g1][i1] = pt[g1][i1] BY <1>3, <3>2
    <3> QED BY <3>1, <3>3
  <2> QED BY <1>6, <2>1, <2>2
<1>11. ASSUME NEW m \in DOMAIN mq, NEW g1 \in {0, 1}, NEW g2 \in {0, 1},
              NEW i1 \in 1..PtegSize, NEW i2 \in 1..PtegSize,
              pu[g1][i1] # None, IsOf(pu[g1][i1], g1, m), pu[g2][i2] # None, IsOf(pu[g2][i2], g2, m)
       PROVE  g1 = g2 /\ i1 = i2
  <2>1. ASSUME NEW g3 \in {0, 1}, NEW i3 \in 1..PtegSize, pu[g3][i3] # None, IsOf(pu[g3][i3], g3, m)
        PROVE  m = x <=> g3 = g /\ i3 = i
    <3>1. CASE g3 = g /\ i3 = i
      <4>1. IsOf(e, g, m) BY <1>3, <2>1, <3>1
      <4> QED BY <1>5, <1>6, <3>1, <4>1, OnePte
    <3>2. CASE ~(g3 = g /\ i3 = i)
      <4>1. pu[g3][i3] = pt[g3][i3] BY <1>3, <3>2
      <4>2. \E n \in DOMAIN mp : TRUE BY <2>1, <4>1 DEF PteOK
      <4> QED BY <1>8, <2>1, <3>2, <4>1, <4>2
    <3> QED BY <3>1, <3>2
  <2>2. CASE m = x BY <1>11, <2>1, <2>2
  <2>3. CASE m # x
    <3>1. m \in DOMAIN mp BY <1>6, <2>3
    <3>2. pu[g1][i1] = pt[g1][i1] /\ pu[g2][i2] = pt[g2][i2] BY <1>3, <1>11, <2>1, <2>3
    <3> QED BY <1>11, <3>1, <3>2, PteOnce
  <2> QED BY <2>2, <2>3
<1>12. \A g1 \in {0, 1}, i1 \in 1..PtegSize : pu[g1][i1] # None =>
          \E m \in DOMAIN mq : IsOf(pu[g1][i1], g1, m) /\ pu[g1][i1].p = mq[m]
  BY <1>9
<1>13. \A m \in DOMAIN mq, g1, g2 \in {0, 1}, i1, i2 \in 1..PtegSize :
          /\ pu[g1][i1] # None /\ IsOf(pu[g1][i1], g1, m)
          /\ pu[g2][i2] # None /\ IsOf(pu[g2][i2], g2, m)
          => g1 = g2 /\ i1 = i2
  BY <1>11
<1> QED BY ONLY <1>4, <1>6, <1>10, <1>12, <1>13 DEF PteOK

\* and after the guest cleared one.
LEMMA PteDrop ==
  ASSUME PM!PpcMmuAssumption, NEW pt, NEW mp, PteOK(pt, mp), NEW g \in {0, 1}, NEW i \in 1..PtegSize,
         pt[g][i] # None, NEW D, D = {m \in DOMAIN mp : ~IsOf(pt[g][i], g, m)},
         NEW pu, pu = [pt EXCEPT ![g][i] = None], NEW mq, mq = [m \in D |-> mp[m]]
  PROVE  PteOK(pu, mq)
<1>1. /\ pt \in [{0, 1} -> [1..PtegSize -> PM!Pte \cup {None}]]
      /\ mp \in [DOMAIN mp -> Nat] /\ DOMAIN mp \subseteq Page \X Nat
  BY DEF PteOK
<1>2. \A g1 \in {0, 1}, i1 \in 1..PtegSize :
         pu[g1][i1] = IF g1 = g /\ i1 = i THEN None ELSE pt[g1][i1]
  BY <1>1
<1>3. pu \in [{0, 1} -> [1..PtegSize -> PM!Pte \cup {None}]] BY <1>1
<1>4. /\ mq \in [DOMAIN mq -> Nat] /\ DOMAIN mq \subseteq Page \X Nat /\ DOMAIN mq = D
      /\ \A m \in D : mq[m] = mp[m]
  BY <1>1
<1>5. ASSUME NEW g1 \in {0, 1}, NEW i1 \in 1..PtegSize, pu[g1][i1] # None
      PROVE  \E m \in DOMAIN mq : IsOf(pu[g1][i1], g1, m) /\ pu[g1][i1].p = mq[m]
  <2>1. ~(g1 = g /\ i1 = i) /\ pu[g1][i1] = pt[g1][i1] BY <1>2, <1>5
  <2>2. PICK m \in DOMAIN mp : IsOf(pt[g1][i1], g1, m) /\ pt[g1][i1].p = mp[m]
    BY <1>5, <2>1 DEF PteOK
  <2>3. ~IsOf(pt[g][i], g, m) BY <1>5, <2>1, <2>2, PteOnce
  <2>4. m \in D BY <2>2, <2>3
  <2> QED BY <1>4, <2>1, <2>2, <2>4
<1>6. ASSUME NEW m \in DOMAIN mq
      PROVE  \E g1 \in {0, 1}, i1 \in 1..PtegSize : pu[g1][i1] # None /\ IsOf(pu[g1][i1], g1, m)
  <2>1. m \in DOMAIN mp /\ ~IsOf(pt[g][i], g, m) BY <1>4, <1>6
  <2>2. PICK g1 \in {0, 1}, i1 \in 1..PtegSize : pt[g1][i1] # None /\ IsOf(pt[g1][i1], g1, m)
    BY <2>1 DEF PteOK
  <2>3. pu[g1][i1] = pt[g1][i1] BY <1>2, <2>1, <2>2
  <2> QED BY <2>2, <2>3
<1>7. ASSUME NEW m \in DOMAIN mq, NEW g1 \in {0, 1}, NEW g2 \in {0, 1},
             NEW i1 \in 1..PtegSize, NEW i2 \in 1..PtegSize,
             pu[g1][i1] # None, IsOf(pu[g1][i1], g1, m), pu[g2][i2] # None, IsOf(pu[g2][i2], g2, m)
      PROVE  g1 = g2 /\ i1 = i2
  <2>1. pu[g1][i1] = pt[g1][i1] /\ pu[g2][i2] = pt[g2][i2] /\ m \in DOMAIN mp BY <1>2, <1>4, <1>7
  <2> QED BY <1>7, <2>1, PteOnce
<1>8. \A g1 \in {0, 1}, i1 \in 1..PtegSize : pu[g1][i1] # None =>
         \E m \in DOMAIN mq : IsOf(pu[g1][i1], g1, m) /\ pu[g1][i1].p = mq[m]
  BY <1>5
<1>9. \A m \in DOMAIN mq, g1, g2 \in {0, 1}, i1, i2 \in 1..PtegSize :
         /\ pu[g1][i1] # None /\ IsOf(pu[g1][i1], g1, m)
         /\ pu[g2][i2] # None /\ IsOf(pu[g2][i2], g2, m)
         => g1 = g2 /\ i1 = i2
  BY <1>7
<1> QED BY ONLY <1>3, <1>4, <1>6, <1>8, <1>9 DEF PteOK

\* What an MMU starts with.
LEMMA PpcMmuInitInv == ASSUME PM!PpcMmuAssumption, PM!MmuInit PROVE PpcMmuInv
<1>1. RegsOK
  <2>1. <<PM!NoBat>> \in [1..1 -> Bats \cup {PM!NoBat}] OBVIOUS
  <2> QED BY <2>1 DEF PM!MmuInit, RegsOK
<1>2. TlbOK(tlb)
  BY DEF PM!MmuInit, TlbOK, Tlb405, PM!NoTlb, PM!PpcMmuAssumption
<1>3. PteOK(pteg, mapped)
  <2>1. pteg = [g \in {0, 1} |-> [i \in 1..PtegSize |-> None]] /\ mapped = <<>> BY DEF PM!MmuInit
  <2>2. DOMAIN mapped = {} /\ mapped \in [{} -> Nat] BY <2>1
  <2>3. \A g \in {0, 1}, i \in 1..PtegSize : pteg[g][i] = None BY <2>1
  <2>4. pteg \in [{0, 1} -> [1..PtegSize -> PM!Pte \cup {None}]] BY <2>1
  <2> QED BY <2>2, <2>3, <2>4 DEF PteOK
<1>4. MtsShape BY DEF PM!MmuInit, MtsShape
<1> QED BY <1>1, <1>2, <1>3, <1>4 DEF PpcMmuInv

\* An empty cache.
LEMMA EmptyShape == ASSUME PM!mem_invalidate_cache PROVE MtsShape'
BY DEF PM!mem_invalidate_cache, MtsShape

\* ppc32_map_page.
LEMMA PpcMapPageInv == ASSUME PM!PpcMmuAssumption, PpcMmuInv, PM!map_page PROVE PpcMmuInv'
<1> DEFINE free(g) == {i \in 1..PtegSize : pteg[g][i] = None}
<1>1. PICK m \in Mappings :
        LET v == m[1]
            vsid == m[2]
            g == PM!Group(vsid, v)
            h == IF free(g) # {} THEN 0 ELSE 1
            at == IF h = 0 THEN g ELSE 1 - g
        IN  /\ <<v, vsid>> \notin DOMAIN mapped
            /\ free(at) # {}
            /\ pteg' = [pteg EXCEPT ![at][PM!Min(free(at))] = [key |-> PM!Key(vsid, v, h), p |-> m[3]]]
            /\ mapped' = [n \in DOMAIN mapped \cup {<<v, vsid>>} |-> IF n = <<v, vsid>> THEN m[3] ELSE mapped[n]]
            /\ UNCHANGED <<family, msr, bat, sr, tlb, pid, mts>>
  BY DEF PM!map_page
<1> DEFINE v == m[1]
           vsid == m[2]
           g == PM!Group(vsid, v)
           h == IF free(g) # {} THEN 0 ELSE 1
           at == IF h = 0 THEN g ELSE 1 - g
           i == PM!Min(free(at))
           e == [key |-> PM!Key(vsid, v, h), p |-> m[3]]
           x == <<v, vsid>>
<1>2. v \in Page /\ v \in Nat /\ vsid \in Nat /\ m[3] \in Nat BY DEF PM!PpcMmuAssumption
<1>3. g \in {0, 1} /\ h \in {0, 1} /\ at \in {0, 1} /\ g = (IF h = 0 THEN at ELSE 1 - at)
  BY <1>2 DEF PM!Group
<1>4. i \in 1..PtegSize /\ pteg[at][i] = None
  <2>1. free(at) \subseteq Nat BY DEF PM!PpcMmuAssumption
  <2>2. free(at) # {} BY <1>1
  <2>3. i \in free(at) BY <2>1, <2>2, MinIn
  <2> QED BY <2>3
<1>5. x \in Page \X Nat /\ x \notin DOMAIN mapped BY <1>1, <1>2
<1>6. e \in PM!Pte /\ e.p = m[3] /\ e.key.h = h
  <2>1. v \div 2 \in Nat BY <1>2
  <2> QED BY <1>2, <1>3, <2>1 DEF PM!Pte, PM!Key
<1>7. IsOf(e, at, x) BY <1>3, <1>6 DEF IsOf
<1>8. pteg' = [pteg EXCEPT ![at][i] = e] BY <1>1
<1>9. mapped' = [n \in DOMAIN mapped \cup {x} |-> IF n = x THEN e.p ELSE mapped[n]] BY <1>1, <1>6
<1>10. UNCHANGED <<family, msr, bat, sr, tlb, pid, mts>> BY <1>1
<1>11. PteOK(pteg, mapped) BY DEF PpcMmuInv
<1> HIDE DEF free, v, vsid, g, h, at, i, e, x
<1>12. PteOK(pteg', mapped')
  <2>1. at \in {0, 1} /\ e \in PM!Pte /\ i \in 1..PtegSize /\ pteg[at][i] = None BY <1>3, <1>4, <1>6
  <2>2. mapped \in [DOMAIN mapped -> Nat] /\ e.p \in Nat BY <1>2, <1>6, <1>11 DEF PteOK
  <2>3. /\ mapped' \in [DOMAIN mapped \cup {x} -> Nat] /\ mapped'[x] = e.p
        /\ \A n \in DOMAIN mapped : mapped'[n] = mapped[n]
    BY <1>5, <1>9, <2>2
  <2>4. Added(pteg, mapped, at, i, x, e, pteg', mapped') BY <1>5, <1>7, <1>8, <2>1, <2>3 DEF Added
  <2> QED BY <1>11, <2>4, PteAdd
<1> QED BY <1>10, <1>12 DEF PpcMmuInv, RegsOK, MtsShape

\* The guest clears an entry.
LEMMA PpcClearPteInv == ASSUME PM!PpcMmuAssumption, PpcMmuInv, PM!ClearPte PROVE PpcMmuInv'
<1>1. PICK g \in {0, 1}, i \in 1..PtegSize :
        LET e == pteg[g][i]
            low == IF e.key.h = 0 THEN g ELSE 1 - g
            gone == {m \in DOMAIN mapped : /\ m[2] = e.key.vsid /\ m[1] \div 2 = e.key.api
                                           /\ PM!Group(m[2], m[1]) = low}
        IN  /\ e # None
            /\ pteg' = [pteg EXCEPT ![g][i] = None]
            /\ mapped' = [m \in DOMAIN mapped \ gone |-> mapped[m]]
            /\ UNCHANGED <<family, msr, bat, sr, tlb, pid, mts>>
  BY DEF PM!ClearPte
<1> DEFINE e == pteg[g][i]
           low == IF e.key.h = 0 THEN g ELSE 1 - g
           gone == {m \in DOMAIN mapped : /\ m[2] = e.key.vsid /\ m[1] \div 2 = e.key.api
                                          /\ PM!Group(m[2], m[1]) = low}
           D == DOMAIN mapped \ gone
<1>2. PteOK(pteg, mapped) BY DEF PpcMmuInv
<1>3. e # None /\ e \in PM!Pte BY <1>1, <1>2, PteType
<1>4. e.key = [vsid |-> e.key.vsid, api |-> e.key.api, h |-> e.key.h] BY <1>3 DEF PM!Pte
<1>5. \A m \in DOMAIN mapped : m \in gone <=> IsOf(e, g, m) BY <1>4 DEF IsOf, PM!Key
<1>6. D = {m \in DOMAIN mapped : ~IsOf(e, g, m)} BY <1>5
<1>7. pteg' = [pteg EXCEPT ![g][i] = None] /\ mapped' = [m \in D |-> mapped[m]]
      /\ UNCHANGED <<family, msr, bat, sr, tlb, pid, mts>>
  BY <1>1
<1> HIDE DEF D
<1>8. PteOK(pteg', mapped') BY <1>2, <1>3, <1>6, <1>7, PteDrop
<1> QED BY <1>7, <1>8 DEF PpcMmuInv, RegsOK, MtsShape

\* Every step of the MMU.
LEMMA PpcMmuNextInv == ASSUME PM!PpcMmuAssumption, PpcMmuInv, PM!MmuNext PROVE PpcMmuInv'
<1>1. CASE PM!SetMsr
  <2>1. msr' \in Modes /\ UNCHANGED <<family, bat, sr, tlb, pid, pteg, mapped, mts>> BY <1>1 DEF PM!SetMsr
  <2> QED BY <2>1 DEF PpcMmuInv, RegsOK, MtsShape, PM!PpcMmuAssumption
<1>2. CASE PM!set_bat_spr
  <2>1. PICK cid \in PM!Cid, b \in Bats : bat' = [bat EXCEPT ![cid][1] = b] BY <1>2 DEF PM!set_bat_spr
  <2>2. UNCHANGED <<family, msr, sr, tlb, pid, pteg, mapped>> /\ MtsShape'
    BY <1>2, EmptyShape DEF PM!set_bat_spr
  <2>3. bat \in [PM!Cid -> [1..1 -> Bats \cup {PM!NoBat}]] BY DEF PpcMmuInv, RegsOK, MtsShape
  <2>4. bat' \in [PM!Cid -> [1..1 -> Bats \cup {PM!NoBat}]] BY <2>1, <2>3
  <2> QED BY <2>2, <2>4 DEF PpcMmuInv, RegsOK
<1>3. CASE PM!MTSR
  <2>1. PICK s \in DOMAIN sr, x \in Vsid : sr' = [sr EXCEPT ![s] = x] BY <1>3 DEF PM!MTSR
  <2>2. UNCHANGED <<family, msr, bat, tlb, pid, pteg, mapped>> /\ MtsShape'
    BY <1>3, EmptyShape DEF PM!MTSR
  <2>3. x \in Nat BY DEF PM!PpcMmuAssumption
  <2>4. sr' \in [{v \div SegSize : v \in Page} -> Nat] BY <2>1, <2>3 DEF PpcMmuInv, RegsOK, MtsShape
  <2> QED BY <2>2, <2>4 DEF PpcMmuInv, RegsOK
<1>4. CASE PM!MTSPR_SDR1
  BY <1>4, EmptyShape DEF PM!MTSPR_SDR1, PpcMmuInv, RegsOK
<1>5. CASE PM!TLBIA
  BY <1>5, EmptyShape DEF PM!TLBIA, PM!regs, PpcMmuInv, RegsOK
<1>6. CASE PM!map_page BY <1>6, PpcMapPageInv
<1>7. CASE PM!ClearPte BY <1>7, PpcClearPteInv
<1>8. CASE PM!TLBWE
  <2>1. PICK i \in 1..TlbSize, m \in Mappings :
          /\ m[2] = pid
          /\ \A k \in 1..TlbSize : k = i \/ tlb[k].v # m[1] \/ tlb[k].tid # pid
          /\ tlb' = [tlb EXCEPT ![i] = [v |-> m[1], len |-> 1, p |-> m[3], tid |-> pid]]
    BY <1>8 DEF PM!TLBWE
  <2>2. UNCHANGED <<family, msr, bat, sr, pid, pteg, mapped, mts>> BY <1>8 DEF PM!TLBWE
  <2>3. tlb \in [1..TlbSize -> Tlb405] /\ pid \in Nat BY DEF PpcMmuInv, TlbOK, RegsOK
  <2> DEFINE e == [v |-> m[1], len |-> 1, p |-> m[3], tid |-> pid]
  <2>4. e \in Tlb405 /\ e.v = m[1] /\ e.tid = pid BY <2>3 DEF Tlb405, PM!PpcMmuAssumption
  <2> HIDE DEF e
  <2>5. tlb' = [tlb EXCEPT ![i] = e] BY <2>1 DEF e
  <2>6. \A k \in 1..TlbSize : tlb'[k] = IF k = i THEN e ELSE tlb[k] BY <2>3, <2>5
  <2>7. tlb' \in [1..TlbSize -> Tlb405] BY <2>3, <2>4, <2>5
  <2>8. TlbOK(tlb') BY <2>1, <2>4, <2>6, <2>7 DEF PpcMmuInv, TlbOK
  <2> QED BY <2>2, <2>8 DEF PpcMmuInv, RegsOK, MtsShape
<1>9. CASE PM!MTSPR_PID
  <2>1. pid' \in Pid /\ UNCHANGED <<family, msr, bat, sr, tlb, pteg, mapped, mts>> BY <1>9 DEF PM!MTSPR_PID
  <2>2. pid' \in Nat BY <2>1 DEF PM!PpcMmuAssumption
  <2> QED BY <2>1, <2>2 DEF PpcMmuInv, RegsOK, MtsShape
<1>10. CASE PM!Access
  <2>1. UNCHANGED PM!regs BY <1>10 DEF PM!Access
  <2>2. MtsShape'
    <3>1. PICK cid \in PM!Cid, v \in Page :
            mts' = mts \/ \E e : mts' = [mts EXCEPT ![cid][MtsBucketOf[v]] = e]
      BY <1>10 DEF PM!Access
    <3>2. mts = [c \in PM!Cid |-> [b \in MtsBucket |-> mts[c][b]]] BY DEF PpcMmuInv, MtsShape
    <3>3. mts' = [c \in PM!Cid |-> [b \in MtsBucket |-> mts'[c][b]]] BY <3>1, <3>2
    <3> QED BY <3>3 DEF MtsShape
  <2> QED BY <2>1, <2>2 DEF PM!regs, PpcMmuInv, RegsOK
<1>11. CASE PM!mem_restart
  BY <1>11, EmptyShape DEF PM!mem_restart, PpcMmuInv, RegsOK
<1> QED
  BY <1>1, <1>2, <1>3, <1>4, <1>5, <1>6, <1>7, <1>8, <1>9, <1>10, <1>11 DEF PM!MmuNext

\* What the cache answers is in its only entry for the page.
LEMMA PpcNow == ASSUME part = "ppc mmu"
                PROVE  PagesNow = PM!Current /\ PagesKept = PM!Stale /\ DOMAIN PagesNow = PM!All
BY DEF PagesNow, PagesKept, PM!Current

LEMMA PpcNext == ASSUME part = "ppc mmu", part' = part
                 PROVE  PagesNow' = PM!Current' /\ PagesKept' = PM!Stale'
BY DEF PagesNow, PagesKept

\* Where no entry was made, none comes back.
LEMMA PpcAges ==
  ASSUME part = "ppc mmu", part' = part, NEW k \in PM!All, PM!Kept(k)' \subseteq PM!Kept(k)
  PROVE  Mts!Ages(k)
<1>1. PagesNow[k] = PM!HostPage(PM!Translation(k[1], k[2])) BY PpcNow DEF PM!Current
<1>2. PagesKept[k] = {h \in PM!Kept(k) : h # PM!HostPage(PM!Translation(k[1], k[2]))}
  BY PpcNow DEF PM!Stale
<1>3. PagesKept'[k] \subseteq PM!Kept(k)' BY PpcNext DEF PM!Stale
<1> QED BY <1>1, <1>2, <1>3 DEF Mts!Ages

\* An empty cache answers nothing,
LEMMA PpcEmpty ==
  ASSUME PM!PpcMmuAssumption, part = "ppc mmu", part' = part, PM!mem_invalidate_cache, NEW k \in PM!All
  PROVE  PM!Kept(k)' = {} /\ PagesKept'[k] = {}
<1>1. k[1] \in PM!Cid /\ k[2] \in Page /\ k[2] # None /\ MtsBucketOf[k[2]] \in MtsBucket
  BY DEF PM!All, PM!PpcMmuAssumption
<1>2. mts'[k[1]][MtsBucketOf[k[2]]] = PM!NoEntry BY <1>1 DEF PM!mem_invalidate_cache
<1>3. PM!NoEntry.v = None BY DEF PM!NoEntry
<1>4. PM!Kept(k)' = {} BY <1>1, <1>2, <1>3 DEF PM!Kept
<1> QED BY <1>4, PpcNext DEF PM!Stale

\* and an operation that empties it makes it forget.
LEMMA PpcForgetAll ==
  ASSUME PM!PpcMmuAssumption, part = "ppc mmu", part' = part, PM!mem_invalidate_cache,
         told' = PM!ForgetAll
  PROVE  Mts!Forget
<1>1. told'.op = "forget" /\ told'.keys = PM!All BY DEF PM!ForgetAll
<1>2. Mts!Keys = PM!All BY PpcNow DEF Mts!Keys
<1> QED BY <1>1, <1>2, PpcEmpty DEF Mts!Forget

LEMMA PpcChange ==
  ASSUME part = "ppc mmu", part' = part, mts' = mts, told'.op = "change"
  PROVE  Mts!Change
<1>1. \A k \in PM!All : PM!Kept(k)' \subseteq PM!Kept(k) BY DEF PM!Kept
<1>2. Mts!Keys = PM!All BY PpcNow DEF Mts!Keys
<1> QED BY <1>1, <1>2, PpcAges DEF Mts!Change

\* An entry replaces the one of its bucket.
LEMMA PpcReplaced ==
  ASSUME PM!PpcMmuAssumption, MtsShape, NEW cid \in PM!Cid, NEW v \in Page, NEW e, e.v = v,
         mts' = [mts EXCEPT ![cid][MtsBucketOf[v]] = e]
  PROVE  /\ PM!Kept(<<cid, v>>)' = {e.host}
         /\ \A k \in PM!All : k # <<cid, v>> => PM!Kept(k)' \subseteq PM!Kept(k)
<1>1. MtsBucketOf[v] \in MtsBucket BY DEF PM!PpcMmuAssumption
<1>2. mts = [c \in PM!Cid |-> [b \in MtsBucket |-> mts[c][b]]] BY DEF MtsShape
<1>3. mts'[cid][MtsBucketOf[v]] = e BY <1>1, <1>2
<1>4. \A c \in PM!Cid, b \in MtsBucket : c # cid \/ b # MtsBucketOf[v] => mts'[c][b] = mts[c][b]
  BY <1>1, <1>2
<1>5. PM!Kept(<<cid, v>>)' = {e.host} BY <1>3 DEF PM!Kept
<1>6. ASSUME NEW k \in PM!All, k # <<cid, v>> PROVE PM!Kept(k)' \subseteq PM!Kept(k)
  <2>1. k[1] \in PM!Cid /\ k[2] \in Page /\ k = <<k[1], k[2]>> /\ MtsBucketOf[k[2]] \in MtsBucket
    BY DEF PM!All, PM!PpcMmuAssumption
  <2>2. CASE k[1] # cid \/ MtsBucketOf[k[2]] # MtsBucketOf[v]
    <3>1. mts'[k[1]][MtsBucketOf[k[2]]] = mts[k[1]][MtsBucketOf[k[2]]] BY <1>4, <2>1, <2>2
    <3> QED BY <3>1 DEF PM!Kept
  <2>3. CASE k[1] = cid /\ MtsBucketOf[k[2]] = MtsBucketOf[v]
    <3>1. k[2] # v BY <1>6, <2>1, <2>3
    <3>2. PM!Kept(k)' = {} BY <1>3, <2>3, <3>1 DEF PM!Kept
    <3> QED BY <3>2
  <2> QED BY <2>2, <2>3
<1> QED BY <1>5, <1>6

\* Where a page lies is for the registers to say.
LEMMA PpcTranslationSame ==
  ASSUME UNCHANGED PM!regs, NEW cid, NEW v
  PROVE  PM!Translation(cid, v)' = PM!Translation(cid, v)
BY DEF PM!regs, PM!Translation, PM!real

LEMMA PpcCurrentSame ==
  ASSUME part = "ppc mmu", part' = part, UNCHANGED PM!regs, own' = own
  PROVE  PagesNow' = PagesNow
<1>1. \A k \in PM!All : PM!HostPage(PM!Translation(k[1], k[2]))' = PM!HostPage(PM!Translation(k[1], k[2]))
  BY PpcTranslationSame DEF PM!HostPage
<1>2. PM!Current' = PM!Current BY <1>1 DEF PM!Current
<1> QED BY <1>2, PpcNow, PpcNext

\* ppc32_mem_access.
LEMMA PpcAccessPages ==
  ASSUME PM!PpcMmuAssumption, PpcMmuInv, part = "ppc mmu", part' = part, PM!Access
  PROVE  Mts!Next
<1>1. PICK cid \in PM!Cid, v \in Page, write \in BOOLEAN :
        LET e    == mts[cid][MtsBucketOf[v]]
            hit  == e.v = v /\ ~(write /\ e.cow)
            p    == PM!slow_lookup(cid, v)
            s    == PM!sparse_host(p, write)
            host == IF p = None THEN None ELSE IF p \in Sparse THEN s.host ELSE <<p, "ram">>
            kept == p # None /\ p \notin Device
            use(x) == [op |-> "use", key |-> <<cid, v>>, value |-> x]
            dup  == p \in Sparse /\ s.own # own
        IN  /\ cid = "I" => ~write
            /\ IF hit THEN told' = use(e.host) /\ UNCHANGED <<own, mts>>
               ELSE /\ own' = IF p \in Sparse THEN s.own ELSE own
                    /\ mts' = IF ~kept THEN mts
                              ELSE [mts EXCEPT ![cid][MtsBucketOf[v]] =
                                      [v |-> v, p |-> p, host |-> host, cow |-> p \in Sparse /\ s.cow]]
                    /\ told' = IF dup THEN [op |-> "forget", keys |-> {<<cid, v>>}] ELSE use(host)
            /\ UNCHANGED PM!regs
  BY DEF PM!Access
<1> DEFINE k  == <<cid, v>>
           e  == mts[cid][MtsBucketOf[v]]
           p  == PM!Translation(cid, v)
           s  == PM!sparse_host(p, write)
           host == IF p = None THEN None ELSE IF p \in Sparse THEN s.host ELSE <<p, "ram">>
           ne == [v |-> v, p |-> p, host |-> host, cow |-> p \in Sparse /\ s.cow]
           dup == p \in Sparse /\ s.own # own
<1>2. PM!slow_lookup(cid, v) = p BY PpcLookup
<1>3. k \in PM!All /\ k[1] = cid /\ k[2] = v /\ Mts!Keys = PM!All BY PpcNow DEF PM!All, Mts!Keys
<1>4. UNCHANGED PM!regs BY <1>1
<1>5. PagesNow[k] = PM!HostPage(p) BY <1>3, PpcNow DEF PM!Current
<1>6. PM!Kept(k) = IF e.v = v THEN {e.host} ELSE {} BY <1>3 DEF PM!Kept
<1>7. PagesKept[k] = {h \in PM!Kept(k) : h # PM!HostPage(p)} BY <1>3, PpcNow DEF PM!Stale
<1>8. CASE e.v = v /\ told' = [op |-> "use", key |-> k, value |-> e.host] /\ own' = own /\ mts' = mts
  <2>1. PagesNow' = PagesNow BY <1>4, <1>8, PpcCurrentSame
  <2>2. told'.op = "use" /\ told'.key = k /\ told'.value = e.host BY <1>8
  <2>3. e.host = PagesNow[k] \/ e.host \in PagesKept[k] BY <1>5, <1>6, <1>7, <1>8
  <2>4. \A j \in PM!All : PM!Kept(j)' = PM!Kept(j) BY <1>8 DEF PM!Kept
  <2>5. \A j \in PM!All : PagesKept'[j] \subseteq PagesKept[j]
    <3>1. \A j \in PM!All : PagesKept'[j] = {h \in PM!Kept(j)' : h # PagesNow'[j]}
      BY PpcNext DEF PM!Stale, PM!Current
    <3>2. \A j \in PM!All : PagesKept[j] = {h \in PM!Kept(j) : h # PagesNow[j]}
      BY PpcNow DEF PM!Stale, PM!Current
    <3> QED BY <2>1, <2>4, <3>1, <3>2
  <2> QED BY <1>3, <2>1, <2>2, <2>3, <2>5 DEF Mts!Next, Mts!Use
<1>9. CASE /\ own' = IF p \in Sparse THEN s.own ELSE own
           /\ mts' = IF p = None \/ p \in Device THEN mts ELSE [mts EXCEPT ![cid][MtsBucketOf[v]] = ne]
           /\ told' = IF dup THEN [op |-> "forget", keys |-> {k}]
                      ELSE [op |-> "use", key |-> k, value |-> host]
  <2>1. s.own = (IF p \in own \/ (Ghosted /\ ~write) THEN own ELSE own \cup {p})
        /\ s.host = (IF p \in own \/ ~Ghosted \/ write THEN <<p, "own">> ELSE <<p, "ghost">>)
    BY DEF PM!sparse_host
  <2>2. ne.v = v /\ ne.host = host OBVIOUS
  <2>3. MtsShape BY DEF PpcMmuInv
  <2>4. \A j \in PM!All : j # k => PM!Kept(j)' \subseteq PM!Kept(j)
    <3>1. CASE p = None \/ p \in Device BY <1>9, <3>1 DEF PM!Kept
    <3>2. CASE ~(p = None \/ p \in Device)
      <4> HIDE DEF ne
      <4> QED BY <1>9, <2>2, <2>3, <3>2, PpcReplaced
    <3> QED BY <3>1, <3>2
  <2>5. p \notin Device /\ p # None => PM!Kept(k)' = {host}
    <3> HIDE DEF ne, host
    <3> QED BY <1>9, <2>2, <2>3, PpcReplaced
  <2>6. p = None \/ p \in Device => PM!Kept(k)' = PM!Kept(k) BY <1>9 DEF PM!Kept
  <2>7. PagesKept'[k] = {h \in PM!Kept(k)' : h # PM!HostPage(p)'}
    <3>1. PagesKept'[k] = {h \in PM!Kept(k)' : h # PM!HostPage(PM!Translation(k[1], k[2]))'}
      BY <1>3, PpcNext DEF PM!Stale
    <3> QED BY <1>3, <3>1
  <2>8. p' = p BY <1>4, PpcTranslationSame
  <2>9. CASE dup
    <3>1. own' = own \cup {p} /\ s.host = <<p, "own">> /\ p \in Sparse /\ p \notin Device /\ p # None
      BY <1>9, <2>1, <2>9 DEF PM!PpcMmuAssumption
    <3>2. host = <<p, "own">> BY <3>1
    <3>3. PM!HostPage(p)' = <<p, "own">> BY <2>8, <3>1 DEF PM!HostPage
    <3>4. PagesKept'[k] = {} BY <2>5, <2>7, <3>1, <3>2, <3>3
    <3>5. told'.op = "forget" /\ told'.keys = {k} BY <1>9, <2>9
    <3>6. \A j \in PM!All : j # k => Mts!Ages(j) BY <2>4, PpcAges
    <3> QED BY <1>3, <3>4, <3>5, <3>6 DEF Mts!Next, Mts!Forget
  <2>10. CASE ~dup
    <3>1. own' = own BY <1>9, <2>10
    <3>2. PagesNow' = PagesNow BY <1>4, <3>1, PpcCurrentSame
    <3>3. told'.op = "use" /\ told'.key = k /\ told'.value = host BY <1>9, <2>10
    <3>4. host = PM!HostPage(p)
      BY <2>1, <2>10 DEF PM!HostPage, PM!PpcMmuAssumption
    <3>5. PM!HostPage(p)' = PM!HostPage(p) BY <2>8, <3>1 DEF PM!HostPage
    <3>6. \A j \in PM!All : PagesKept'[j] \subseteq PagesKept[j]
      <4>1. \A j \in PM!All : PagesKept'[j] = {h \in PM!Kept(j)' : h # PagesNow'[j]}
        BY PpcNext DEF PM!Stale, PM!Current
      <4>2. \A j \in PM!All : PagesKept[j] = {h \in PM!Kept(j) : h # PagesNow[j]}
        BY PpcNow DEF PM!Stale, PM!Current
      <4>3. \A j \in PM!All : j # k => PagesKept'[j] \subseteq PagesKept[j] BY <2>4, <3>2, <4>1, <4>2
      <4>4. PagesKept'[k] \subseteq PagesKept[k]
        BY <1>7, <2>5, <2>6, <2>7, <3>4, <3>5
      <4> QED BY <4>3, <4>4
    <3> QED BY <1>3, <1>5, <3>2, <3>3, <3>4, <3>6 DEF Mts!Next, Mts!Use
  <2> QED BY <2>9, <2>10
<1> QED
  <2>1. \/ e.v = v /\ told' = [op |-> "use", key |-> k, value |-> e.host] /\ own' = own /\ mts' = mts
        \/ /\ own' = IF p \in Sparse THEN s.own ELSE own
           /\ mts' = IF p = None \/ p \in Device THEN mts ELSE [mts EXCEPT ![cid][MtsBucketOf[v]] = ne]
           /\ told' = IF dup THEN [op |-> "forget", keys |-> {k}]
                      ELSE [op |-> "use", key |-> k, value |-> host]
    BY <1>1, <1>2
  <2> QED BY <1>8, <1>9, <2>1

\* Every step of the MMU of a PowerPC is one of a stale cache.
LEMMA PpcPagesStep ==
  ASSUME PM!PpcMmuAssumption, PpcMmuInv, part = "ppc mmu", part' = part, PM!MmuNext
  PROVE  Mts!Next
<1>1. CASE PM!SetMsr BY <1>1, PpcChange DEF PM!SetMsr, Mts!Next
<1>2. CASE PM!set_bat_spr BY <1>2, PpcForgetAll DEF PM!set_bat_spr, Mts!Next
<1>3. CASE PM!MTSR BY <1>3, PpcForgetAll DEF PM!MTSR, Mts!Next
<1>4. CASE PM!MTSPR_SDR1 BY <1>4, PpcForgetAll DEF PM!MTSPR_SDR1, Mts!Next
<1>5. CASE PM!TLBIA BY <1>5, PpcForgetAll DEF PM!TLBIA, Mts!Next
<1>6. CASE PM!map_page
  <2>1. told' = [op |-> "change"] /\ mts' = mts BY <1>6 DEF PM!map_page
  <2> QED BY <2>1, PpcChange DEF Mts!Next
<1>7. CASE PM!ClearPte
  <2>1. told' = [op |-> "change"] /\ mts' = mts BY <1>7 DEF PM!ClearPte
  <2> QED BY <2>1, PpcChange DEF Mts!Next
<1>8. CASE PM!TLBWE BY <1>8, PpcChange DEF PM!TLBWE, Mts!Next
<1>9. CASE PM!MTSPR_PID BY <1>9, PpcChange DEF PM!MTSPR_PID, Mts!Next
<1>10. CASE PM!Access BY <1>10, PpcAccessPages
<1>11. CASE PM!mem_restart BY <1>11, PpcForgetAll DEF PM!mem_restart, Mts!Next
<1> QED
  BY <1>1, <1>2, <1>3, <1>4, <1>5, <1>6, <1>7, <1>8, <1>9, <1>10, <1>11 DEF PM!MmuNext

\* The cache starts empty.
LEMMA PpcPagesStart ==
  ASSUME PM!PpcMmuAssumption, part = "ppc mmu", PM!MmuInit
  PROVE  Mts!Init
<1>1. ASSUME NEW k \in PM!All PROVE PagesKept[k] = {}
  <2>1. k[1] \in PM!Cid /\ k[2] \in Page /\ k[2] # None /\ MtsBucketOf[k[2]] \in MtsBucket
    BY DEF PM!All, PM!PpcMmuAssumption
  <2>2. mts[k[1]][MtsBucketOf[k[2]]] = PM!NoEntry BY <2>1 DEF PM!MmuInit
  <2>3. PM!NoEntry.v = None BY DEF PM!NoEntry
  <2>4. PM!Kept(k) = {} BY <2>1, <2>2, <2>3 DEF PM!Kept
  <2> QED BY <2>4, PpcNow DEF PM!Stale
<1>2. PagesKept = [k \in PM!All |-> PagesKept[k]] BY PpcNow DEF PM!Stale
<1>3. told.op = "start" BY DEF PM!MmuInit
<1> QED BY <1>1, <1>2, <1>3, PpcNow DEF Mts!Init, Mts!Keys


-----------------------------------------------------------------------------
(* The address translation of a MIPS64.                                    *)

\* A TLB entry is for two runs of pages, at a multiple of their size.
TlbEntry(e) ==
  /\ e.vpn \in Nat /\ e.size \in Nat \ {0} /\ e.lo \in [1..2 -> MM!Half] /\ e.g \in BOOLEAN
  /\ \E q \in Nat : e.vpn = (2 * e.size) * q

\* No page is in the TLB twice for an address space.
TlbSeparate(t) ==
  \A i, k \in 1..TlbSize, v \in MipsPage :
     i # k /\ MM!Within(v, t[i]) /\ MM!Within(v, t[k])
     => ~t[i].g /\ ~t[k].g /\ t[i].asid # t[k].asid

Cp0OK == cp0.vpn \in Nat /\ cp0.size \in Nat \ {0} /\ cp0.lo \in [1..2 -> MM!Half]

\* The MTS cache has an entry for each bucket.
MipsMtsShape == mts = [b \in MtsBucket |-> mts[b]]

MipsMmuInv ==
  /\ family \in {32, 64}
  /\ Cp0OK
  /\ tlb = [i \in 1..TlbSize |-> tlb[i]]
  /\ \A i \in 1..TlbSize : TlbEntry(tlb[i])
  /\ TlbSeparate(tlb)
  /\ MipsMtsShape

LEMMA MipsMinIn == ASSUME NEW S, S \subseteq Nat, S # {} PROVE MM!Min(S) \in S
BY LeastNat DEF MM!Min

\* The half of an entry that a page is in, and where in it.
LEMMA HalfOfPage ==
  ASSUME NEW s \in Nat, s > 0, NEW q \in Nat, NEW n \in Nat, n = (2 * s) * q,
         NEW v \in Nat, n <= v, v < n + 2 * s
  PROVE  /\ (v \div s) % 2 = (v - n) \div s
         /\ v % s = (v - n) % s
         /\ (v - n) \div s \in {0, 1}
<1> DEFINE d == v - n  x == d \div s  r == d % s
<1>1. d \in Nat /\ d < 2 * s OBVIOUS
<1>2. x \in Nat /\ r \in 0 .. (s - 1) /\ d = s * x + r BY <1>1, DivMod
<1> HIDE DEF x, r
<1>3. x \in {0, 1}
  <2> SUFFICES ASSUME 1 < x PROVE FALSE BY <1>2
  <2>1. s * 1 + s <= s * x BY <1>2, Times
  <2>2. s * x \in Nat BY <1>2
  <2> QED BY <1>1, <1>2, <2>1, <2>2
<1>4. n = s * (2 * q) OBVIOUS
<1>5. v = s * (2 * q + x) + r
  <2>1. s * (2 * q + x) = s * (2 * q) + s * x BY <1>2
  <2>2. s * x \in Nat BY <1>2
  <2>3. v = n + d BY <1>1
  <2> QED BY <1>1, <1>2, <1>4, <2>1, <2>2, <2>3
<1>6. 2 * q + x \in Nat BY <1>3
<1>7. 2 * q + x = v \div s /\ r = v % s BY <1>2, <1>5, <1>6, DivModUnique
<1>8. (2 * q + x) % 2 = x BY <1>3
<1> QED BY <1>3, <1>7, <1>8 DEF x, r

\* The last page is one.
LEMMA MipsLastPage ==
  ASSUME MM!MipsMmuAssumption
  PROVE  MM!Max(MipsPage) \in Nat /\ \A v \in MipsPage : v <= MM!Max(MipsPage)
<1>1. MipsPage \subseteq Nat /\ \E x \in MipsPage : \A y \in MipsPage : x >= y
  BY DEF MM!MipsMmuAssumption
<1>2. /\ MM!Max(MipsPage) \in MipsPage
      /\ \A y \in MipsPage : MM!Max(MipsPage) >= y
  BY <1>1 DEF MM!Max
<1> QED BY <1>1, <1>2

\* An entry matches the pages it is for.
LEMMA MipsMatches ==
  ASSUME NEW e, TlbEntry(e), NEW v \in Nat
  PROVE  MM!Base(v, 2 * e.size) = e.vpn <=> MM!Within(v, e)
<1>1. PICK q \in Nat : e.vpn = (2 * e.size) * q BY DEF TlbEntry
<1>2. 2 * e.size \in Nat /\ 2 * e.size > 0 /\ e.vpn \in Nat BY DEF TlbEntry
<1> DEFINE n == 2 * e.size
<1> HIDE DEF n
<1>3. n * q = v - (v % n) <=> n * q <= v /\ v < n * q + n BY <1>2, BaseRange DEF n
<1>4. e.vpn = n * q BY <1>1 DEF n
<1>5. e.vpn = v - (v % n) <=> e.vpn <= v /\ v < e.vpn + n BY <1>3, <1>4
<1> QED BY <1>2, <1>5 DEF n, MM!Base, MM!Within

LEMMA MipsHalf ==
  ASSUME NEW e, TlbEntry(e), NEW v \in Nat, MM!Within(v, e)
  PROVE  /\ (v \div e.size) % 2 = (v - e.vpn) \div e.size
         /\ v % e.size = (v - e.vpn) % e.size
<1>1. PICK q \in Nat : e.vpn = (2 * e.size) * q BY DEF TlbEntry
<1>2. e.size \in Nat /\ e.size > 0 /\ e.vpn \in Nat BY DEF TlbEntry
<1>3. e.vpn <= v /\ v < e.vpn + 2 * e.size BY <1>2 DEF MM!Within
<1> DEFINE s == e.size  n == e.vpn
<1> HIDE DEF s, n
<1>4. s \in Nat /\ s > 0 /\ n \in Nat /\ n = (2 * s) * q /\ n <= v /\ v < n + 2 * s
  BY <1>1, <1>2, <1>3 DEF s, n
<1>5. (v \div s) % 2 = (v - n) \div s /\ v % s = (v - n) % s BY <1>4, HalfOfPage
<1> QED BY <1>5 DEF s, n

\* Where an entry of the address space says that a page lies.
MipsMine(v) == {i \in 1..TlbSize : MM!Translates(tlb[i], v) /\ (tlb[i].g \/ tlb[i].asid = cp0.asid)}
MipsAt(e, v) == e.lo[1 + ((v - e.vpn) \div e.size)].p + ((v - e.vpn) % e.size)
MipsFound(v) ==
  IF MipsMine(v) = {} THEN None ELSE MipsAt(tlb[CHOOSE i \in MipsMine(v) : TRUE], v)

\* The TLB says where a page lies,
LEMMA MipsTlbLookup ==
  ASSUME MM!MipsMmuAssumption, MipsMmuInv, NEW v \in MipsPage
  PROVE  MM!mips64_cp0_tlb_lookup(v) = MipsFound(v)
<1> DEFINE mine == MipsMine(v)
           hits == {i \in 1..TlbSize : /\ MM!Base(v, 2 * tlb[i].size) = tlb[i].vpn
                                       /\ tlb[i].g \/ tlb[i].asid = cp0.asid}
           m == MM!Min(hits)
           half == tlb[m].lo[1 + ((v \div tlb[m].size) % 2)]
           c == CHOOSE i \in mine : TRUE
<1>1. v \in Nat BY DEF MM!MipsMmuAssumption
<1>2. \A i \in 1..TlbSize : TlbEntry(tlb[i]) BY DEF MipsMmuInv
<1>3. \A i \in 1..TlbSize :
         i \in hits <=> MM!Within(v, tlb[i]) /\ (tlb[i].g \/ tlb[i].asid = cp0.asid)
  BY <1>1, <1>2, MipsMatches
<1>4. \A i, k \in hits : i = k BY <1>3 DEF MipsMmuInv, TlbSeparate
<1>5. mine \subseteq hits BY <1>3 DEF MipsMine, MM!Translates
<1>6. MM!mips64_cp0_tlb_lookup(v)
        = IF hits = {} THEN None
          ELSE IF half.valid THEN half.p + (v % tlb[m].size) ELSE None
  BY DEF MM!mips64_cp0_tlb_lookup
<1>7. CASE hits = {}
  <2>1. mine = {} BY <1>5, <1>7
  <2>2. MipsFound(v) = None BY <2>1 DEF MipsFound
  <2> QED BY <1>6, <1>7, <2>2
<1>8. CASE hits # {}
  <2>1. hits \subseteq 1..TlbSize /\ 1..TlbSize \subseteq Nat BY DEF MM!MipsMmuAssumption
  <2>2. m \in hits /\ m \in 1..TlbSize BY <1>8, <2>1, MipsMinIn
  <2>3. MM!Within(v, tlb[m]) BY <1>3, <2>2
  <2>4. /\ (v \div tlb[m].size) % 2 = (v - tlb[m].vpn) \div tlb[m].size
        /\ v % tlb[m].size = (v - tlb[m].vpn) % tlb[m].size
    BY <1>1, <1>2, <2>2, <2>3, MipsHalf
  <2>5. half = tlb[m].lo[1 + ((v - tlb[m].vpn) \div tlb[m].size)] BY <2>4
  <2>6. CASE half.valid
    <3>1. m \in mine BY <1>3, <2>2, <2>3, <2>5, <2>6 DEF MipsMine, MM!Translates
    <3>2. c \in mine BY <3>1
    <3>3. c = m BY <1>4, <1>5, <3>1, <3>2
    <3>4. mine # {} BY <3>1
    <3>5. MipsFound(v) = MipsAt(tlb[m], v) BY <3>3, <3>4 DEF MipsFound
    <3>6. MipsAt(tlb[m], v) = half.p + (v % tlb[m].size) BY <2>4 DEF MipsAt
    <3>7. MM!mips64_cp0_tlb_lookup(v) = half.p + (v % tlb[m].size) BY <1>6, <1>8, <2>6
    <3> QED BY <3>5, <3>6, <3>7
  <2>7. CASE ~half.valid
    <3>1. mine = {}
      <4> SUFFICES ASSUME NEW i \in mine PROVE FALSE OBVIOUS
      <4>1. i = m BY <1>4, <1>5, <2>2
      <4>2. MM!Translates(tlb[i], v) BY DEF MipsMine
      <4> QED BY <2>5, <2>7, <4>1, <4>2 DEF MM!Translates
    <3>2. MipsFound(v) = None BY <3>1 DEF MipsFound
    <3> QED BY <1>6, <1>8, <2>7, <3>2
  <2> QED BY <2>6, <2>7
<1> QED BY <1>7, <1>8

\* and the look-up of the code is the translation of the architecture.
LEMMA MipsLookup ==
  ASSUME MM!MipsMmuAssumption, MipsMmuInv, NEW v \in MipsPage
  PROVE  MM!slow_lookup(v) = MM!Translation(v)
<1>1. family \in {32, 64} BY DEF MipsMmuInv
<1> DEFINE found == MipsFound(v)
<1>2. MM!mips64_cp0_tlb_lookup(v) = found BY MipsTlbLookup
<1>3. MM!Translation(v) = IF family = 64 /\ ZoneOf[64][v].zone = "bad" THEN None
                          ELSE IF ~MM!Translated(v) THEN Direct[v] ELSE found
  BY DEF MM!Translation, MipsFound, MipsMine, MipsAt
<1> HIDE DEF found
<1>4. CASE family = 32
  BY <1>2, <1>3, <1>4
  DEF MM!slow_lookup, MM!mips64_mts32_slow_lookup, MM!Translated
<1>5. CASE family = 64
  <2> DEFINE z == ZoneOf[64][v]
  <2>1. \/ z.zone \in {"xkuseg", "xksseg", "xkseg", "xkphys", "bad"} /\ z.sub = "none"
        \/ z.zone = "top" /\ z.sub \in {"ckseg0", "ckseg1", "cksseg", "ckseg3"}
    BY DEF MM!MipsMmuAssumption
  <2>2. MM!slow_lookup(v) = MM!mips64_mts64_slow_lookup(v) BY <1>5 DEF MM!slow_lookup
  <2>3. MM!Translated(v) <=> \/ z.zone \in {"xkuseg", "xksseg", "xkseg"}
                             \/ z.sub \in {"cksseg", "ckseg3"}
    BY <1>5 DEF MM!Translated
  <2>4. MM!mips64_mts64_slow_lookup(v) =
          CASE z.zone \in {"xkuseg", "xksseg", "xkseg"} -> found
            [] z.zone = "top" /\ z.sub \in {"ckseg0", "ckseg1"} -> Direct[v]
            [] z.zone = "top" /\ z.sub \in {"cksseg", "ckseg3"} -> found
            [] z.zone = "xkphys" -> Direct[v]
            [] OTHER -> None
    BY <1>2 DEF MM!mips64_mts64_slow_lookup
  <2> HIDE DEF z
  <2>5. MM!Translation(v) = IF z.zone = "bad" THEN None
                            ELSE IF ~MM!Translated(v) THEN Direct[v] ELSE found
    BY <1>3, <1>5 DEF z
  <2> QED BY <2>1, <2>2, <2>3, <2>4, <2>5
<1> QED BY <1>1, <1>4, <1>5

\* At the start no entry is for a page.
LEMMA MipsMmuInitInv == ASSUME MM!MipsMmuAssumption, MM!MipsMmuInit PROVE MipsMmuInv
<1> DEFINE last == MM!Max(MipsPage)
<1>1. last \in Nat /\ \A v \in MipsPage : v <= last BY MipsLastPage
<1> HIDE DEF last
<1>2. MM!Off \in MM!Half BY DEF MM!Off, MM!Half
<1>3. <<MM!Off, MM!Off>> \in [1..2 -> MM!Half]
  <2> DEFINE o == MM!Off
  <2> HIDE DEF o
  <2>1. o \in MM!Half BY <1>2 DEF o
  <2>2. <<o, o>> \in [1..2 -> MM!Half] BY <2>1
  <2> QED BY <2>2 DEF o
<1>4. \A i \in 1..TlbSize : tlb[i] = MM!NoTlb BY DEF MM!MipsMmuInit
<1>5. /\ MM!NoTlb.vpn = 2 * (last + 1) /\ MM!NoTlb.size = 1 /\ MM!NoTlb.g = FALSE
      /\ MM!NoTlb.lo = <<MM!Off, MM!Off>>
  BY DEF MM!NoTlb, last
<1>6. TlbEntry(MM!NoTlb)
  <2> DEFINE e == MM!NoTlb
  <2>1. last + 1 \in Nat /\ e.vpn = (2 * e.size) * (last + 1) BY <1>1, <1>5
  <2>2. e.vpn \in Nat /\ e.size \in Nat \ {0} BY <1>1, <1>5
  <2>3. e.lo \in [1..2 -> MM!Half] BY <1>3, <1>5
  <2>4. e.g \in BOOLEAN BY <1>5
  <2> HIDE DEF e
  <2>5. \E q \in Nat : e.vpn = (2 * e.size) * q BY <2>1
  <2>6. TlbEntry(e) BY <2>2, <2>3, <2>4, <2>5 DEF TlbEntry
  <2> QED BY <2>6 DEF e
<1>7. \A v \in MipsPage : ~MM!Within(v, MM!NoTlb)
  BY <1>1, <1>5 DEF MM!Within, MM!MipsMmuAssumption
<1>8. TlbSeparate(tlb) BY <1>4, <1>7 DEF TlbSeparate
<1>9. Cp0OK BY <1>3 DEF Cp0OK, MM!MipsMmuInit
<1>10. tlb = [i \in 1..TlbSize |-> tlb[i]] BY DEF MM!MipsMmuInit
<1>11. MipsMtsShape BY DEF MipsMtsShape, MM!MipsMmuInit
<1>12. family \in {32, 64} BY DEF MM!MipsMmuInit
<1> QED BY <1>4, <1>6, <1>8, <1>9, <1>10, <1>11, <1>12 DEF MipsMmuInv

\* The TLB entry that the guest writes.
NewTlb == [vpn |-> MM!Base(cp0.vpn, 2 * cp0.size), asid |-> cp0.asid, size |-> cp0.size,
           g |-> cp0.lo[1].g /\ cp0.lo[2].g,
           lo |-> [h \in 1..2 |-> [cp0.lo[h] EXCEPT !.g = FALSE]]]

LEMMA HalfSet ==
  ASSUME NEW f, f \in [1..2 -> MM!Half], NEW b \in BOOLEAN
  PROVE  [h \in 1..2 |-> [f[h] EXCEPT !.g = b]] \in [1..2 -> MM!Half]
<1>1. \A x \in MM!Half : [x EXCEPT !.g = b] \in MM!Half BY DEF MM!Half
<1>2. \A h \in 1..2 : f[h] \in MM!Half OBVIOUS
<1>3. \A h \in 1..2 : [f[h] EXCEPT !.g = b] \in MM!Half BY <1>1, <1>2
<1> QED BY <1>3

LEMMA NewTlbEntry == ASSUME Cp0OK PROVE TlbEntry(NewTlb)
<1> DEFINE n == 2 * cp0.size  x == cp0.vpn
<1>1. n \in Nat /\ n > 0 /\ x \in Nat /\ cp0.size \in Nat \ {0} BY DEF Cp0OK
<1>2. x \div n \in Nat /\ x % n \in 0 .. (n - 1) /\ x = n * (x \div n) + (x % n)
  <2> HIDE DEF n, x
  <2> QED BY <1>1, DivMod
<1>3. n * (x \div n) \in Nat /\ x - (x % n) = n * (x \div n)
  <2> DEFINE y == x \div n  r == x % n
  <2> HIDE DEF n, x, y, r
  <2>1. y \in Nat /\ r \in 0 .. (n - 1) /\ x = n * y + r BY <1>2 DEF y, r
  <2>2. n * y \in Nat BY <1>1, <2>1
  <2>3. x - r = n * y BY <1>1, <2>1, <2>2
  <2> QED BY <2>2, <2>3 DEF y, r
<1>4. NewTlb.vpn = n * (x \div n) BY <1>3 DEF NewTlb, MM!Base
<1>5. NewTlb.size = cp0.size BY DEF NewTlb
<1>6. NewTlb.lo \in [1..2 -> MM!Half]
  <2>1. NewTlb.lo = [h \in 1..2 |-> [cp0.lo[h] EXCEPT !.g = FALSE]] BY DEF NewTlb
  <2>2. cp0.lo \in [1..2 -> MM!Half] BY DEF Cp0OK
  <2>3. [h \in 1..2 |-> [cp0.lo[h] EXCEPT !.g = FALSE]] \in [1..2 -> MM!Half] BY <2>2, HalfSet
  <2> QED BY <2>1, <2>3
<1>7. NewTlb.g \in BOOLEAN
  <2>1. cp0.lo[1] \in MM!Half /\ cp0.lo[2] \in MM!Half BY DEF Cp0OK
  <2>2. cp0.lo[1].g \in BOOLEAN /\ cp0.lo[2].g \in BOOLEAN BY <2>1 DEF MM!Half
  <2> QED BY <2>2 DEF NewTlb
<1>8. \E q \in Nat : NewTlb.vpn = (2 * NewTlb.size) * q BY <1>2, <1>4, <1>5
<1> QED BY <1>1, <1>3, <1>4, <1>5, <1>6, <1>7, <1>8 DEF TlbEntry

\* What TLBW does.
MipsClash(e) ==
  (NewTlb.g \/ e.g \/ e.asid = NewTlb.asid) /\ MM!Extent(e) \cap MM!Extent(NewTlb) # {}

LEMMA MipsTlbw ==
  ASSUME NEW i, MM!mips64_cp0_exec_tlbw(i)
  PROVE  /\ \A k \in 1..TlbSize : k = i \/ ~MipsClash(tlb[k])
         /\ MM!mips64_cp0_unmap_tlb_to_mts(i)
         /\ tlb' = [tlb EXCEPT ![i] = NewTlb]
         /\ told' = IF tlb[i].lo[1].valid \/ tlb[i].lo[2].valid
                    THEN [op |-> "forget", keys |-> MM!Covered(tlb[i])] ELSE [op |-> "change"]
         /\ UNCHANGED <<family, cp0, index, own>>
BY DEF MM!mips64_cp0_exec_tlbw, NewTlb, MipsClash

\* A new entry is for no page that another is for.
LEMMA MipsTlbwInv ==
  ASSUME MM!MipsMmuAssumption, MipsMmuInv, NEW i \in 1..TlbSize, MM!mips64_cp0_exec_tlbw(i)
  PROVE  MipsMmuInv'
<1> DEFINE n == NewTlb
<1>1. tlb' = [tlb EXCEPT ![i] = n] /\ UNCHANGED <<family, cp0, own>> BY MipsTlbw
<1>2. \A k \in 1..TlbSize : k = i \/ ~MipsClash(tlb[k]) BY MipsTlbw
<1>3. TlbEntry(n) BY NewTlbEntry DEF MipsMmuInv
<1>4. \A k, v : k \in 1..TlbSize /\ v \in MipsPage /\ k # i
                /\ MM!Within(v, tlb[k]) /\ MM!Within(v, n)
                => ~n.g /\ ~tlb[k].g /\ tlb[k].asid # n.asid
  <2> SUFFICES ASSUME NEW k \in 1..TlbSize, NEW v \in MipsPage, k # i,
                      MM!Within(v, tlb[k]), MM!Within(v, n)
               PROVE  ~n.g /\ ~tlb[k].g /\ tlb[k].asid # n.asid
    OBVIOUS
  <2>1. v \in MM!Extent(tlb[k]) \cap MM!Extent(n) BY DEF MM!Extent
  <2>2. ~(n.g \/ tlb[k].g \/ tlb[k].asid = n.asid) BY <1>2, <2>1 DEF MipsClash
  <2> QED BY <2>2
<1> HIDE DEF n
<1>5. tlb = [k \in 1..TlbSize |-> tlb[k]] BY DEF MipsMmuInv
<1>6. tlb'[i] = n /\ \A k \in 1..TlbSize : k # i => tlb'[k] = tlb[k] BY <1>1, <1>5
<1>7. tlb' = [k \in 1..TlbSize |-> tlb'[k]] BY <1>1, <1>5
<1>8. TlbSeparate(tlb) BY DEF MipsMmuInv
<1>9. TlbSeparate(tlb')
  <2> SUFFICES ASSUME NEW a \in 1..TlbSize, NEW b \in 1..TlbSize, NEW v \in MipsPage,
                      a # b, MM!Within(v, tlb'[a]), MM!Within(v, tlb'[b])
               PROVE  ~tlb'[a].g /\ ~tlb'[b].g /\ tlb'[a].asid # tlb'[b].asid
    BY DEF TlbSeparate
  <2>1. CASE a # i /\ b # i
    <3>1. tlb'[a] = tlb[a] /\ tlb'[b] = tlb[b] BY <1>6, <2>1
    <3> QED BY <1>8, <3>1 DEF TlbSeparate
  <2>2. CASE a = i BY <1>4, <1>6, <2>2
  <2>3. CASE b = i BY <1>4, <1>6, <2>3
  <2> QED BY <2>1, <2>2, <2>3
<1>10. \A k \in 1..TlbSize : TlbEntry(tlb'[k]) BY <1>3, <1>6 DEF MipsMmuInv
<1>11. MipsMtsShape'
  <2>1. mts' = mts \/ mts' = [b \in MtsBucket |-> MM!NoEntry]
    BY MipsTlbw DEF MM!mips64_cp0_unmap_tlb_to_mts, MM!invalidate_cache
  <2> QED BY <2>1 DEF MipsMmuInv, MipsMtsShape
<1>12. Cp0OK' BY <1>1 DEF MipsMmuInv, Cp0OK
<1> QED BY <1>1, <1>7, <1>9, <1>10, <1>11, <1>12 DEF MipsMmuInv

\* An operation that leaves the TLB and coprocessor 0 alone,
LEMMA MipsQuiet ==
  ASSUME MipsMmuInv, UNCHANGED <<family, cp0, tlb>>, MipsMtsShape'
  PROVE  MipsMmuInv'
BY DEF MipsMmuInv, Cp0OK

\* and one that loads coprocessor 0.
LEMMA MipsLoads ==
  ASSUME MipsMmuInv, UNCHANGED <<family, tlb, mts>>, Cp0OK'
  PROVE  MipsMmuInv'
BY DEF MipsMmuInv, MipsMtsShape

\* The operations keep the invariant.
LEMMA MipsMmuNextInv ==
  ASSUME MM!MipsMmuAssumption, MipsMmuInv, MM!MipsMmuNext
  PROVE  MipsMmuInv'
<1>0. MipsMtsShape BY DEF MipsMmuInv
<1>1. CASE MM!mips64_cp0_set_reg
  <2>1. PICK c \in Contents, a \in Asid :
          cp0' = [vpn |-> c.vpn, asid |-> a, size |-> c.size, lo |-> c.lo]
    BY <1>1 DEF MM!mips64_cp0_set_reg
  <2>2. c \in [vpn : Nat, size : Nat \ {0}, lo : [1..2 -> MM!Half]] BY DEF MM!MipsMmuAssumption
  <2>3. c.vpn \in Nat /\ c.size \in Nat \ {0} /\ c.lo \in [1..2 -> MM!Half] BY <2>2
  <2>4. cp0'.vpn = c.vpn /\ cp0'.size = c.size /\ cp0'.lo = c.lo BY <2>1
  <2>5. Cp0OK' BY <2>3, <2>4 DEF Cp0OK
  <2> QED BY <1>1, <2>5, MipsLoads DEF MM!mips64_cp0_set_reg
<1>2. CASE MM!SetIndex BY <1>0, <1>2, MipsQuiet DEF MM!SetIndex, MipsMtsShape
<1>3. CASE MM!mips64_cp0_exec_tlbp
  BY <1>0, <1>3, MipsQuiet DEF MM!mips64_cp0_exec_tlbp, MipsMtsShape
<1>4. CASE MM!mips64_cp0_exec_tlbr
  <2>1. CASE index \in 1..TlbSize
    <3> DEFINE e == tlb[index]
    <3>1. cp0' = [vpn |-> e.vpn, asid |-> e.asid, size |-> e.size,
                  lo |-> [h \in 1..2 |-> [e.lo[h] EXCEPT !.g = e.g]]]
      BY <1>4, <2>1 DEF MM!mips64_cp0_exec_tlbr
    <3>2. TlbEntry(e) BY <2>1 DEF MipsMmuInv
    <3> HIDE DEF e
    <3>3. /\ cp0'.vpn = e.vpn /\ cp0'.size = e.size
          /\ cp0'.lo = [h \in 1..2 |-> [e.lo[h] EXCEPT !.g = e.g]]
      BY <3>1
    <3>4. cp0'.lo \in [1..2 -> MM!Half] BY <3>2, <3>3, HalfSet DEF TlbEntry
    <3>5. Cp0OK' BY <3>2, <3>3, <3>4 DEF Cp0OK, TlbEntry
    <3> QED BY <1>4, <3>5, MipsLoads DEF MM!mips64_cp0_exec_tlbr
  <2>2. CASE index \notin 1..TlbSize
    BY <1>0, <1>4, <2>2, MipsQuiet DEF MM!mips64_cp0_exec_tlbr, MipsMtsShape
  <2> QED BY <2>1, <2>2
<1>5. CASE MM!mips64_cp0_exec_tlbwi
  <2>1. CASE index \in 1..TlbSize
    BY <1>5, <2>1, MipsTlbwInv DEF MM!mips64_cp0_exec_tlbwi
  <2>2. CASE index \notin 1..TlbSize
    BY <1>0, <1>5, <2>2, MipsQuiet DEF MM!mips64_cp0_exec_tlbwi, MipsMtsShape
  <2> QED BY <2>1, <2>2
<1>6. CASE MM!mips64_cp0_exec_tlbwr
  <2>1. PICK i \in (Wired + 1)..TlbSize : MM!mips64_cp0_exec_tlbw(i)
    BY <1>6 DEF MM!mips64_cp0_exec_tlbwr
  <2>2. i \in 1..TlbSize BY DEF MM!MipsMmuAssumption
  <2> QED BY <2>1, <2>2, MipsTlbwInv
<1>7. CASE MM!Access
  <2>1. UNCHANGED <<family, cp0, tlb>> BY <1>7 DEF MM!Access
  <2>2. mts' = mts \/ \E b, e : mts' = [mts EXCEPT ![b] = e]
    BY <1>7 DEF MM!Access
  <2>3. MipsMtsShape' BY <1>0, <2>2 DEF MipsMtsShape
  <2> QED BY <2>1, <2>3, MipsQuiet
<1>8. CASE MM!mts_rebuild
  <2>1. MipsMtsShape' BY <1>8 DEF MM!mts_rebuild, MM!invalidate_cache, MipsMtsShape
  <2> QED BY <1>8, <2>1, MipsQuiet DEF MM!mts_rebuild
<1> QED BY <1>1, <1>2, <1>3, <1>4, <1>5, <1>6, <1>7, <1>8 DEF MM!MipsMmuNext

\* What the cache answers is in its only entry for the page.
LEMMA MipsNow == ASSUME part = "mips mmu"
                 PROVE  PagesNow = MM!Current /\ PagesKept = MM!Stale /\ Mts!Keys = MipsPage
BY DEF PagesNow, PagesKept, MM!Current, Mts!Keys

LEMMA MipsNext == ASSUME part = "mips mmu", part' = part
                  PROVE  PagesNow' = MM!Current' /\ PagesKept' = MM!Stale'
BY DEF PagesNow, PagesKept

\* Where no entry was made, none comes back.
LEMMA MipsAges ==
  ASSUME part = "mips mmu", part' = part, NEW v \in MipsPage, MM!Kept(v)' \subseteq MM!Kept(v)
  PROVE  Mts!Ages(v)
<1>1. PagesNow[v] = MM!HostPage(MM!Translation(v)) BY MipsNow DEF MM!Current
<1>2. PagesKept[v] = {h \in MM!Kept(v) : h # MM!HostPage(MM!Translation(v))}
  BY MipsNow DEF MM!Stale
<1>3. PagesKept'[v] \subseteq MM!Kept(v)' BY MipsNext DEF MM!Stale
<1> QED BY <1>1, <1>2, <1>3 DEF Mts!Ages

\* An empty cache answers nothing.
LEMMA MipsEmpty ==
  ASSUME MM!MipsMmuAssumption, part = "mips mmu", part' = part, MM!invalidate_cache, NEW v \in MipsPage
  PROVE  MM!Kept(v)' = {} /\ PagesKept'[v] = {}
<1>1. v # None /\ MipsBucketOf[v] \in MtsBucket BY DEF MM!MipsMmuAssumption
<1>2. mts'[MipsBucketOf[v]] = MM!NoEntry BY <1>1 DEF MM!invalidate_cache
<1>3. MM!NoEntry.v = None BY DEF MM!NoEntry
<1>4. MM!Kept(v)' = {} BY <1>1, <1>2, <1>3 DEF MM!Kept
<1> QED BY <1>4, MipsNext DEF MM!Stale

LEMMA MipsForget ==
  ASSUME MM!MipsMmuAssumption, part = "mips mmu", part' = part, MM!invalidate_cache,
         told'.op = "forget"
  PROVE  Mts!Forget
<1>1. \A v \in MipsPage : PagesKept'[v] = {} BY MipsEmpty
<1>2. \A v \in MipsPage : Mts!Ages(v) BY <1>1 DEF Mts!Ages
<1> QED BY <1>1, <1>2, MipsNow DEF Mts!Forget

LEMMA MipsChange ==
  ASSUME part = "mips mmu", part' = part, mts' = mts, told'.op = "change"
  PROVE  Mts!Change
<1>1. \A v \in MipsPage : MM!Kept(v)' \subseteq MM!Kept(v) BY DEF MM!Kept
<1> QED BY <1>1, MipsNow, MipsAges DEF Mts!Change

\* Where a page lies is for the TLB and the address space to say.
LEMMA MipsTranslationSame ==
  ASSUME UNCHANGED <<family, cp0, tlb>>, NEW v
  PROVE  MM!Translation(v)' = MM!Translation(v)
BY DEF MM!Translation, MM!Translated, MM!Translates, MM!Within

LEMMA MipsCurrentSame ==
  ASSUME part = "mips mmu", part' = part, UNCHANGED <<family, cp0, tlb, own>>
  PROVE  PagesNow' = PagesNow
<1>1. ASSUME NEW v \in MipsPage
      PROVE  MM!HostPage(MM!Translation(v))' = MM!HostPage(MM!Translation(v))
  <2>1. MM!Translation(v)' = MM!Translation(v) BY MipsTranslationSame
  <2> QED BY <2>1 DEF MM!HostPage
<1>2. MM!Current' = MM!Current BY <1>1 DEF MM!Current
<1> QED BY <1>2, MipsNow, MipsNext

\* If less is kept and nothing moved, less is stale.
LEMMA MipsStaleLess ==
  ASSUME part = "mips mmu", part' = part, PagesNow' = PagesNow, NEW v \in MipsPage,
         MM!Kept(v)' \subseteq MM!Kept(v) \cup {PagesNow[v]}
  PROVE  PagesKept'[v] \subseteq PagesKept[v]
<1>1. PagesKept'[v] = {h \in MM!Kept(v)' : h # MM!HostPage(MM!Translation(v))'}
  BY MipsNext DEF MM!Stale
<1>2. PagesNow'[v] = MM!HostPage(MM!Translation(v))' BY MipsNext DEF MM!Current
<1>3. PagesKept[v] = {h \in MM!Kept(v) : h # PagesNow[v]} BY MipsNow DEF MM!Stale, MM!Current
<1> QED BY <1>1, <1>2, <1>3

LEMMA MipsOther ==
  ASSUME part = "mips mmu", part' = part, UNCHANGED <<family, cp0, tlb, own, mts>>,
         told' = MM!Other
  PROVE  Mts!Other
<1>1. PagesNow' = PagesNow BY MipsCurrentSame
<1>2. \A v \in MipsPage : MM!Kept(v)' \subseteq MM!Kept(v) BY DEF MM!Kept
<1>3. \A v \in MipsPage : PagesKept'[v] \subseteq PagesKept[v] BY <1>1, <1>2, MipsStaleLess
<1>4. told'.op = "other" BY DEF MM!Other
<1> QED BY <1>1, <1>3, <1>4, MipsNow DEF Mts!Other

\* mips64_cp0_exec_tlbw.
LEMMA MipsTlbwPages ==
  ASSUME MM!MipsMmuAssumption, part = "mips mmu", part' = part, NEW i, MM!mips64_cp0_exec_tlbw(i)
  PROVE  Mts!Next
<1>1. /\ MM!mips64_cp0_unmap_tlb_to_mts(i)
      /\ told' = IF tlb[i].lo[1].valid \/ tlb[i].lo[2].valid
                 THEN [op |-> "forget", keys |-> MM!Covered(tlb[i])] ELSE [op |-> "change"]
  BY MipsTlbw
<1>2. CASE tlb[i].lo[1].valid \/ tlb[i].lo[2].valid
  <2>1. MM!invalidate_cache BY <1>1, <1>2 DEF MM!mips64_cp0_unmap_tlb_to_mts
  <2>2. told'.op = "forget" BY <1>1, <1>2
  <2> QED BY <2>1, <2>2, MipsForget DEF Mts!Next
<1>3. CASE ~(tlb[i].lo[1].valid \/ tlb[i].lo[2].valid)
  <2>1. mts' = mts BY <1>1, <1>3 DEF MM!mips64_cp0_unmap_tlb_to_mts
  <2>2. told'.op = "change" BY <1>1, <1>3
  <2> QED BY <2>1, <2>2, MipsChange DEF Mts!Next
<1> QED BY <1>2, <1>3

\* An entry replaces the one of its bucket.
LEMMA MipsReplaced ==
  ASSUME MM!MipsMmuAssumption, MipsMtsShape, NEW v \in MipsPage, NEW e, e.v = v,
         mts' = [mts EXCEPT ![MipsBucketOf[v]] = e]
  PROVE  /\ MM!Kept(v)' = {e.host}
         /\ \A k \in MipsPage : k # v => MM!Kept(k)' \subseteq MM!Kept(k)
<1>1. MipsBucketOf[v] \in MtsBucket BY DEF MM!MipsMmuAssumption
<1>2. mts = [b \in MtsBucket |-> mts[b]] BY DEF MipsMtsShape
<1>3. mts'[MipsBucketOf[v]] = e BY <1>1, <1>2
<1>4. \A b \in MtsBucket : b # MipsBucketOf[v] => mts'[b] = mts[b] BY <1>1, <1>2
<1>5. MM!Kept(v)' = {e.host} BY <1>3 DEF MM!Kept
<1>6. ASSUME NEW k \in MipsPage, k # v PROVE MM!Kept(k)' \subseteq MM!Kept(k)
  <2>1. MipsBucketOf[k] \in MtsBucket BY DEF MM!MipsMmuAssumption
  <2>2. CASE MipsBucketOf[k] # MipsBucketOf[v] BY <1>4, <2>1, <2>2 DEF MM!Kept
  <2>3. CASE MipsBucketOf[k] = MipsBucketOf[v]
    <3>1. MM!Kept(k)' = {} BY <1>3, <1>6, <2>3 DEF MM!Kept
    <3> QED BY <3>1
  <2> QED BY <2>2, <2>3
<1> QED BY <1>5, <1>6

\* mips64_mts32_access, mips64_mts64_access.
LEMMA MipsAccessPages ==
  ASSUME MM!MipsMmuAssumption, MipsMmuInv, part = "mips mmu", part' = part, MM!Access
  PROVE  Mts!Next
<1>1. PICK v \in MipsPage, write \in BOOLEAN :
        LET e    == mts[MipsBucketOf[v]]
            hit  == e.v = v /\ ~(write /\ e.cow)
            p    == MM!slow_lookup(v)
            s    == MM!sparse_host(p, write)
            host == IF p = None THEN None ELSE IF p \in Sparse THEN s.host ELSE <<p, "ram">>
            use(x) == [op |-> "use", key |-> v, value |-> x]
            dup  == p \in Sparse /\ s.own # own
        IN  /\ IF hit THEN told' = use(e.host) /\ UNCHANGED <<own, mts>>
               ELSE /\ own' = IF p \in Sparse THEN s.own ELSE own
                    /\ mts' = IF p = None \/ p \in Device THEN mts
                              ELSE [mts EXCEPT ![MipsBucketOf[v]] =
                                      [v |-> v, p |-> p, host |-> host, cow |-> p \in Sparse /\ s.cow]]
                    /\ told' = IF dup THEN [op |-> "forget", keys |-> {v}] ELSE use(host)
            /\ UNCHANGED <<family, cp0, index, tlb>>
  BY DEF MM!Access
<1> DEFINE e  == mts[MipsBucketOf[v]]
           p  == MM!Translation(v)
           s  == MM!sparse_host(p, write)
           host == IF p = None THEN None ELSE IF p \in Sparse THEN s.host ELSE <<p, "ram">>
           ne == [v |-> v, p |-> p, host |-> host, cow |-> p \in Sparse /\ s.cow]
           dup == p \in Sparse /\ s.own # own
<1>2. MM!slow_lookup(v) = p BY MipsLookup
<1>3. UNCHANGED <<family, cp0, tlb>> BY <1>1
<1>4. Mts!Keys = MipsPage /\ PagesNow[v] = MM!HostPage(p) BY MipsNow DEF MM!Current
<1>5. MM!Kept(v) = IF e.v = v THEN {e.host} ELSE {} BY DEF MM!Kept
<1>6. PagesKept[v] = {h \in MM!Kept(v) : h # MM!HostPage(p)} BY MipsNow DEF MM!Stale
<1>7. CASE e.v = v /\ told' = [op |-> "use", key |-> v, value |-> e.host] /\ own' = own /\ mts' = mts
  <2>1. PagesNow' = PagesNow BY <1>3, <1>7, MipsCurrentSame
  <2>2. told'.op = "use" /\ told'.key = v /\ told'.value = e.host BY <1>7
  <2>3. e.host = PagesNow[v] \/ e.host \in PagesKept[v] BY <1>4, <1>5, <1>6, <1>7
  <2>4. \A k \in MipsPage : MM!Kept(k)' = MM!Kept(k) BY <1>7 DEF MM!Kept
  <2>5. \A k \in MipsPage : PagesKept'[k] \subseteq PagesKept[k] BY <2>1, <2>4, MipsStaleLess
  <2> QED BY <1>4, <2>1, <2>2, <2>3, <2>5 DEF Mts!Next, Mts!Use
<1>8. CASE /\ own' = IF p \in Sparse THEN s.own ELSE own
           /\ mts' = IF p = None \/ p \in Device THEN mts ELSE [mts EXCEPT ![MipsBucketOf[v]] = ne]
           /\ told' = IF dup THEN [op |-> "forget", keys |-> {v}]
                      ELSE [op |-> "use", key |-> v, value |-> host]
  <2>1. s.own = (IF p \in own \/ (Ghosted /\ ~write) THEN own ELSE own \cup {p})
        /\ s.host = (IF p \in own \/ ~Ghosted \/ write THEN <<p, "own">> ELSE <<p, "ghost">>)
    BY DEF MM!sparse_host
  <2>2. ne.v = v /\ ne.host = host OBVIOUS
  <2>3. MipsMtsShape BY DEF MipsMmuInv
  <2>4. \A k \in MipsPage : k # v => MM!Kept(k)' \subseteq MM!Kept(k)
    <3>1. CASE p = None \/ p \in Device BY <1>8, <3>1 DEF MM!Kept
    <3>2. CASE ~(p = None \/ p \in Device)
      <4> HIDE DEF ne
      <4> QED BY <1>8, <2>2, <2>3, <3>2, MipsReplaced
    <3> QED BY <3>1, <3>2
  <2>5. p \notin Device /\ p # None => MM!Kept(v)' = {host}
    <3> HIDE DEF ne, host
    <3> QED BY <1>8, <2>2, <2>3, MipsReplaced
  <2>6. p = None \/ p \in Device => MM!Kept(v)' = MM!Kept(v) BY <1>8 DEF MM!Kept
  <2>7. p' = p BY <1>3, MipsTranslationSame
  <2>8. CASE dup
    <3>1. own' = own \cup {p} /\ s.host = <<p, "own">> /\ p \in Sparse /\ p \notin Device /\ p # None
      BY <1>8, <2>1, <2>8 DEF MM!MipsMmuAssumption
    <3>2. host = <<p, "own">> BY <3>1
    <3>3. MM!HostPage(p)' = <<p, "own">> BY <2>7, <3>1 DEF MM!HostPage
    <3>4. PagesKept'[v] = {h \in MM!Kept(v)' : h # MM!HostPage(p)'} BY MipsNext DEF MM!Stale
    <3>5. told'.op = "forget" /\ told'.keys = {v} BY <1>8, <2>8
    <3>6. \A k \in MipsPage : k # v => Mts!Ages(k) BY <2>4, MipsAges
    <3>7. PagesKept'[v] = {} BY <2>5, <3>1, <3>2, <3>3, <3>4
    <3> QED BY <1>4, <3>5, <3>6, <3>7 DEF Mts!Next, Mts!Forget
  <2>9. CASE ~dup
    <3>1. own' = own BY <1>8, <2>9
    <3>2. PagesNow' = PagesNow BY <1>3, <3>1, MipsCurrentSame
    <3>3. told'.op = "use" /\ told'.key = v /\ told'.value = host BY <1>8, <2>9
    <3>4. host = MM!HostPage(p) BY <2>1, <2>9 DEF MM!HostPage, MM!MipsMmuAssumption
    <3>5. \A k \in MipsPage : MM!Kept(k)' \subseteq MM!Kept(k) \cup {PagesNow[k]}
      BY <1>4, <2>4, <2>5, <2>6, <3>4
    <3>6. \A k \in MipsPage : PagesKept'[k] \subseteq PagesKept[k] BY <3>2, <3>5, MipsStaleLess
    <3> QED BY <1>4, <3>2, <3>3, <3>4, <3>6 DEF Mts!Next, Mts!Use
  <2> QED BY <2>8, <2>9
<1> QED
  <2>1. \/ e.v = v /\ told' = [op |-> "use", key |-> v, value |-> e.host] /\ own' = own /\ mts' = mts
        \/ /\ own' = IF p \in Sparse THEN s.own ELSE own
           /\ mts' = IF p = None \/ p \in Device THEN mts ELSE [mts EXCEPT ![MipsBucketOf[v]] = ne]
           /\ told' = IF dup THEN [op |-> "forget", keys |-> {v}]
                      ELSE [op |-> "use", key |-> v, value |-> host]
    BY <1>1, <1>2
  <2> QED BY <1>7, <1>8, <2>1

\* Every step of the MMU of a MIPS64 is one of a stale cache.
LEMMA MipsPagesStep ==
  ASSUME MM!MipsMmuAssumption, MipsMmuInv, part = "mips mmu", part' = part, MM!MipsMmuNext
  PROVE  Mts!Next
<1>1. CASE MM!mips64_cp0_set_reg
  <2>1. told' = [op |-> "change"] /\ mts' = mts BY <1>1 DEF MM!mips64_cp0_set_reg
  <2> QED BY <2>1, MipsChange DEF Mts!Next
<1>2. CASE MM!SetIndex BY <1>2, MipsOther DEF MM!SetIndex, Mts!Next
<1>3. CASE MM!mips64_cp0_exec_tlbp BY <1>3, MipsOther DEF MM!mips64_cp0_exec_tlbp, Mts!Next
<1>4. CASE MM!mips64_cp0_exec_tlbr
  <2>1. UNCHANGED <<family, tlb, own, mts>>
        /\ (told' = [op |-> "change"] \/ (cp0' = cp0 /\ told' = MM!Other))
    BY <1>4 DEF MM!mips64_cp0_exec_tlbr
  <2>2. CASE told' = [op |-> "change"] BY <2>1, <2>2, MipsChange DEF Mts!Next
  <2>3. CASE cp0' = cp0 /\ told' = MM!Other BY <2>1, <2>3, MipsOther DEF Mts!Next
  <2> QED BY <2>1, <2>2, <2>3
<1>5. CASE MM!mips64_cp0_exec_tlbwi
  BY <1>5, MipsTlbwPages, MipsOther DEF MM!mips64_cp0_exec_tlbwi, Mts!Next
<1>6. CASE MM!mips64_cp0_exec_tlbwr BY <1>6, MipsTlbwPages DEF MM!mips64_cp0_exec_tlbwr
<1>7. CASE MM!Access BY <1>7, MipsAccessPages
<1>8. CASE MM!mts_rebuild
  <2>1. MM!invalidate_cache /\ told' = [op |-> "forget", keys |-> MipsPage]
    BY <1>8 DEF MM!mts_rebuild
  <2> QED BY <2>1, MipsForget DEF Mts!Next
<1> QED BY <1>1, <1>2, <1>3, <1>4, <1>5, <1>6, <1>7, <1>8 DEF MM!MipsMmuNext

\* The cache starts empty.
LEMMA MipsPagesStart ==
  ASSUME MM!MipsMmuAssumption, part = "mips mmu", MM!MipsMmuInit
  PROVE  Mts!Init
<1>1. ASSUME NEW v \in MipsPage PROVE PagesKept[v] = {}
  <2>1. v # None /\ MipsBucketOf[v] \in MtsBucket BY DEF MM!MipsMmuAssumption
  <2>2. mts[MipsBucketOf[v]] = MM!NoEntry BY <2>1 DEF MM!MipsMmuInit
  <2>3. MM!NoEntry.v = None BY DEF MM!NoEntry
  <2>4. MM!Kept(v) = {} BY <2>1, <2>2, <2>3 DEF MM!Kept
  <2> QED BY <2>4, MipsNow DEF MM!Stale
<1>2. PagesKept = [v \in MipsPage |-> PagesKept[v]] BY MipsNow DEF MM!Stale
<1>3. told.op = "start" BY DEF MM!MipsMmuInit
<1> QED BY <1>1, <1>2, <1>3, MipsNow DEF Mts!Init

-----------------------------------------------------------------------------
(* The MTS caches in the system.                                           *)

Parts == {"ppc code", "mips code", "ppc mmu", "mips mmu", "memory"}

MmuInv ==
  /\ part \in Parts
  /\ part = "ppc mmu" => PpcMmuInv
  /\ part = "mips mmu" => MipsMmuInv

LEMMA ExecutionConstants == PM!PpcMmuAssumption /\ MM!MipsMmuAssumption
BY ExecutionAssumption

LEMMA MmuInvInit == ExecutionInit => MmuInv
<1> SUFFICES ASSUME ExecutionInit PROVE MmuInv OBVIOUS
<1>1. part \in Parts BY DEF ExecutionInit, Parts
<1>2. part = "ppc mmu" => PpcMmuInv
  <2>1. part = "ppc mmu" => PM!MmuInit BY DEF ExecutionInit
  <2> QED BY <2>1, PpcMmuInitInv, ExecutionConstants
<1>3. part = "mips mmu" => MipsMmuInv
  <2>1. part = "mips mmu" => MM!MipsMmuInit BY DEF ExecutionInit
  <2> QED BY <2>1, MipsMmuInitInv, ExecutionConstants
<1> QED BY <1>1, <1>2, <1>3 DEF MmuInv

\* A step of a part that is not an MMU leaves both alone.
LEMMA MmuRests ==
  ASSUME MmuInv, UNCHANGED <<part, mmuVars>>
  PROVE  MmuInv' /\ UNCHANGED <<PagesNow, PagesKept, told>>
<1>1. UNCHANGED <<part, family, msr, bat, sr, sdr1, tlb, pid, pteg, mapped, own, mts, told, cp0>>
  BY DEF mmuVars
<1>2. MmuInv'
  <2>1. PpcMmuInv => PpcMmuInv' BY <1>1 DEF PpcMmuInv, RegsOK, MtsShape
  <2>2. MipsMmuInv => MipsMmuInv' BY <1>1 DEF MipsMmuInv, Cp0OK, MipsMtsShape
  <2> QED BY <1>1, <2>1, <2>2 DEF MmuInv
<1>3. CASE part = "ppc mmu"
  <2>1. PagesNow' = PagesNow BY <1>1, <1>3, PpcCurrentSame DEF PM!regs
  <2>2. PagesKept' = PagesKept
    <3>1. \A k \in PM!All : PM!Kept(k)' = PM!Kept(k) BY <1>1 DEF PM!Kept
    <3>2. PagesKept' = [k \in PM!All |-> {h \in PM!Kept(k)' : h # PagesNow'[k]}]
      BY <1>1, <1>3, PpcNext DEF PM!Stale, PM!Current
    <3>3. PagesKept = [k \in PM!All |-> {h \in PM!Kept(k) : h # PagesNow[k]}]
      BY <1>3, PpcNow DEF PM!Stale, PM!Current
    <3> QED BY <2>1, <3>1, <3>2, <3>3
  <2> QED BY <1>1, <1>2, <2>1, <2>2
<1>4. CASE part = "mips mmu"
  <2>1. PagesNow' = PagesNow BY <1>1, <1>4, MipsCurrentSame
  <2>2. PagesKept' = PagesKept
    <3>1. \A v \in MipsPage : MM!Kept(v)' = MM!Kept(v) BY <1>1 DEF MM!Kept
    <3>2. PagesKept' = [v \in MipsPage |-> {h \in MM!Kept(v)' : h # PagesNow'[v]}]
      BY <1>1, <1>4, MipsNext DEF MM!Stale, MM!Current
    <3>3. PagesKept = [v \in MipsPage |-> {h \in MM!Kept(v) : h # PagesNow[v]}]
      BY <1>4, MipsNow DEF MM!Stale, MM!Current
    <3> QED BY <2>1, <3>1, <3>2, <3>3
  <2> QED BY <1>1, <1>2, <2>1, <2>2
<1>5. CASE part # "ppc mmu" /\ part # "mips mmu"
  <2>1. PagesNow = Idle /\ PagesKept = Idle BY <1>5 DEF PagesNow, PagesKept
  <2>2. PagesNow' = Idle /\ PagesKept' = Idle BY <1>1, <1>5 DEF PagesNow, PagesKept, Idle
  <2> QED BY <1>1, <1>2, <2>1, <2>2
<1> QED BY <1>3, <1>4, <1>5

LEMMA MmuStep ==
  ASSUME MmuInv, [ExecutionNext]_<<part, codeVars, mmuVars, memVars>>
  PROVE  MmuInv' /\ [Mts!Next]_<<PagesNow, PagesKept, told>>
<1>1. CASE PpcMmuStep
  <2>1. part = "ppc mmu" /\ part' = part /\ PM!MmuNext BY <1>1 DEF PpcMmuStep
  <2>2. PpcMmuInv BY <2>1 DEF MmuInv
  <2>3. PpcMmuInv' BY <2>1, <2>2, ExecutionConstants, PpcMmuNextInv
  <2>4. Mts!Next BY <2>1, <2>2, ExecutionConstants, PpcPagesStep
  <2> QED BY <2>1, <2>3, <2>4 DEF MmuInv
<1>2. CASE MipsMmuStep
  <2>1. part = "mips mmu" /\ part' = part /\ MM!MipsMmuNext BY <1>2 DEF MipsMmuStep
  <2>2. MipsMmuInv BY <2>1 DEF MmuInv
  <2>3. MipsMmuInv' BY <2>1, <2>2, ExecutionConstants, MipsMmuNextInv
  <2>4. Mts!Next BY <2>1, <2>2, ExecutionConstants, MipsPagesStep
  <2> QED BY <2>1, <2>3, <2>4 DEF MmuInv
<1>3. CASE PpcCodeStep \/ MipsCodeStep \/ MemoryStep \/ UNCHANGED <<part, codeVars, mmuVars, memVars>>
  <2>1. UNCHANGED <<part, mmuVars>> BY <1>3 DEF PpcCodeStep, MipsCodeStep, MemoryStep
  <2> QED BY <2>1, MmuRests
<1> QED BY <1>1, <1>2, <1>3 DEF ExecutionNext

LEMMA MmuStart == ExecutionInit => Mts!Init
<1> SUFFICES ASSUME ExecutionInit PROVE Mts!Init OBVIOUS
<1>1. CASE part = "ppc mmu"
  <2>1. PM!MmuInit BY <1>1 DEF ExecutionInit
  <2> QED BY <1>1, <2>1, PpcPagesStart, ExecutionConstants
<1>2. CASE part = "mips mmu"
  <2>1. MM!MipsMmuInit BY <1>2 DEF ExecutionInit
  <2> QED BY <1>2, <2>1, MipsPagesStart, ExecutionConstants
<1>3. CASE part # "ppc mmu" /\ part # "mips mmu"
  <2>1. PagesNow = <<>> /\ PagesKept = <<>> BY <1>3 DEF PagesNow, PagesKept, Idle
  <2>2. told = [op |-> "start"] BY <1>3 DEF ExecutionInit, NoMmu
  <2>3. told.op = "start" BY <2>2
  <2>4. <<>> = [k \in {} |-> {}] OBVIOUS
  <2>5. DOMAIN <<>> = {} OBVIOUS
  <2>6. Mts!Keys = {} BY <2>1, <2>5 DEF Mts!Keys
  <2> QED BY <2>1, <2>3, <2>4, <2>6 DEF Mts!Init
<1> QED BY <1>1, <1>2, <1>3

\* The MTS caches implement a stale cache of the address translation: an access
\* reaches the host page that its address stands for now, or one that it stood for
\* at some time since the CPU had to forget it, whatever page tables, BATs and TLB
\* the guest has (ppc32_mem_access, ppc32_slow_lookup, mips64_mts32_access,
\* mips64_cp0_tlb_lookup, mips64_cp0_exec_tlbw).
THEOREM ExecutionForgottenPages == ExecutionSpec => ForgottenPages
<1>1. ExecutionInit => MmuInv /\ Mts!Init BY MmuInvInit, MmuStart
<1>2. MmuInv /\ [ExecutionNext]_<<part, codeVars, mmuVars, memVars>>
      => MmuInv' /\ [Mts!Next]_<<PagesNow, PagesKept, told>>
  BY MmuStep
<1> QED BY <1>1, <1>2, PTL DEF ExecutionSpec, ForgottenPages, Mts!Spec, Mts!cacheVars

-----------------------------------------------------------------------------
(* Loads and stores.                                                       *)

\* A word of n bytes, a number and not a set of them.
IsWord(w, n) == w = [i \in 1..n |-> w[i]]

LEMMA WordSeq ==
  ASSUME NEW n \in Nat, NEW w, IsWord(w, n)
  PROVE  w \in Seq({w[i] : i \in 1..n}) /\ Len(w) = n /\ DOMAIN w = 1..n
<1> DEFINE S == {w[i] : i \in 1..n}
<1>1. w \in [1..n -> S] BY DEF IsWord
<1>2. w \in Seq(S) BY <1>1
<1>3. Len(w) = n BY <1>1
<1>4. DOMAIN w = 1..n BY DEF IsWord
<1> QED BY <1>2, <1>3, <1>4

LEMMA WordFill == ASSUME NEW n \in Nat, NEW b PROVE IsWord(MO!Fill(b, n), n)
BY DEF IsWord, MO!Fill

\* One word after another,
Joined(r, u, p, w, q) ==
  /\ IsWord(r, p + q)
  /\ \A i \in 1..(p + q) : r[i] = IF i <= p THEN u[i] ELSE w[i - p]

LEMMA WordConcat ==
  ASSUME NEW p \in Nat, NEW q \in Nat, NEW u, NEW w, IsWord(u, p), IsWord(w, q)
  PROVE  Joined(u \o w, u, p, w, q)
<1> DEFINE S == {u[i] : i \in 1..p} \cup {w[i] : i \in 1..q}
<1>1. u \in [1..p -> S] /\ w \in [1..q -> S] BY DEF IsWord
<1> HIDE DEF S
<1>2. u \in Seq(S) /\ Len(u) = p /\ w \in Seq(S) /\ Len(w) = q BY <1>1
<1>3. u \o w \in Seq(S) /\ Len(u \o w) = p + q BY <1>2
<1>4. \A i \in 1..(p + q) : (u \o w)[i] = IF i <= p THEN u[i] ELSE w[i - p] BY <1>2
<1>5. u \o w \in [1..(p + q) -> S] BY <1>3, LenProperties
<1> QED BY <1>3, <1>4, <1>5 DEF IsWord, Joined

\* and a part of one.
LEMMA WordSub ==
  ASSUME NEW n \in Nat, NEW w, IsWord(w, n), NEW p \in 1..(n + 1), NEW q \in 0..n, p <= q + 1
  PROVE  /\ IsWord(SubSeq(w, p, q), q - p + 1)
         /\ \A i \in 1..(q - p + 1) : SubSeq(w, p, q)[i] = w[p + i - 1]
<1> DEFINE S == {w[i] : i \in 1..n}
<1>1. w \in [1..n -> S] BY DEF IsWord
<1> HIDE DEF S
<1>2. w \in Seq(S) /\ Len(w) = n BY <1>1
<1>3. SubSeq(w, p, q) = [i \in 1..(q - p + 1) |-> w[i + p - 1]] BY <1>2
<1>4. \A i \in 1..(q - p + 1) : SubSeq(w, p, q)[i] = w[p + i - 1] BY <1>3
<1> QED BY <1>3, <1>4 DEF IsWord

\* The operators on words, byte by byte.
LEMMA WordZext ==
  ASSUME NEW n \in 0..8, NEW w, IsWord(w, n)
  PROVE  /\ IsWord(MO!zext(w), 8)
         /\ \A i \in 1..8 : MO!zext(w)[i] = IF i <= 8 - n THEN {} ELSE w[i - (8 - n)]
<1>0. n \in Nat /\ 8 - n \in Nat OBVIOUS
<1>1. Len(w) = n BY <1>0, WordSeq
<1> DEFINE f == MO!Fill({}, 8 - n)
<1>2. IsWord(f, 8 - n) /\ \A i \in 1..(8 - n) : f[i] = {} BY <1>0, WordFill DEF MO!Fill
<1>3. MO!zext(w) = f \o w BY <1>1 DEF MO!zext, MO!Byte0
<1> HIDE DEF f
<1> DEFINE d == 8 - n
<1> HIDE DEF d
<1>4. /\ IsWord(f \o w, d + n)
      /\ \A i \in 1..(d + n) : (f \o w)[i] = IF i <= d THEN f[i] ELSE w[i - d]
  <2>1. d \in Nat /\ IsWord(f, d) BY <1>0, <1>2 DEF d
  <2>2. Joined(f \o w, f, d, w, n) BY <1>0, <2>1, WordConcat
  <2> QED BY <2>2 DEF Joined
<1>5. d + n = 8 /\ d = 8 - n BY DEF d
<1>6. \A i \in 1..8 : i <= 8 - n => i \in 1..(8 - n) OBVIOUS
<1> QED BY <1>2, <1>3, <1>4, <1>5, <1>6

LEMMA WordSext ==
  ASSUME NEW n \in 0..8, NEW w, IsWord(w, n)
  PROVE  /\ IsWord(MO!sext(w), 8)
         /\ \A i \in 1..8 :
               MO!sext(w)[i] = IF i <= 8 - n THEN MO!Sign(w[1]) ELSE w[i - (8 - n)]
<1>0. n \in Nat /\ 8 - n \in Nat OBVIOUS
<1>1. Len(w) = n BY <1>0, WordSeq
<1> DEFINE sg == MO!Sign(w[1])
           f == MO!Fill(sg, 8 - n)
<1> HIDE DEF sg
<1>2. IsWord(f, 8 - n) /\ \A i \in 1..(8 - n) : f[i] = sg BY <1>0, WordFill DEF MO!Fill
<1>3. MO!sext(w) = f \o w BY <1>1 DEF MO!sext, sg
<1> HIDE DEF f
<1> DEFINE d == 8 - n
<1> HIDE DEF d
<1>4. /\ IsWord(f \o w, d + n)
      /\ \A i \in 1..(d + n) : (f \o w)[i] = IF i <= d THEN f[i] ELSE w[i - d]
  <2>1. d \in Nat /\ IsWord(f, d) BY <1>0, <1>2 DEF d
  <2>2. Joined(f \o w, f, d, w, n) BY <1>0, <2>1, WordConcat
  <2> QED BY <2>2 DEF Joined
<1>5. d + n = 8 /\ d = 8 - n BY DEF d
<1>6. \A i \in 1..8 : i <= 8 - n => i \in 1..(8 - n) OBVIOUS
<1> QED BY <1>2, <1>3, <1>4, <1>5, <1>6 DEF sg

LEMMA WordLow ==
  ASSUME NEW p \in Nat, NEW n \in 0..p, NEW w, IsWord(w, p)
  PROVE  /\ IsWord(MO!Low(w, n), n)
         /\ \A i \in 1..n : MO!Low(w, n)[i] = w[p - n + i]
<1>1. MO!Low(w, n) = SubSeq(w, p - n + 1, p) BY WordSeq DEF MO!Low
<1> DEFINE a == p - n + 1
<1>2. a \in 1..(p + 1) /\ p \in 0..p /\ a <= p + 1 /\ p - a + 1 = n OBVIOUS
<1>3. \A i \in 1..n : a + i - 1 = p - n + i OBVIOUS
<1> HIDE DEF a
<1>4. /\ IsWord(SubSeq(w, a, p), p - a + 1)
      /\ \A i \in 1..(p - a + 1) : SubSeq(w, a, p)[i] = w[a + i - 1]
  BY <1>2, WordSub
<1> QED BY <1>1, <1>2, <1>3, <1>4 DEF a

LEMMA WordOr ==
  ASSUME NEW n \in Nat, NEW u, NEW w, IsWord(u, n)
  PROVE  IsWord(MO!or(u, w), n) /\ \A i \in 1..n : MO!or(u, w)[i] = u[i] \cup w[i]
<1>1. MO!or(u, w) = [i \in 1..n |-> u[i] \cup w[i]] BY WordSeq DEF MO!or
<1> QED BY <1>1 DEF IsWord

LEMMA WordMasks ==
  ASSUME NEW p \in Nat, NEW n \in Nat, NEW w, IsWord(w, p)
  PROVE  /\ IsWord(MO!low(w, n), p) /\ IsWord(MO!high(w, n), p)
         /\ \A i \in 1..p : MO!low(w, n)[i] = IF i > p - n THEN w[i] ELSE {}
         /\ \A i \in 1..p : MO!high(w, n)[i] = IF i > p - n THEN {} ELSE w[i]
<1>1. Len(w) = p BY WordSeq
<1>2. MO!low(w, n) = [i \in 1..p |-> IF i > p - n THEN w[i] ELSE {}] BY <1>1 DEF MO!low, MO!Byte0
<1>3. MO!high(w, n) = [i \in 1..p |-> IF i > p - n THEN {} ELSE w[i]] BY <1>1 DEF MO!high, MO!Byte0
<1> QED BY <1>2, <1>3 DEF IsWord

\* No shift of a pair is one by the full width.
LEMMA WordShl ==
  ASSUME NEW p \in Nat, NEW n \in Nat, n < p, NEW w, IsWord(w, p), NEW s
  PROVE  /\ IsWord(MO!shl(w, n, s), p)
         /\ \A i \in 1..p : MO!shl(w, n, s)[i] = IF i + n <= p THEN w[i + n] ELSE {}
<1>1. Len(w) = p BY WordSeq
<1> DEFINE u == SubSeq(w, n + 1, p)  f == MO!Fill({}, n)
<1>2. MO!shl(w, n, s) = u \o f BY <1>1 DEF MO!shl, MO!Byte0
<1>3. n + 1 \in 1..(p + 1) /\ p \in 0..p /\ n + 1 <= p + 1 /\ p - (n + 1) + 1 = p - n /\ p - n \in Nat
  OBVIOUS
<1>4. IsWord(u, p - (n + 1) + 1) /\ \A i \in 1..(p - (n + 1) + 1) : u[i] = w[(n + 1) + i - 1]
  BY <1>3, WordSub
<1>9. IsWord(u, p - n) BY <1>3, <1>4
<1>5. IsWord(f, n) /\ \A i \in 1..n : f[i] = {} BY WordFill DEF MO!Fill
<1> HIDE DEF u, f
<1> DEFINE d == p - n
<1> HIDE DEF d
<1>6. /\ IsWord(u \o f, d + n)
      /\ \A i \in 1..(d + n) : (u \o f)[i] = IF i <= d THEN u[i] ELSE f[i - d]
  <2>1. d \in Nat /\ IsWord(u, d) BY <1>3, <1>9 DEF d
  <2>2. Joined(u \o f, u, d, f, n) BY <1>5, <2>1, WordConcat
  <2> QED BY <2>2 DEF Joined
<1>7. d + n = p /\ d = p - n BY DEF d
<1>8. ASSUME NEW i \in 1..p PROVE (u \o f)[i] = IF i + n <= p THEN w[i + n] ELSE {}
  <2>1. CASE i <= p - n
    <3>1. i \in 1..(p - (n + 1) + 1) /\ (n + 1) + i - 1 = i + n /\ i + n <= p BY <2>1
    <3>2. u[i] = w[(n + 1) + i - 1] BY <1>4, <3>1
    <3> QED BY <1>6, <1>7, <2>1, <3>1, <3>2
  <2>2. CASE ~(i <= p - n)
    <3>1. i - (p - n) \in 1..n /\ ~(i + n <= p) BY <2>2
    <3> QED BY <1>5, <1>6, <1>7, <2>2, <3>1
  <2> QED BY <2>1, <2>2
<1> QED BY <1>2, <1>6, <1>7, <1>8

LEMMA WordShr ==
  ASSUME NEW p \in Nat, NEW n \in Nat, n < p, NEW w, IsWord(w, p), NEW s
  PROVE  /\ IsWord(MO!shr(w, n, s), p)
         /\ \A i \in 1..p : MO!shr(w, n, s)[i] = IF i <= n THEN {} ELSE w[i - n]
<1>1. Len(w) = p BY WordSeq
<1> DEFINE u == SubSeq(w, 1, p - n)  f == MO!Fill({}, n)
<1>2. MO!shr(w, n, s) = f \o u BY <1>1 DEF MO!shr, MO!Byte0
<1>3. 1 \in 1..(p + 1) /\ p - n \in 0..p /\ 1 <= (p - n) + 1 /\ (p - n) - 1 + 1 = p - n /\ p - n \in Nat
  OBVIOUS
<1>4. IsWord(u, (p - n) - 1 + 1) /\ \A i \in 1..((p - n) - 1 + 1) : u[i] = w[1 + i - 1]
  BY <1>3, WordSub
<1>9. IsWord(u, p - n) BY <1>3, <1>4
<1>5. IsWord(f, n) /\ \A i \in 1..n : f[i] = {} BY WordFill DEF MO!Fill
<1> HIDE DEF u, f
<1> DEFINE d == p - n
<1> HIDE DEF d
<1>6. /\ IsWord(f \o u, n + d)
      /\ \A i \in 1..(n + d) : (f \o u)[i] = IF i <= n THEN f[i] ELSE u[i - n]
  <2>1. d \in Nat /\ IsWord(u, d) BY <1>3, <1>9 DEF d
  <2>2. Joined(f \o u, f, n, u, d) BY <1>5, <2>1, WordConcat
  <2> QED BY <2>2 DEF Joined
<1>7. n + d = p /\ d = p - n BY DEF d
<1>8. ASSUME NEW i \in 1..p PROVE (f \o u)[i] = IF i <= n THEN {} ELSE w[i - n]
  <2>1. CASE i <= n
    <3>1. i \in 1..n BY <2>1
    <3> QED BY <1>5, <1>6, <1>7, <2>1, <3>1
  <2>2. CASE ~(i <= n)
    <3>1. i - n \in 1..((p - n) - 1 + 1) /\ 1 + (i - n) - 1 = i - n BY <2>2
    <3>2. u[i - n] = w[1 + (i - n) - 1] BY <1>4, <3>1
    <3> QED BY <1>6, <1>7, <2>2, <3>1, <3>2
  <2> QED BY <2>1, <2>2
<1> QED BY <1>2, <1>6, <1>7, <1>8

LEMMA WordAt ==
  ASSUME NEW m, NEW a, NEW n \in Nat
  PROVE  IsWord(MO!At(m, a, n), n) /\ \A i \in 1..n : MO!At(m, a, n)[i] = m[a + i - 1]
BY DEF MO!At, IsWord

\* A word put into memory.
Stored(r, m, a, w, n) == r = [x \in DOMAIN m |-> IF x \in a..(a + n - 1) THEN w[x - a + 1] ELSE m[x]]

LEMMA WordPut ==
  ASSUME NEW m, NEW a \in Nat, NEW n \in Nat, NEW w, IsWord(w, n)
  PROVE  Stored(MO!Put(m, a, w), m, a, w, n)
BY WordSeq DEF MO!Put, Stored

\* What the left store of a pair does, to the end of the word of n bytes at
\* base, and the right one, from there up to b; w are the bytes to be stored.
\* Where C leaves the right one open it stores them on top of what was there.
PutsLeft(m2, m, w, a, base, n) ==
  m2 = [x \in DOMAIN m |-> IF x \in a..(base + n - 1) THEN w[x - a + 1] ELSE m[x]]
PutsRight(m2, m, w, b, base, n) ==
  /\ m2 = [x \in DOMAIN m |-> m2[x]]
  /\ \A x \in DOMAIN m :
        IF x \in base..b
        THEN m2[x] = w[x - b + n] \/ (b = base + n - 1 /\ m2[x] = m[x] \cup w[x - b + n])
        ELSE m2[x] = m[x]

LEMMA StoreLeft ==
  ASSUME NEW m, DOMAIN m \subseteq Nat, NEW base \in Nat, NEW n \in Nat, NEW k \in Nat, k < n,
         NEW w, IsWord(w, n), NEW s, NEW a, a = base + k,
         NEW m2, m2 = MO!Put(m, base, MO!or(MO!high(MO!At(m, base, n), n - k), MO!shr(w, k, s)))
  PROVE  PutsLeft(m2, m, w, a, base, n)
<1> DEFINE old == MO!At(m, base, n)
           hi == MO!high(old, n - k)
           sh == MO!shr(w, k, s)
           v == MO!or(hi, sh)
<1>1. IsWord(old, n) /\ \A i \in 1..n : old[i] = m[base + i - 1] BY WordAt
<1> HIDE DEF old
<1>2. IsWord(hi, n) /\ \A i \in 1..n : hi[i] = IF i > k THEN {} ELSE old[i]
  <2> DEFINE d == n - k
  <2>1. d \in Nat /\ n - d = k OBVIOUS
  <2> HIDE DEF d
  <2>2. /\ IsWord(MO!high(old, d), n)
        /\ \A i \in 1..n : MO!high(old, d)[i] = IF i > n - d THEN {} ELSE old[i]
    BY <1>1, <2>1, WordMasks
  <2> QED BY <2>1, <2>2 DEF d
<1>3. \A i \in 1..n : sh[i] = IF i <= k THEN {} ELSE w[i - k] BY WordShr
<1> HIDE DEF hi, sh
<1>4. IsWord(v, n) /\ \A i \in 1..n : v[i] = hi[i] \cup sh[i] BY <1>2, WordOr
<1> HIDE DEF v
<1>5. ASSUME NEW i \in 1..n PROVE v[i] = IF i <= k THEN m[base + i - 1] ELSE w[i - k]
  <2>1. v[i] = hi[i] \cup sh[i] /\ old[i] = m[base + i - 1] BY <1>1, <1>4
  <2>2. hi[i] = IF i > k THEN {} ELSE old[i] BY <1>2
  <2>3. sh[i] = IF i <= k THEN {} ELSE w[i - k] BY <1>3
  <2>4. CASE i <= k
    <3>1. v[i] = old[i] \cup {} BY <2>1, <2>2, <2>3, <2>4
    <3> QED BY <2>1, <2>4, <3>1
  <2>5. CASE ~(i <= k)
    <3>1. v[i] = {} \cup w[i - k] BY <2>1, <2>2, <2>3, <2>5
    <3> QED BY <2>5, <3>1
  <2> QED BY <2>4, <2>5
<1>6. MO!Put(m, base, v) = [x \in DOMAIN m |-> IF x \in base..(base + n - 1) THEN v[x - base + 1] ELSE m[x]]
  <2>1. Stored(MO!Put(m, base, v), m, base, v, n) BY <1>4, WordPut
  <2> QED BY <2>1 DEF Stored
<1>7. ASSUME NEW x \in DOMAIN m
      PROVE  (IF x \in base..(base + n - 1) THEN v[x - base + 1] ELSE m[x])
               = (IF x \in (base + k)..(base + n - 1) THEN w[x - (base + k) + 1] ELSE m[x])
  <2>1. x \in Nat OBVIOUS
  <2>2. CASE x \in (base + k)..(base + n - 1)
    <3>1. x - base + 1 \in 1..n /\ ~(x - base + 1 <= k) /\ (x - base + 1) - k = x - (base + k) + 1
      BY <2>1, <2>2
    <3>2. v[x - base + 1] = w[(x - base + 1) - k] BY <1>5, <3>1
    <3> QED BY <2>1, <2>2, <3>1, <3>2
  <2>3. CASE x \in base..(base + k - 1)
    <3>1. x - base + 1 \in 1..n /\ x - base + 1 <= k /\ base + (x - base + 1) - 1 = x BY <2>1, <2>3
    <3>2. v[x - base + 1] = m[base + (x - base + 1) - 1] BY <1>5, <3>1
    <3> QED BY <2>1, <2>3, <3>1, <3>2
  <2>4. CASE ~(x \in base..(base + n - 1)) BY <2>1, <2>4
  <2> QED BY <2>1, <2>2, <2>3, <2>4
<1>8. MO!Put(m, base, v)
        = [x \in DOMAIN m |-> IF x \in (base + k)..(base + n - 1) THEN w[x - (base + k) + 1] ELSE m[x]]
  BY <1>6, <1>7
<1> QED BY <1>8 DEF PutsLeft, v, hi, sh, old

LEMMA StoreRight ==
  ASSUME NEW m, DOMAIN m \subseteq Nat, NEW base \in Nat, NEW n \in Nat, NEW k \in 1..n,
         NEW w, IsWord(w, n), NEW s,
         NEW mask, IsWord(mask, n),
         \/ k < n /\ mask = MO!low(MO!At(m, base, n), n - k)
         \/ k = n /\ mask = MO!Fill({}, n)
         \/ k = n /\ mask = MO!At(m, base, n)
  PROVE  PutsRight(MO!Put(m, base, MO!or(mask, MO!shl(w, n - k, s))), m, w, base + k - 1, base, n)
<1> DEFINE old == MO!At(m, base, n)
           sh == MO!shl(w, n - k, s)
           v == MO!or(mask, sh)
<1>1. IsWord(old, n) /\ \A i \in 1..n : old[i] = m[base + i - 1] BY WordAt
<1> HIDE DEF old
<1> DEFINE d == n - k
<1>0. d \in Nat /\ d < n /\ n - d = k OBVIOUS
<1>2. \A i \in 1..n : sh[i] = IF i + (n - k) <= n THEN w[i + (n - k)] ELSE {}
  <2> HIDE DEF d
  <2>1. \A i \in 1..n : MO!shl(w, d, s)[i] = IF i + d <= n THEN w[i + d] ELSE {} BY <1>0, WordShl
  <2> QED BY <2>1 DEF d
<1> HIDE DEF sh
<1>3. IsWord(v, n) /\ \A i \in 1..n : v[i] = mask[i] \cup sh[i] BY WordOr
<1>4. ASSUME NEW i \in 1..n
      PROVE  \/ i > k /\ mask[i] = old[i]
             \/ i <= k /\ mask[i] = {}
             \/ i <= k /\ k = n /\ mask[i] = old[i]
  <2>1. CASE k < n /\ mask = MO!low(old, n - k)
    <3> HIDE DEF d
    <3>1. \A j \in 1..n : MO!low(old, d)[j] = IF j > n - d THEN old[j] ELSE {}
      BY <1>0, <1>1, WordMasks
    <3>2. mask[i] = IF i > k THEN old[i] ELSE {} BY <1>0, <2>1, <3>1 DEF d
    <3> QED BY <3>2
  <2>2. CASE k = n /\ mask = MO!Fill({}, n) BY <2>2 DEF MO!Fill
  <2>3. CASE k = n /\ mask = old BY <2>3
  <2> QED BY <2>1, <2>2, <2>3 DEF old
<1> HIDE DEF v, d
<1>5. ASSUME NEW i \in 1..n
      PROVE  \/ i > k /\ v[i] = m[base + i - 1]
             \/ i <= k /\ v[i] = w[i + (n - k)]
             \/ i <= k /\ k = n /\ v[i] = m[base + i - 1] \cup w[i + (n - k)]
  <2>1. v[i] = mask[i] \cup sh[i] /\ old[i] = m[base + i - 1] BY <1>1, <1>3
  <2>2. i > k => sh[i] = {} BY <1>2
  <2>3. i <= k => sh[i] = w[i + (n - k)] BY <1>2
  <2> QED BY <1>4, <2>1, <2>2, <2>3
<1>6. MO!Put(m, base, v) = [x \in DOMAIN m |-> IF x \in base..(base + n - 1) THEN v[x - base + 1] ELSE m[x]]
  <2>1. Stored(MO!Put(m, base, v), m, base, v, n) BY <1>3, WordPut
  <2> QED BY <2>1 DEF Stored
<1> DEFINE m2 == MO!Put(m, base, v)  b == base + k - 1
<1>7. ASSUME NEW x \in DOMAIN m
      PROVE  IF x \in base..b
             THEN m2[x] = w[x - b + n] \/ (b = base + n - 1 /\ m2[x] = m[x] \cup w[x - b + n])
             ELSE m2[x] = m[x]
  <2>1. x \in Nat OBVIOUS
  <2>2. CASE x \in base..(base + n - 1)
    <3> DEFINE i == x - base + 1
    <3>1. i \in 1..n /\ base + i - 1 = x /\ (i <= k <=> x <= b) /\ i + (n - k) = x - b + n
      BY <2>1, <2>2
    <3>2. m2[x] = v[i] BY <1>6, <2>2
    <3> HIDE DEF i
    <3>3. \/ i > k /\ v[i] = m[base + i - 1]
          \/ i <= k /\ v[i] = w[i + (n - k)]
          \/ i <= k /\ k = n /\ v[i] = m[base + i - 1] \cup w[i + (n - k)]
      BY <1>5, <3>1
    <3>4. k = n => b = base + n - 1 OBVIOUS
    <3>5. x \in base..b <=> i <= k BY <2>1, <2>2, <3>1
    <3> HIDE DEF m2, b
    <3>6. i > k <=> ~(i <= k) BY <3>1
    <3> QED BY <3>1, <3>2, <3>3, <3>4, <3>5, <3>6
  <2>3. CASE ~(x \in base..(base + n - 1))
    <3>1. ~(x \in base..b) BY <2>1, <2>3
    <3> QED BY <1>6, <2>3, <3>1
  <2> QED BY <2>2, <2>3
<1>8. m2 = [x \in DOMAIN m |-> m2[x]] BY <1>6
<1> QED BY <1>7, <1>8 DEF PutsRight, v, sh

\* The places that the two stores of a pair meet at.
LEMMA PairPlaces ==
  ASSUME NEW n \in {4, 8}, NEW a \in Nat
  PROVE  /\ MO!Aligned(a, n) \in Nat /\ a % n \in 0..(n - 1) /\ a = MO!Aligned(a, n) + (a % n)
         /\ (a % n = 0 => (a + n - 1) % n = n - 1)
         /\ (a % n # 0 => (a + n - 1) % n = (a % n) - 1)
<1> DEFINE k == a % n  base == MO!Aligned(a, n)
<1>1. base \in Nat /\ k \in 0..(n - 1) /\ a = base + k BY DEF MO!Aligned
<1>2. PICK q \in Nat : base = n * q
  <2>1. CASE n = 4
    <3>1. a \div 4 \in Nat /\ a = 4 * (a \div 4) + (a % 4) OBVIOUS
    <3> QED BY <2>1, <3>1 DEF MO!Aligned
  <2>2. CASE n = 8
    <3>1. a \div 8 \in Nat /\ a = 8 * (a \div 8) + (a % 8) OBVIOUS
    <3> QED BY <2>2, <3>1 DEF MO!Aligned
  <2> QED BY <2>1, <2>2
<1>3. ASSUME NEW p \in Nat, NEW r \in 0..(n - 1), a + n - 1 = n * p + r PROVE (a + n - 1) % n = r
  <2>1. CASE n = 4 BY <1>3, <2>1
  <2>2. CASE n = 8 BY <1>3, <2>2
  <2> QED BY <2>1, <2>2
<1> HIDE DEF k, base
<1>4. ASSUME k = 0 PROVE (a + n - 1) % n = n - 1
  <2>1. a + n - 1 = n * q + (n - 1) /\ n - 1 \in 0..(n - 1) BY <1>1, <1>2, <1>4
  <2> QED BY <1>3, <2>1
<1>5. ASSUME k # 0 PROVE (a + n - 1) % n = k - 1
  <2>1. a + n - 1 = n * (q + 1) + (k - 1) /\ k - 1 \in 0..(n - 1) /\ q + 1 \in Nat
    <3>1. CASE n = 4 BY <1>1, <1>2, <1>5, <3>1
    <3>2. CASE n = 8 BY <1>1, <1>2, <1>5, <3>2
    <3> QED BY <3>1, <3>2
  <2> QED BY <1>3, <2>1
<1> QED BY <1>1, <1>4, <1>5 DEF k, base

\* A pair of stores, in either order, stores every byte once.
PairStored(m2, m, w, a, n) ==
  \A x \in DOMAIN m : m2[x] = IF x \in a..(a + n - 1) THEN w[x - a + 1] ELSE m[x]

LEMMA PairStores ==
  ASSUME NEW n \in {4, 8}, NEW a \in Nat, NEW m, DOMAIN m \subseteq Nat, NEW m1_, NEW m2_, NEW w,
         LET b == a + n - 1
         IN  \/ /\ PutsLeft(m1_, m, w, a, MO!Aligned(a, n), n)
                /\ PutsRight(m2_, m1_, w, b, MO!Aligned(b, n), n)
             \/ /\ PutsRight(m1_, m, w, b, MO!Aligned(b, n), n)
                /\ PutsLeft(m2_, m1_, w, a, MO!Aligned(a, n), n)
  PROVE  PairStored(m2_, m, w, a, n)
<1> DEFINE b == a + n - 1  base == MO!Aligned(a, n)  top == MO!Aligned(b, n)  k == a % n
<1>1. base \in Nat /\ k \in 0..(n - 1) /\ a = base + k BY PairPlaces
<1>2. \/ k = 0 /\ a = base /\ top = base /\ b = base + n - 1
      \/ k # 0 /\ base < a /\ top = base + n /\ b = base + n + k - 1
  BY PairPlaces DEF MO!Aligned
<1> SUFFICES ASSUME NEW x \in DOMAIN m
             PROVE  m2_[x] = IF x \in a..b THEN w[x - a + 1] ELSE m[x]
  BY DEF PairStored
<1>3. x \in Nat /\ b \in Nat /\ a <= b /\ x - b + n = x - a + 1 /\ n \in Nat OBVIOUS
<1> HIDE DEF b, base, top, k
<1>4. CASE PutsLeft(m1_, m, w, a, base, n) /\ PutsRight(m2_, m1_, w, b, top, n)
  <2>1. x \in DOMAIN m1_ /\ m1_[x] = IF x \in a..(base + n - 1) THEN w[x - a + 1] ELSE m[x]
    BY <1>4 DEF PutsLeft
  <2>2. IF x \in top..b
        THEN m2_[x] = w[x - b + n] \/ (b = top + n - 1 /\ m2_[x] = m1_[x] \cup w[x - b + n])
        ELSE m2_[x] = m1_[x]
    BY <1>4, <2>1 DEF PutsRight
  <2>3. CASE x \in top..b
    <3>1. m2_[x] = w[x - a + 1] \/ (b = top + n - 1 /\ m2_[x] = m1_[x] \cup w[x - a + 1])
      BY <1>3, <2>2, <2>3
    <3>2. x \in a..b BY <1>1, <1>2, <1>3, <2>3
    <3>3. b = top + n - 1 => m1_[x] = w[x - a + 1] BY <1>1, <1>2, <1>3, <2>1, <2>3
    <3>4. w[x - a + 1] \cup w[x - a + 1] = w[x - a + 1] OBVIOUS
    <3> QED BY <3>1, <3>2, <3>3, <3>4
  <2>4. CASE ~(x \in top..b)
    <3>1. m2_[x] = m1_[x] BY <2>2, <2>4
    <3>2. x \in a..(base + n - 1) <=> x \in a..b BY <1>1, <1>2, <1>3, <2>4
    <3> QED BY <2>1, <3>1, <3>2
  <2> QED BY <2>3, <2>4
<1>5. CASE PutsRight(m1_, m, w, b, top, n) /\ PutsLeft(m2_, m1_, w, a, base, n)
  <2>1. x \in DOMAIN m1_ BY <1>5 DEF PutsRight
  <2>2. IF x \in top..b
        THEN m1_[x] = w[x - b + n] \/ (b = top + n - 1 /\ m1_[x] = m[x] \cup w[x - b + n])
        ELSE m1_[x] = m[x]
    BY <1>5 DEF PutsRight
  <2>3. m2_[x] = IF x \in a..(base + n - 1) THEN w[x - a + 1] ELSE m1_[x] BY <1>5, <2>1 DEF PutsLeft
  <2>4. CASE x \in a..(base + n - 1)
    <3>1. x \in a..b BY <1>1, <1>2, <1>3, <2>4
    <3> QED BY <2>3, <2>4, <3>1
  <2>5. CASE ~(x \in a..(base + n - 1))
    <3>1. x \in top..b <=> x \in a..b BY <1>1, <1>2, <1>3, <2>5
    <3>2. x \in top..b => b # top + n - 1 BY <1>1, <1>2, <1>3, <2>5
    <3>3. x \in top..b => m1_[x] = w[x - a + 1] BY <1>3, <2>2, <3>2
    <3> QED BY <2>2, <2>3, <2>5, <3>1, <3>3
  <2> QED BY <2>4, <2>5
<1> QED BY <1>4, <1>5 DEF b, base, top
\* What the left load of a pair does, from a to the end of the word of n bytes
\* at base, and the right one, from there up to b.
GetsLeft(r2, m, r, a, base, n) ==
  /\ IsWord(r2, 8)
  /\ \A j \in 1..8 :
        r2[j] = IF j <= 8 - n THEN MO!Sign(m[a])
                ELSE IF j <= 8 - (a - base) THEN m[a + j - (8 - n) - 1] ELSE r[j]
GetsRight(r2, m, r, b, top, n) ==
  /\ IsWord(r2, 8)
  /\ b = top + n - 1 =>
       \A j \in 1..8 : IF j <= 8 - n THEN r2[j] = MO!Sign(m[b - n + 1])
                       ELSE r2[j] = m[b + j - 8] \/ r2[j] = r[j] \cup m[b + j - 8]
  /\ b # top + n - 1 =>
       \A j \in 1..8 : r2[j] = IF j <= 8 - (b - top + 1) THEN r[j] ELSE m[b + j - 8]

LEMMA LoadLeft8 ==
  ASSUME NEW m, NEW r, IsWord(r, 8), NEW base \in Nat, NEW k \in 0..7, NEW s
  PROVE  GetsLeft(MO!or(MO!low(r, k), MO!shl(MO!At(m, base, 8), k, s)), m, r, base + k, base, 8)
<1> DEFINE w == MO!At(m, base, 8)  lo == MO!low(r, k)  sh == MO!shl(w, k, s)  v == MO!or(lo, sh)
<1>0. k \in Nat /\ 8 \in Nat /\ k < 8 OBVIOUS
<1>1. IsWord(w, 8) /\ \A i \in 1..8 : w[i] = m[base + i - 1] BY WordAt
<1>2. IsWord(lo, 8) /\ \A i \in 1..8 : lo[i] = IF i > 8 - k THEN r[i] ELSE {} BY <1>0, WordMasks
<1> HIDE DEF w
<1>3. \A i \in 1..8 : sh[i] = IF i + k <= 8 THEN w[i + k] ELSE {} BY <1>0, <1>1, WordShl
<1> HIDE DEF lo, sh
<1>4. IsWord(v, 8) /\ \A i \in 1..8 : v[i] = lo[i] \cup sh[i] BY <1>2, WordOr
<1> HIDE DEF v
<1>5. ASSUME NEW j \in 1..8
      PROVE  v[j] = IF j <= 8 - k THEN m[base + k + j - 1] ELSE r[j]
  <2>1. v[j] = lo[j] \cup sh[j] BY <1>4
  <2>2. CASE j <= 8 - k
    <3>1. j + k \in 1..8 /\ ~(j > 8 - k) /\ j + k <= 8 /\ base + (j + k) - 1 = base + k + j - 1 BY <2>2
    <3>2. lo[j] = {} /\ sh[j] = m[base + k + j - 1] BY <1>1, <1>2, <1>3, <3>1
    <3>3. v[j] = {} \cup m[base + k + j - 1] BY <2>1, <3>2
    <3> QED BY <2>2, <3>3
  <2>3. CASE ~(j <= 8 - k)
    <3>1. j > 8 - k /\ ~(j + k <= 8) BY <2>3
    <3>2. v[j] = r[j] \cup {} BY <1>2, <1>3, <2>1, <3>1
    <3> QED BY <2>3, <3>2
  <2> QED BY <2>2, <2>3
<1>6. ASSUME NEW j \in 1..8
      PROVE  v[j] = IF j <= 8 - 8 THEN MO!Sign(m[base + k])
                    ELSE IF j <= 8 - ((base + k) - base) THEN m[(base + k) + j - (8 - 8) - 1] ELSE r[j]
  <2>1. ~(j <= 8 - 8) /\ (base + k) - base = k /\ (base + k) + j - (8 - 8) - 1 = base + k + j - 1
    OBVIOUS
  <2> QED BY <1>5, <2>1
<1> QED BY <1>4, <1>6 DEF GetsLeft, v, lo, sh, w

LEMMA LoadLeft4 ==
  ASSUME NEW m, NEW r, IsWord(r, 8), NEW base \in Nat, NEW k \in 0..3, NEW s
  PROVE  GetsLeft(MO!sext(MO!Low(MO!or(MO!low(r, k), MO!shl(MO!zext(MO!At(m, base, 4)), k, s)), 4)),
                  m, r, base + k, base, 4)
<1> DEFINE w == MO!At(m, base, 4)  z == MO!zext(w)  lo == MO!low(r, k)  sh == MO!shl(z, k, s)
           v == MO!or(lo, sh)  u == MO!Low(v, 4)  x == MO!sext(u)
<1>0. k \in Nat /\ 8 \in Nat /\ k < 8 /\ 4 \in 0..8 /\ 4 \in Nat OBVIOUS
<1>1. IsWord(w, 4) /\ \A i \in 1..4 : w[i] = m[base + i - 1] BY WordAt
<1> HIDE DEF w
<1>a. IsWord(z, 8) /\ \A i \in 1..8 : z[i] = IF i <= 8 - 4 THEN {} ELSE w[i - (8 - 4)]
  BY <1>0, <1>1, WordZext
<1> HIDE DEF z
<1>2. IsWord(lo, 8) /\ \A i \in 1..8 : lo[i] = IF i > 8 - k THEN r[i] ELSE {} BY <1>0, WordMasks
<1>3. \A i \in 1..8 : sh[i] = IF i + k <= 8 THEN z[i + k] ELSE {} BY <1>0, <1>a, WordShl
<1> HIDE DEF lo, sh
<1>4. IsWord(v, 8) /\ \A i \in 1..8 : v[i] = lo[i] \cup sh[i] BY <1>2, WordOr
<1> HIDE DEF v
<1>5. IsWord(u, 4) /\ \A i \in 1..4 : u[i] = v[8 - 4 + i]
  <2> DEFINE p == 8  q == 4
  <2>1. p \in Nat /\ q \in 0..p /\ IsWord(v, p) BY <1>4
  <2> HIDE DEF p, q
  <2>2. IsWord(MO!Low(v, q), q) /\ \A i \in 1..q : MO!Low(v, q)[i] = v[p - q + i] BY <2>1, WordLow
  <2> QED BY <2>2 DEF p, q
<1> HIDE DEF u
<1>6. IsWord(x, 8) /\ \A i \in 1..8 : x[i] = IF i <= 8 - 4 THEN MO!Sign(u[1]) ELSE u[i - (8 - 4)]
  BY <1>0, <1>5, WordSext
<1> HIDE DEF x
<1>7. ASSUME NEW i \in 1..4 PROVE u[i] = IF i <= 4 - k THEN m[base + k + i - 1] ELSE r[4 + i]
  <2>1. 8 - 4 + i = 4 + i /\ 4 + i \in 1..8 OBVIOUS
  <2>2. u[i] = lo[4 + i] \cup sh[4 + i] BY <1>4, <1>5, <2>1
  <2>3. CASE i <= 4 - k
    <3>1. /\ (4 + i) + k \in 1..8 /\ ~(4 + i > 8 - k) /\ (4 + i) + k <= 8 /\ ~((4 + i) + k <= 8 - 4)
          /\ (4 + i) + k - (8 - 4) = i + k /\ i + k \in 1..4 /\ base + (i + k) - 1 = base + k + i - 1
      BY <2>3
    <3>2. lo[4 + i] = {} BY <1>2, <2>1, <3>1
    <3>3. sh[4 + i] = z[(4 + i) + k] BY <1>3, <2>1, <3>1
    <3>4. z[(4 + i) + k] = w[(4 + i) + k - (8 - 4)] BY <1>a, <3>1
    <3>5. w[(4 + i) + k - (8 - 4)] = m[base + k + i - 1] BY <1>1, <3>1
    <3>6. u[i] = {} \cup m[base + k + i - 1] BY <2>2, <3>2, <3>3, <3>4, <3>5
    <3> QED BY <2>3, <3>6
  <2>4. CASE ~(i <= 4 - k)
    <3>1. 4 + i > 8 - k /\ ~((4 + i) + k <= 8) BY <2>4
    <3>2. u[i] = r[4 + i] \cup {} BY <1>2, <1>3, <2>1, <2>2, <3>1
    <3> QED BY <2>4, <3>2
  <2> QED BY <2>3, <2>4
<1>8. u[1] = m[base + k]
  <2>1. 1 \in 1..4 /\ 1 <= 4 - k /\ base + k + 1 - 1 = base + k OBVIOUS
  <2> QED BY <1>7, <2>1
<1>9. ASSUME NEW j \in 1..8
      PROVE  x[j] = IF j <= 8 - 4 THEN MO!Sign(m[base + k])
                    ELSE IF j <= 8 - ((base + k) - base) THEN m[(base + k) + j - (8 - 4) - 1] ELSE r[j]
  <2>1. CASE j <= 8 - 4 BY <1>6, <1>8, <2>1
  <2>2. CASE ~(j <= 8 - 4)
    <3>1. /\ j - (8 - 4) \in 1..4 /\ (j - (8 - 4) <= 4 - k <=> j <= 8 - ((base + k) - base))
          /\ base + k + (j - (8 - 4)) - 1 = (base + k) + j - (8 - 4) - 1 /\ 4 + (j - (8 - 4)) = j
      BY <2>2
    <3>2. x[j] = u[j - (8 - 4)] BY <1>6, <2>2
    <3>3. u[j - (8 - 4)] = IF j - (8 - 4) <= 4 - k THEN m[base + k + (j - (8 - 4)) - 1]
                           ELSE r[4 + (j - (8 - 4))]
      BY <1>7, <3>1
    <3> QED BY <2>2, <3>1, <3>2, <3>3
  <2> QED BY <2>1, <2>2
<1> QED BY <1>6, <1>9 DEF GetsLeft, x, u, v, lo, sh, z, w

LEMMA LoadRight8 ==
  ASSUME NEW m, NEW r, IsWord(r, 8), NEW top \in Nat, NEW k \in 1..8, NEW s, NEW kept,
         \/ kept = MO!high(r, k)
         \/ k = 8 /\ kept = r
  PROVE  GetsRight(MO!or(kept, MO!shr(MO!At(m, top, 8), 8 - k, s)), m, r, top + k - 1, top, 8)
<1> DEFINE w == MO!At(m, top, 8)  d == 8 - k  sh == MO!shr(w, d, s)  v == MO!or(kept, sh)
<1>0. k \in Nat /\ 8 \in Nat /\ d \in Nat /\ d < 8 /\ d = 8 - k OBVIOUS
<1>1. IsWord(w, 8) /\ \A i \in 1..8 : w[i] = m[top + i - 1] BY WordAt
<1>2. IsWord(MO!high(r, k), 8) /\ \A i \in 1..8 : MO!high(r, k)[i] = IF i > 8 - k THEN {} ELSE r[i]
  BY <1>0, WordMasks
<1> HIDE DEF w, d
<1>3. \A i \in 1..8 : sh[i] = IF i <= d THEN {} ELSE w[i - d]
  <2> DEFINE p == 8
  <2>1. p \in Nat /\ d \in Nat /\ d < p /\ IsWord(w, p) BY <1>0, <1>1
  <2> HIDE DEF p
  <2>2. \A i \in 1..p : MO!shr(w, d, s)[i] = IF i <= d THEN {} ELSE w[i - d] BY <2>1, WordShr
  <2> QED BY <2>2 DEF p
<1> HIDE DEF sh
<1>4. IsWord(v, 8) /\ \A i \in 1..8 : v[i] = kept[i] \cup sh[i]
  <2>1. IsWord(kept, 8) BY <1>2
  <2> QED BY <2>1, WordOr
<1> HIDE DEF v
<1>5. ASSUME NEW j \in 1..8
      PROVE  IF j <= 8 - k THEN v[j] = r[j]
             ELSE v[j] = m[top + k - 1 + j - 8] \/ (k = 8 /\ v[j] = r[j] \cup m[top + k - 1 + j - 8])
  <2>1. v[j] = kept[j] \cup sh[j] BY <1>4
  <2>2. CASE j <= 8 - k
    <3>1. sh[j] = {} BY <1>0, <1>3, <2>2
    <3>2. kept[j] = r[j]
      <4>1. ~(j > 8 - k) BY <2>2
      <4> QED BY <1>2, <4>1
    <3>3. v[j] = r[j] \cup {} BY <2>1, <3>1, <3>2
    <3> QED BY <2>2, <3>3
  <2>3. CASE ~(j <= 8 - k)
    <3>1. ~(j <= d) /\ j - d \in 1..8 /\ top + (j - d) - 1 = top + k - 1 + j - 8 /\ j > 8 - k
      BY <1>0, <2>3
    <3>2. sh[j] = w[j - d] BY <1>3, <3>1
    <3>3. w[j - d] = m[top + (j - d) - 1] BY <1>1, <3>1
    <3>4. kept[j] = {} \/ (k = 8 /\ kept[j] = r[j]) BY <1>2, <3>1
    <3>5. v[j] = {} \cup m[top + k - 1 + j - 8] \/ (k = 8 /\ v[j] = r[j] \cup m[top + k - 1 + j - 8])
      BY <2>1, <3>1, <3>2, <3>3, <3>4
    <3> QED BY <2>3, <3>5
  <2> QED BY <2>2, <2>3
<1> DEFINE b == top + k - 1
<1>6. ASSUME b = top + 8 - 1, NEW j \in 1..8
      PROVE  IF j <= 8 - 8 THEN v[j] = MO!Sign(m[b - 8 + 1])
             ELSE v[j] = m[b + j - 8] \/ v[j] = r[j] \cup m[b + j - 8]
  <2>1. ~(j <= 8 - 8) /\ ~(j <= 8 - k) BY <1>6
  <2>2. v[j] = m[b + j - 8] \/ v[j] = r[j] \cup m[b + j - 8] BY <1>5, <2>1
  <2> QED BY <2>1, <2>2
<1>7. ASSUME b # top + 8 - 1, NEW j \in 1..8
      PROVE  v[j] = IF j <= 8 - (b - top + 1) THEN r[j] ELSE m[b + j - 8]
  <2>1. k # 8 /\ (j <= 8 - (b - top + 1) <=> j <= 8 - k) BY <1>7
  <2> HIDE DEF b
  <2> QED BY <1>5, <2>1 DEF b
<1> HIDE DEF b
<1>8. GetsRight(v, m, r, b, top, 8) BY <1>4, <1>6, <1>7 DEF GetsRight
<1> QED BY <1>8 DEF b, v, sh, d, w

LEMMA LoadRight4 ==
  ASSUME NEW m, NEW r, IsWord(r, 8), NEW top \in Nat, NEW k \in 1..4, NEW s, NEW data,
         data = MO!shr(MO!zext(MO!At(m, top, 4)), 4 - k, s)
  PROVE  GetsRight(IF k = 4 THEN MO!sext(MO!Low(data, 4)) ELSE MO!or(MO!high(r, k), data),
                   m, r, top + k - 1, top, 4)
<1> DEFINE w == MO!At(m, top, 4)  z == MO!zext(w)  d == 4 - k  u == MO!Low(data, 4)
           x == MO!sext(u)  hi == MO!high(r, k)  y == MO!or(hi, data)
<1>0. k \in Nat /\ 8 \in Nat /\ 4 \in 0..8 /\ 4 \in Nat /\ d \in Nat /\ d < 8 /\ d = 4 - k OBVIOUS
<1>1. IsWord(w, 4) /\ \A i \in 1..4 : w[i] = m[top + i - 1] BY WordAt
<1> HIDE DEF w
<1>a. IsWord(z, 8) /\ \A i \in 1..8 : z[i] = IF i <= 8 - 4 THEN {} ELSE w[i - (8 - 4)]
  BY <1>0, <1>1, WordZext
<1>2. IsWord(hi, 8) /\ \A i \in 1..8 : hi[i] = IF i > 8 - k THEN {} ELSE r[i] BY <1>0, WordMasks
<1>b. data = MO!shr(z, d, s) BY DEF w
<1> HIDE DEF z, hi, d
<1>3. IsWord(data, 8) /\ \A i \in 1..8 : data[i] = IF i <= d THEN {} ELSE z[i - d]
  <2> DEFINE p == 8
  <2>1. p \in Nat /\ d \in Nat /\ d < p /\ IsWord(z, p) BY <1>0, <1>a
  <2> HIDE DEF p
  <2>2. IsWord(MO!shr(z, d, s), p) /\ \A i \in 1..p : MO!shr(z, d, s)[i] = IF i <= d THEN {} ELSE z[i - d]
    BY <2>1, WordShr
  <2> QED BY <1>b, <2>2 DEF p
<1>4. ASSUME NEW j \in 1..8
      PROVE  data[j] = IF j <= 8 - k THEN {} ELSE m[top + k - 1 + j - 8]
  <2>1. CASE j <= d
    <3>1. j <= 8 - k BY <1>0, <2>1
    <3> QED BY <1>3, <2>1, <3>1
  <2>2. CASE ~(j <= d) /\ j <= 8 - k
    <3>1. j - d \in 1..8 /\ j - d <= 8 - 4 BY <1>0, <2>2
    <3>2. data[j] = z[j - d] BY <1>3, <2>2
    <3> QED BY <1>a, <2>2, <3>1, <3>2
  <2>3. CASE ~(j <= 8 - k)
    <3>1. /\ ~(j <= d) /\ j - d \in 1..8 /\ ~(j - d <= 8 - 4) /\ (j - d) - (8 - 4) \in 1..4
          /\ top + ((j - d) - (8 - 4)) - 1 = top + k - 1 + j - 8
      BY <1>0, <2>3
    <3>2. data[j] = z[j - d] BY <1>3, <3>1
    <3>3. z[j - d] = w[(j - d) - (8 - 4)] BY <1>a, <3>1
    <3>4. w[(j - d) - (8 - 4)] = m[top + ((j - d) - (8 - 4)) - 1] BY <1>1, <3>1
    <3> QED BY <2>3, <3>1, <3>2, <3>3, <3>4
  <2> QED BY <2>1, <2>2, <2>3
<1> DEFINE b == top + k - 1
<1>5. CASE k = 4
  <2>1. IsWord(u, 4) /\ \A i \in 1..4 : u[i] = data[8 - 4 + i]
    <3> DEFINE p == 8  q == 4
    <3>1. p \in Nat /\ q \in 0..p /\ IsWord(data, p) BY <1>3
    <3> HIDE DEF p, q
    <3>2. IsWord(MO!Low(data, q), q) /\ \A i \in 1..q : MO!Low(data, q)[i] = data[p - q + i]
      BY <3>1, WordLow
    <3> QED BY <3>2 DEF p, q
  <2> HIDE DEF u
  <2>2. IsWord(x, 8) /\ \A i \in 1..8 : x[i] = IF i <= 8 - 4 THEN MO!Sign(u[1]) ELSE u[i - (8 - 4)]
    BY <1>0, <2>1, WordSext
  <2> HIDE DEF x
  <2>3. ASSUME NEW i \in 1..4 PROVE u[i] = m[top + i - 1]
    <3>1. 8 - 4 + i \in 1..8 /\ ~(8 - 4 + i <= 8 - k) /\ top + k - 1 + (8 - 4 + i) - 8 = top + i - 1
      BY <1>5
    <3>2. u[i] = data[8 - 4 + i] BY <2>1
    <3> QED BY <1>4, <3>1, <3>2
  <2>4. ASSUME NEW j \in 1..8
        PROVE  IF j <= 8 - 4 THEN x[j] = MO!Sign(m[b - 4 + 1])
               ELSE x[j] = m[b + j - 8] \/ x[j] = r[j] \cup m[b + j - 8]
    <3>1. CASE j <= 8 - 4
      <4>1. 1 \in 1..4 /\ top + 1 - 1 = b - 4 + 1 BY <1>5
      <4>2. u[1] = m[b - 4 + 1] BY <2>3, <4>1
      <4> QED BY <2>2, <3>1, <4>2
    <3>2. CASE ~(j <= 8 - 4)
      <4>1. j - (8 - 4) \in 1..4 /\ top + (j - (8 - 4)) - 1 = b + j - 8 BY <1>5, <3>2
      <4>2. x[j] = u[j - (8 - 4)] BY <2>2, <3>2
      <4>3. u[j - (8 - 4)] = m[top + (j - (8 - 4)) - 1] BY <2>3, <4>1
      <4>4. x[j] = m[b + j - 8] BY <4>1, <4>2, <4>3
      <4> QED BY <3>2, <4>4
    <3> QED BY <3>1, <3>2
  <2>5. b = top + 4 - 1 BY <1>5
  <2> HIDE DEF b
  <2>6. GetsRight(x, m, r, b, top, 4) BY <2>2, <2>4, <2>5 DEF GetsRight
  <2> QED BY <1>5, <2>6 DEF b, x, u
<1>6. CASE k # 4
  <2>1. IsWord(y, 8) /\ \A i \in 1..8 : y[i] = hi[i] \cup data[i] BY <1>2, WordOr
  <2> HIDE DEF y
  <2>2. ASSUME NEW j \in 1..8 PROVE y[j] = IF j <= 8 - (b - top + 1) THEN r[j] ELSE m[b + j - 8]
    <3>1. 8 - (b - top + 1) = 8 - k OBVIOUS
    <3>2. CASE j <= 8 - k
      <4>1. ~(j > 8 - k) BY <3>2
      <4>2. y[j] = r[j] \cup {} BY <1>2, <1>4, <2>1, <3>2, <4>1
      <4> QED BY <3>1, <3>2, <4>2
    <3>3. CASE ~(j <= 8 - k)
      <4>1. j > 8 - k BY <3>3
      <4>2. y[j] = {} \cup m[b + j - 8] BY <1>2, <1>4, <2>1, <3>3, <4>1
      <4> QED BY <3>1, <3>3, <4>2
    <3> QED BY <3>2, <3>3
  <2>5. b # top + 4 - 1 BY <1>6
  <2> HIDE DEF b
  <2>6. GetsRight(y, m, r, b, top, 4) BY <2>1, <2>2, <2>5 DEF GetsRight
  <2> QED BY <1>6, <2>6 DEF b, y, hi
<1> QED BY <1>5, <1>6

\* A pair of loads, in either order, loads every byte once.
PairLoaded(r, m, a, n) ==
  /\ IsWord(r, 8)
  /\ \A j \in 1..8 : r[j] = IF j <= 8 - n THEN MO!Sign(m[a]) ELSE m[a + j - (8 - n) - 1]

LEMMA PairLoads ==
  ASSUME NEW n \in {4, 8}, NEW a \in Nat, NEW m, NEW r, NEW r1, NEW r2,
         LET b == a + n - 1
         IN  \/ /\ GetsLeft(r1, m, r, a, MO!Aligned(a, n), n)
                /\ GetsRight(r2, m, r1, b, MO!Aligned(b, n), n)
             \/ /\ GetsRight(r1, m, r, b, MO!Aligned(b, n), n)
                /\ GetsLeft(r2, m, r1, a, MO!Aligned(a, n), n)
  PROVE  PairLoaded(r2, m, a, n)
<1> DEFINE b == a + n - 1  base == MO!Aligned(a, n)  top == MO!Aligned(b, n)  k == a % n
<1>1. base \in Nat /\ k \in 0..(n - 1) /\ a = base + k BY PairPlaces
<1>2. \/ k = 0 /\ a = base /\ top = base /\ b = base + n - 1
      \/ k # 0 /\ base < a /\ top = base + n /\ b = base + n + k - 1
  BY PairPlaces DEF MO!Aligned
<1>w. IsWord(r2, 8) BY DEF GetsLeft, GetsRight
<1> SUFFICES ASSUME NEW j \in 1..8
             PROVE  r2[j] = IF j <= 8 - n THEN MO!Sign(m[a]) ELSE m[a + j - (8 - n) - 1]
  BY <1>w DEF PairLoaded
<1>3. n \in Nat /\ b \in Nat /\ b + j - 8 = a + j - (8 - n) - 1 /\ b - n + 1 = a OBVIOUS
<1>4. (b = top + n - 1 <=> k = 0) /\ a - base = k /\ (k # 0 => b - top + 1 = k) BY <1>1, <1>2, <1>3
<1>5. k # 0 /\ ~(j <= 8 - k) => ~(j <= 8 - n) BY <1>1, <1>3
<1> DEFINE x == a + j - (8 - n) - 1  sg == MO!Sign(m[a])
<1> HIDE DEF b, base, top, k, x, sg
<1>6. ASSUME NEW s1_, NEW s2_, GetsLeft(s2_, m, s1_, a, base, n)
      PROVE  s2_[j] = IF j <= 8 - n THEN sg ELSE IF j <= 8 - k THEN m[x] ELSE s1_[j]
  BY <1>4, <1>6 DEF GetsLeft, x, sg
<1>7. ASSUME NEW s1_, NEW s2_, GetsRight(s2_, m, s1_, b, top, n)
      PROVE  /\ k = 0 => IF j <= 8 - n THEN s2_[j] = sg ELSE s2_[j] = m[x] \/ s2_[j] = s1_[j] \cup m[x]
             /\ k # 0 => s2_[j] = IF j <= 8 - k THEN s1_[j] ELSE m[x]
  <2>1. CASE k = 0
    <3>1. b = top + n - 1 BY <1>4, <2>1
    <3> QED BY <1>3, <1>7, <2>1, <3>1 DEF GetsRight, x, sg
  <2>2. CASE k # 0
    <3>1. b # top + n - 1 /\ b - top + 1 = k BY <1>4, <2>2
    <3> QED BY <1>3, <1>7, <2>2, <3>1 DEF GetsRight, x
  <2> QED BY <2>1, <2>2
<1>8. k = 0 => j <= 8 - k OBVIOUS
<1>9. CASE GetsLeft(r1, m, r, a, base, n) /\ GetsRight(r2, m, r1, b, top, n)
  <2>1. r1[j] = IF j <= 8 - n THEN sg ELSE IF j <= 8 - k THEN m[x] ELSE r[j] BY <1>6, <1>9
  <2>2. /\ k = 0 => IF j <= 8 - n THEN r2[j] = sg ELSE r2[j] = m[x] \/ r2[j] = r1[j] \cup m[x]
        /\ k # 0 => r2[j] = IF j <= 8 - k THEN r1[j] ELSE m[x]
    BY <1>7, <1>9
  <2>3. m[x] \cup m[x] = m[x] OBVIOUS
  <2> QED BY <1>5, <1>8, <2>1, <2>2, <2>3 DEF x, sg
<1>10. CASE GetsRight(r1, m, r, b, top, n) /\ GetsLeft(r2, m, r1, a, base, n)
  <2>1. r2[j] = IF j <= 8 - n THEN sg ELSE IF j <= 8 - k THEN m[x] ELSE r1[j] BY <1>6, <1>10
  <2>2. k # 0 => r1[j] = IF j <= 8 - k THEN r[j] ELSE m[x] BY <1>7, <1>10
  <2> QED BY <1>5, <1>8, <2>1, <2>2 DEF x, sg
<1> QED BY <1>9, <1>10 DEF b, base, top

-----------------------------------------------------------------------------
(* The accesses.                                                           *)

MemInv == memory = [x \in 0..(Size - 1) |-> memory[x]] /\ IsWord(gpr, 8)

\* What an access did, from what it said it would do.
LEMMA LoadWhole ==
  ASSUME NEW a, NEW n \in 1..8, NEW signed,
         did' = [op |-> "load", a |-> a, n |-> n, signed |-> signed],
         \A j \in 1..8 : gpr'[j] = IF j <= 8 - n THEN IF signed THEN MO!Sign(memory[a]) ELSE {}
                                   ELSE memory[a + (j - (8 - n)) - 1]
  PROVE  MO!Whole /\ MO!Elsewhere
<1>1. did'.op = "load" /\ did'.a = a /\ did'.n = n /\ did'.signed = signed OBVIOUS
<1>2. ASSUME NEW i \in 1..n PROVE gpr'[8 - n + i] = memory[a + i - 1]
  <2>1. 8 - n + i \in 1..8 /\ ~(8 - n + i <= 8 - n) /\ (8 - n + i) - (8 - n) = i OBVIOUS
  <2> QED BY <2>1
<1>3. ASSUME NEW i \in 1..(8 - n) PROVE gpr'[i] = IF signed THEN MO!Sign(memory[a]) ELSE {}
  <2>1. i \in 1..8 /\ i <= 8 - n OBVIOUS
  <2> QED BY <2>1
<1> QED BY <1>1, <1>2, <1>3 DEF MO!Whole, MO!Elsewhere, MO!Byte0

LEMMA StoreWhole ==
  ASSUME NEW a \in Nat, NEW n \in 1..8, did' = [op |-> "store", a |-> a, n |-> n],
         DOMAIN memory \subseteq Nat, {a + i : i \in 0..(n - 1)} \subseteq DOMAIN memory,
         \A x \in DOMAIN memory :
            memory'[x] = IF x \in a..(a + n - 1) THEN gpr[8 - n + (x - a + 1)] ELSE memory[x]
  PROVE  MO!Whole /\ MO!Elsewhere
<1>1. did'.op = "store" /\ did'.a = a /\ did'.n = n OBVIOUS
<1>2. ASSUME NEW i \in 0..(n - 1) PROVE memory'[a + i] = gpr[8 - n + 1 + (a + i) - a]
  <2>1. a + i \in DOMAIN memory /\ a + i \in a..(a + n - 1)
        /\ 8 - n + ((a + i) - a + 1) = 8 - n + 1 + (a + i) - a
    OBVIOUS
  <2> QED BY <2>1
<1>3. ASSUME NEW x \in DOMAIN memory, x < a \/ x >= a + n PROVE memory'[x] = memory[x]
  <2>1. ~(x \in a..(a + n - 1)) BY <1>3
  <2> QED BY <2>1
<1> QED BY <1>1, <1>2, <1>3 DEF MO!Whole, MO!Elsewhere

\* A word of n bytes at a multiple of n is in memory.
LEMMA Inside ==
  ASSUME ExecutionAssumption, MemInv, NEW a \in 0..(Size - 1), NEW n \in {1, 2, 4, 8},
         a % n = 0 \/ MO!Room(a, n)
  PROVE  /\ a \in Nat /\ DOMAIN memory \subseteq Nat
         /\ {a + i : i \in 0..(n - 1)} \subseteq DOMAIN memory
<1>1. Size \in Nat /\ Size % 8 = 0 BY DEF ExecutionAssumption, MO!MemOpsAssumption
<1>2. a + n <= Size
  <2>1. CASE n = 1 BY <1>1, <2>1
  <2>2. CASE n = 2 BY <1>1, <2>2 DEF MO!Room
  <2>3. CASE n = 4 BY <1>1, <2>3 DEF MO!Room
  <2>4. CASE n = 8 BY <1>1, <2>4 DEF MO!Room
  <2> QED BY <2>1, <2>2, <2>3, <2>4
<1>3. DOMAIN memory = 0..(Size - 1) BY DEF MemInv
<1> QED BY <1>1, <1>2, <1>3

\* The plain load and store of n bytes.
Loaded(r, m, a, n, signed) ==
  /\ IsWord(r, 8)
  /\ \A j \in 1..8 : r[j] = IF j <= 8 - n THEN IF signed THEN MO!Sign(m[a]) ELSE {}
                            ELSE m[a + (j - (8 - n)) - 1]
PutLow(m2, m, a, n, r) ==
  m2 = [x \in DOMAIN m |-> IF x \in a..(a + n - 1) THEN r[8 - n + (x - a + 1)] ELSE m[x]]

LEMMA PlainLoad ==
  ASSUME NEW m, NEW a \in Nat, NEW n \in 1..8, NEW signed \in BOOLEAN, NEW r, r = MO!load(m, a, n, signed)
  PROVE  Loaded(r, m, a, n, signed)
<1> DEFINE w == MO!At(m, a, n)
<1>0. n \in Nat /\ n \in 0..8 OBVIOUS
<1>1. IsWord(w, n) /\ \A i \in 1..n : w[i] = m[a + i - 1] BY <1>0, WordAt
<1>2. CASE signed
  <2>1. r = MO!sext(w) BY <1>2 DEF MO!load
  <2> HIDE DEF w
  <2>2. /\ IsWord(r, 8)
        /\ \A i \in 1..8 : r[i] = IF i <= 8 - n THEN MO!Sign(w[1]) ELSE w[i - (8 - n)]
    BY <1>0, <1>1, <2>1, WordSext
  <2>3. w[1] = m[a] BY <1>1
  <2>4. ASSUME NEW j \in 1..8, ~(j <= 8 - n) PROVE w[j - (8 - n)] = m[a + (j - (8 - n)) - 1]
    <3>1. j - (8 - n) \in 1..n BY <2>4
    <3> QED BY <1>1, <3>1
  <2>5. ASSUME NEW j \in 1..8
        PROVE  r[j] = IF j <= 8 - n THEN IF signed THEN MO!Sign(m[a]) ELSE {}
                      ELSE m[a + (j - (8 - n)) - 1]
    <3>1. CASE j <= 8 - n BY <1>2, <2>2, <2>3, <3>1
    <3>2. CASE ~(j <= 8 - n)
      <4>1. r[j] = w[j - (8 - n)] BY <2>2, <3>2
      <4>2. w[j - (8 - n)] = m[a + (j - (8 - n)) - 1] BY <2>4, <3>2
      <4> QED BY <3>2, <4>1, <4>2
    <3> QED BY <3>1, <3>2
  <2> QED BY <2>2, <2>5 DEF Loaded
<1>3. CASE ~signed
  <2>1. r = MO!zext(w) BY <1>3 DEF MO!load
  <2> HIDE DEF w
  <2>2. /\ IsWord(r, 8)
        /\ \A i \in 1..8 : r[i] = IF i <= 8 - n THEN {} ELSE w[i - (8 - n)]
    BY <1>0, <1>1, <2>1, WordZext
  <2>4. ASSUME NEW j \in 1..8, ~(j <= 8 - n) PROVE w[j - (8 - n)] = m[a + (j - (8 - n)) - 1]
    <3>1. j - (8 - n) \in 1..n BY <2>4
    <3> QED BY <1>1, <3>1
  <2>5. ASSUME NEW j \in 1..8
        PROVE  r[j] = IF j <= 8 - n THEN IF signed THEN MO!Sign(m[a]) ELSE {}
                      ELSE m[a + (j - (8 - n)) - 1]
    <3>1. CASE j <= 8 - n BY <1>3, <2>2, <3>1
    <3>2. CASE ~(j <= 8 - n)
      <4>1. r[j] = w[j - (8 - n)] BY <2>2, <3>2
      <4>2. w[j - (8 - n)] = m[a + (j - (8 - n)) - 1] BY <2>4, <3>2
      <4> QED BY <3>2, <4>1, <4>2
    <3> QED BY <3>1, <3>2
  <2> QED BY <2>2, <2>5 DEF Loaded
<1> QED BY <1>2, <1>3

LEMMA PlainStore ==
  ASSUME NEW m, NEW a \in Nat, NEW n \in 1..8, NEW r, IsWord(r, 8), NEW m2, m2 = MO!store(m, r, a, n),
         DOMAIN m \subseteq Nat
  PROVE  PutLow(m2, m, a, n, r)
<1> DEFINE u == MO!Low(r, n)
<1>0. n \in Nat OBVIOUS
<1>1. IsWord(u, n) /\ \A i \in 1..n : u[i] = r[8 - n + i]
  <2> DEFINE p == 8
  <2>1. p \in Nat /\ n \in 0..p /\ IsWord(r, p) OBVIOUS
  <2> HIDE DEF p
  <2>2. IsWord(MO!Low(r, n), n) /\ \A i \in 1..n : MO!Low(r, n)[i] = r[p - n + i] BY <2>1, WordLow
  <2> QED BY <2>2 DEF p
<1>2. m2 = MO!Put(m, a, u) BY DEF MO!store
<1> HIDE DEF u
<1>3. Stored(m2, m, a, u, n) BY <1>0, <1>1, <1>2, WordPut
<1>4. ASSUME NEW x \in DOMAIN m, x \in a..(a + n - 1) PROVE u[x - a + 1] = r[8 - n + (x - a + 1)]
  <2>1. x - a + 1 \in 1..n BY <1>4
  <2> QED BY <1>1, <2>1
<1> QED BY <1>3, <1>4 DEF Stored, PutLow

\* Each access keeps MemInv and is whole.
LEMMA LoadSafe ==
  ASSUME MemInv, NEW a \in 0..(Size - 1), NEW n \in {1, 2, 4, 8}, NEW signed \in BOOLEAN,
         gpr' = MO!load(memory, a, n, signed), memory' = memory,
         did' = [op |-> "load", a |-> a, n |-> n, signed |-> signed]
  PROVE  MemInv' /\ MO!Whole /\ MO!Elsewhere
<1>0. a \in Nat /\ n \in 1..8 OBVIOUS
<1>1. /\ IsWord(gpr', 8)
      /\ \A j \in 1..8 : gpr'[j] = IF j <= 8 - n THEN IF signed THEN MO!Sign(memory[a]) ELSE {}
                                   ELSE memory[a + (j - (8 - n)) - 1]
  <2>1. Loaded(gpr', memory, a, n, signed) BY <1>0, PlainLoad
  <2> QED BY <2>1 DEF Loaded
<1>2. MemInv' BY <1>1 DEF MemInv, IsWord
<1>3. MO!Whole /\ MO!Elsewhere BY <1>0, <1>1, LoadWhole
<1> QED BY <1>2, <1>3

LEMMA StoreSafe ==
  ASSUME ExecutionAssumption, MemInv, NEW a \in 0..(Size - 1), NEW n \in {1, 2, 4, 8}, a % n = 0,
         memory' = MO!store(memory, gpr, a, n),
         did' = [op |-> "store", a |-> a, n |-> n]
  PROVE  memory' = [x \in 0..(Size - 1) |-> memory'[x]] /\ MO!Whole /\ MO!Elsewhere
<1>0. /\ n \in 1..8 /\ a \in Nat /\ DOMAIN memory \subseteq Nat
      /\ {a + i : i \in 0..(n - 1)} \subseteq DOMAIN memory
  BY Inside
<1>1. memory' = [x \in DOMAIN memory |->
                   IF x \in a..(a + n - 1) THEN gpr[8 - n + (x - a + 1)] ELSE memory[x]]
  <2>1. PutLow(memory', memory, a, n, gpr) BY <1>0, PlainStore DEF MemInv
  <2> QED BY <2>1 DEF PutLow
<1>2. memory' = [x \in 0..(Size - 1) |-> memory'[x]] BY <1>1 DEF MemInv
<1>3. MO!Whole /\ MO!Elsewhere BY <1>0, <1>1, StoreWhole
<1> QED BY <1>2, <1>3

LEMMA LoadPairSafe ==
  ASSUME MemInv, MO!LoadPair
  PROVE  MemInv' /\ MO!Whole /\ MO!Elsewhere
<1>1. PICK a \in 0..(Size - 1), n \in {4, 8}, leftFirst \in BOOLEAN, s \in MO!Shifts :
        LET left(r)  == IF n = 4 THEN MO!lwl(memory, r, a, s) ELSE MO!ldl(memory, r, a, s)
            right(r) == IF n = 4 THEN MO!lwr(memory, r, a + 3, s) ELSE MO!ldr(memory, r, a + 7, s)
        IN  /\ MO!Step /\ MO!Room(a, n)
            /\ gpr' = IF leftFirst THEN right(left(gpr)) ELSE left(right(gpr))
            /\ did' = [op |-> "load", a |-> a, n |-> n, signed |-> TRUE]
            /\ UNCHANGED <<memory, ll_bit>>
  BY DEF MO!LoadPair
<1> DEFINE left(r)  == IF n = 4 THEN MO!lwl(memory, r, a, s) ELSE MO!ldl(memory, r, a, s)
           right(r) == IF n = 4 THEN MO!lwr(memory, r, a + 3, s) ELSE MO!ldr(memory, r, a + 7, s)
           b == a + n - 1
<1>0. a \in Nat /\ n \in 1..8 /\ b \in Nat OBVIOUS
<1>2. ASSUME NEW r, IsWord(r, 8) PROVE GetsLeft(left(r), memory, r, a, MO!Aligned(a, n), n)
  <2>1. MO!Aligned(a, n) \in Nat /\ a % n \in 0..(n - 1) /\ a = MO!Aligned(a, n) + (a % n) BY <1>0, PairPlaces
  <2> DEFINE base == MO!Aligned(a, n)  k == a % n
  <2>2. CASE n = 4
    <3>1. left(r) = MO!sext(MO!Low(MO!or(MO!low(r, k), MO!shl(MO!zext(MO!At(memory, base, 4)), k, s)), 4))
      BY <2>2 DEF MO!lwl
    <3>2. base \in Nat /\ k \in 0..3 /\ a = base + k BY <2>1, <2>2
    <3> HIDE DEF base, k, left
    <3>3. GetsLeft(left(r), memory, r, base + k, base, 4) BY <1>2, <3>1, <3>2, LoadLeft4
    <3> QED BY <2>2, <3>2, <3>3 DEF base
  <2>3. CASE n = 8
    <3>1. left(r) = MO!or(MO!low(r, k), MO!shl(MO!At(memory, base, 8), k, s)) BY <2>3 DEF MO!ldl
    <3>2. base \in Nat /\ k \in 0..7 /\ a = base + k BY <2>1, <2>3
    <3> HIDE DEF base, k, left
    <3>3. GetsLeft(left(r), memory, r, base + k, base, 8) BY <1>2, <3>1, <3>2, LoadLeft8
    <3> QED BY <2>3, <3>2, <3>3 DEF base
  <2> QED BY <2>2, <2>3
<1>3. ASSUME NEW r, IsWord(r, 8) PROVE GetsRight(right(r), memory, r, b, MO!Aligned(b, n), n)
  <2>1. MO!Aligned(b, n) \in Nat /\ b % n \in 0..(n - 1) /\ b = MO!Aligned(b, n) + (b % n) BY <1>0, PairPlaces
  <2> DEFINE top == MO!Aligned(b, n)  k == (b % n) + 1
  <2>2. CASE n = 4
    <3> DEFINE data == MO!shr(MO!zext(MO!At(memory, top, 4)), 4 - k, s)
               x == IF k = 4 THEN MO!sext(MO!Low(data, 4)) ELSE MO!or(MO!high(r, k), data)
    <3>1. a + 3 = b BY <2>2
    <3>2. right(r) = x BY <2>2, <3>1 DEF MO!lwr
    <3>3. top \in Nat /\ k \in 1..4 /\ b = top + k - 1 BY <2>1, <2>2
    <3> HIDE DEF top, k
    <3>4. GetsRight(x, memory, r, top + k - 1, top, 4) BY <1>3, <3>3, LoadRight4
    <3> HIDE DEF x, right, b
    <3> QED BY <2>2, <3>2, <3>3, <3>4 DEF top
  <2>3. CASE n = 8
    <3> DEFINE kept == IF k < 8 THEN MO!high(r, k) ELSE IF s = "zero" THEN MO!high(r, 8) ELSE r
               x == MO!or(kept, MO!shr(MO!At(memory, top, 8), 8 - k, s))
    <3>1. a + 7 = b BY <2>3
    <3>2. right(r) = x BY <2>3, <3>1 DEF MO!ldr
    <3>3. top \in Nat /\ k \in 1..8 /\ b = top + k - 1 BY <2>1, <2>3
    <3> HIDE DEF top, k
    <3>4. kept = MO!high(r, k) \/ (k = 8 /\ kept = r) BY <3>3
    <3> HIDE DEF kept
    <3>5. GetsRight(x, memory, r, top + k - 1, top, 8) BY <1>3, <3>3, <3>4, LoadRight8
    <3> HIDE DEF x, right, b
    <3> QED BY <2>3, <3>2, <3>3, <3>5 DEF top
  <2> QED BY <2>2, <2>3
<1>4. gpr' = (IF leftFirst THEN right(left(gpr)) ELSE left(right(gpr))) /\ memory' = memory
      /\ did' = [op |-> "load", a |-> a, n |-> n, signed |-> TRUE]
  BY <1>1
<1> HIDE DEF left, right
<1>5. IsWord(gpr, 8) BY DEF MemInv
<1>6. IsWord(left(gpr), 8) /\ IsWord(right(gpr), 8) BY <1>2, <1>3, <1>5 DEF GetsLeft, GetsRight
<1>7. PICK r1 : \/ /\ GetsLeft(r1, memory, gpr, a, MO!Aligned(a, n), n)
                   /\ GetsRight(gpr', memory, r1, b, MO!Aligned(b, n), n)
                \/ /\ GetsRight(r1, memory, gpr, b, MO!Aligned(b, n), n)
                   /\ GetsLeft(gpr', memory, r1, a, MO!Aligned(a, n), n)
  <2>1. CASE leftFirst
    <3>1. GetsLeft(left(gpr), memory, gpr, a, MO!Aligned(a, n), n) BY <1>2, <1>5
    <3>2. GetsRight(gpr', memory, left(gpr), b, MO!Aligned(b, n), n) BY <1>3, <1>4, <1>6, <2>1
    <3> QED BY <3>1, <3>2
  <2>2. CASE ~leftFirst
    <3>1. GetsRight(right(gpr), memory, gpr, b, MO!Aligned(b, n), n) BY <1>3, <1>5
    <3>2. GetsLeft(gpr', memory, right(gpr), a, MO!Aligned(a, n), n) BY <1>2, <1>4, <1>6, <2>2
    <3> QED BY <3>1, <3>2
  <2> QED BY <2>1, <2>2
<1>8. /\ IsWord(gpr', 8)
      /\ \A j \in 1..8 : gpr'[j] = IF j <= 8 - n THEN MO!Sign(memory[a])
                                   ELSE memory[a + j - (8 - n) - 1]
  <2>1. PairLoaded(gpr', memory, a, n) BY <1>0, <1>7, PairLoads
  <2> QED BY <2>1 DEF PairLoaded
<1>9. \A j \in 1..8 : gpr'[j] = IF j <= 8 - n THEN IF TRUE THEN MO!Sign(memory[a]) ELSE {}
                                ELSE memory[a + (j - (8 - n)) - 1]
  <2>1. \A j \in 1..8 : a + (j - (8 - n)) - 1 = a + j - (8 - n) - 1 BY <1>0
  <2> QED BY <1>8, <2>1
<1>10. MO!Whole /\ MO!Elsewhere BY <1>0, <1>4, <1>9, LoadWhole
<1> QED BY <1>4, <1>8, <1>10 DEF MemInv, IsWord

LEMMA StorePairSafe ==
  ASSUME ExecutionAssumption, MemInv, MO!StorePair
  PROVE  memory' = [x \in 0..(Size - 1) |-> memory'[x]] /\ gpr' = gpr /\ MO!Whole /\ MO!Elsewhere
<1>1. PICK a \in 0..(Size - 1), n \in {4, 8}, leftFirst \in BOOLEAN, s \in MO!Shifts :
        LET left(m)  == IF n = 4 THEN MO!swl(m, gpr, a, s) ELSE MO!sdl(m, gpr, a, s)
            right(m) == IF n = 4 THEN MO!swr(m, gpr, a + 3, s) ELSE MO!sdr(m, gpr, a + 7, s)
        IN  /\ MO!Room(a, n)
            /\ memory' = IF leftFirst THEN right(left(memory)) ELSE left(right(memory))
            /\ did' = [op |-> "store", a |-> a, n |-> n]
            /\ UNCHANGED <<gpr, ll_bit>>
  BY DEF MO!StorePair
<1> DEFINE left(m)  == IF n = 4 THEN MO!swl(m, gpr, a, s) ELSE MO!sdl(m, gpr, a, s)
           right(m) == IF n = 4 THEN MO!swr(m, gpr, a + 3, s) ELSE MO!sdr(m, gpr, a + 7, s)
           b == a + n - 1
           w == IF n = 4 THEN MO!Low(gpr, 4) ELSE gpr
<1>0. a \in Nat /\ n \in 1..8 /\ b \in Nat OBVIOUS
<1>w. IsWord(w, n) /\ \A i \in 1..n : w[i] = gpr[8 - n + i]
  <2>1. CASE n = 4
    <3> DEFINE p == 8  q == 4
    <3>1. p \in Nat /\ q \in 0..p /\ IsWord(gpr, p) BY DEF MemInv
    <3> HIDE DEF p, q
    <3>2. IsWord(MO!Low(gpr, q), q) /\ \A i \in 1..q : MO!Low(gpr, q)[i] = gpr[p - q + i]
      BY <3>1, WordLow
    <3> QED BY <2>1, <3>2 DEF p, q
  <2>2. CASE n = 8
    <3>1. \A i \in 1..8 : 8 - 8 + i = i OBVIOUS
    <3> QED BY <2>2, <3>1 DEF MemInv
  <2> QED BY <2>1, <2>2
<1>2. ASSUME NEW m, DOMAIN m \subseteq Nat PROVE PutsLeft(left(m), m, w, a, MO!Aligned(a, n), n)
  <2> DEFINE base == MO!Aligned(a, n)  k == a % n
  <2>1. base \in Nat /\ k \in 0..(n - 1) /\ a = base + k BY <1>0, PairPlaces
  <2>2. left(m) = MO!Put(m, base, MO!or(MO!high(MO!At(m, base, n), n - k), MO!shr(w, k, s)))
    <3>1. CASE n = 4 BY <3>1 DEF MO!swl, MO!Mix
    <3>2. CASE n = 8 BY <3>2 DEF MO!sdl, MO!Mix
    <3> QED BY <3>1, <3>2
  <2>3. k \in Nat /\ k < n /\ n \in Nat BY <1>0, <2>1
  <2> HIDE DEF base, k, w, left
  <2>4. PutsLeft(left(m), m, w, a, base, n) BY <1>2, <1>w, <2>1, <2>2, <2>3, StoreLeft
  <2> QED BY <2>1, <2>4 DEF base
<1>3. ASSUME NEW m, DOMAIN m \subseteq Nat PROVE PutsRight(right(m), m, w, b, MO!Aligned(b, n), n)
  <2> DEFINE top == MO!Aligned(b, n)  k == (b % n) + 1  old == MO!At(m, top, n)
             mask == IF k < n THEN MO!low(old, n - k) ELSE IF s = "zero" THEN MO!Fill({}, n) ELSE old
  <2>1. top \in Nat /\ b % n \in 0..(n - 1) /\ b = top + (b % n) BY <1>0, PairPlaces
  <2>2. right(m) = MO!Put(m, top, MO!or(mask, MO!shl(w, n - k, s)))
    <3>1. CASE n = 4
      <4>1. a + 3 = b BY <3>1
      <4> QED BY <3>1, <4>1 DEF MO!swr, MO!Mix, MO!Byte0
    <3>2. CASE n = 8
      <4>1. a + 7 = b BY <3>2
      <4> QED BY <3>2, <4>1 DEF MO!sdr, MO!Mix, MO!Byte0
    <3> QED BY <3>1, <3>2
  <2>3. k \in 1..n /\ n \in Nat /\ b = top + k - 1 BY <1>0, <2>1
  <2> HIDE DEF top, k, w, right, b
  <2>4. IsWord(old, n) /\ n - k \in Nat BY <2>3, WordAt
  <2>5. IsWord(mask, n)
    <3>1. IsWord(MO!low(old, n - k), n)
      <4> DEFINE d == n - k
      <4> HIDE DEF d, old
      <4>1. IsWord(MO!low(old, d), n) BY <2>3, <2>4, WordMasks DEF d
      <4> QED BY <4>1 DEF d
    <3> QED BY <2>3, <2>4, <3>1, WordFill
  <2>6. \/ k < n /\ mask = MO!low(MO!At(m, top, n), n - k)
        \/ k = n /\ mask = MO!Fill({}, n)
        \/ k = n /\ mask = MO!At(m, top, n)
    BY <2>3
  <2> HIDE DEF mask, old
  <2>7. PutsRight(MO!Put(m, top, MO!or(mask, MO!shl(w, n - k, s))), m, w, top + k - 1, top, n)
    BY <1>3, <1>w, <2>1, <2>3, <2>5, <2>6, StoreRight
  <2> QED BY <2>2, <2>3, <2>7 DEF top
<1>4. memory' = (IF leftFirst THEN right(left(memory)) ELSE left(right(memory))) /\ gpr' = gpr
      /\ did' = [op |-> "store", a |-> a, n |-> n] /\ MO!Room(a, n)
  BY <1>1
<1> HIDE DEF left, right, w
<1>5. DOMAIN memory \subseteq Nat /\ {a + i : i \in 0..(n - 1)} \subseteq DOMAIN memory
  BY <1>4, Inside
<1>6. DOMAIN left(memory) = DOMAIN memory /\ DOMAIN right(memory) = DOMAIN memory
  BY <1>2, <1>3, <1>5 DEF PutsLeft, PutsRight
<1>7. PICK m1_ : \/ /\ PutsLeft(m1_, memory, w, a, MO!Aligned(a, n), n)
                    /\ PutsRight(memory', m1_, w, b, MO!Aligned(b, n), n)
                 \/ /\ PutsRight(m1_, memory, w, b, MO!Aligned(b, n), n)
                    /\ PutsLeft(memory', m1_, w, a, MO!Aligned(a, n), n)
  <2>1. CASE leftFirst
    <3>1. PutsLeft(left(memory), memory, w, a, MO!Aligned(a, n), n) BY <1>2, <1>5
    <3>2. PutsRight(memory', left(memory), w, b, MO!Aligned(b, n), n) BY <1>3, <1>4, <1>5, <1>6, <2>1
    <3> QED BY <3>1, <3>2
  <2>2. CASE ~leftFirst
    <3>1. PutsRight(right(memory), memory, w, b, MO!Aligned(b, n), n) BY <1>3, <1>5
    <3>2. PutsLeft(memory', right(memory), w, a, MO!Aligned(a, n), n) BY <1>2, <1>4, <1>5, <1>6, <2>2
    <3> QED BY <3>1, <3>2
  <2> QED BY <2>1, <2>2
<1>8. \A x \in DOMAIN memory : memory'[x] = IF x \in a..(a + n - 1) THEN w[x - a + 1] ELSE memory[x]
  <2>1. PairStored(memory', memory, w, a, n) BY <1>0, <1>5, <1>7, PairStores
  <2> QED BY <2>1 DEF PairStored
<1>9. memory' = [x \in DOMAIN memory |-> memory'[x]]
  <2>1. CASE PutsLeft(m1_, memory, w, a, MO!Aligned(a, n), n) /\ PutsRight(memory', m1_, w, b, MO!Aligned(b, n), n)
    <3>1. DOMAIN m1_ = DOMAIN memory BY <2>1 DEF PutsLeft
    <3>2. memory' = [x \in DOMAIN m1_ |-> memory'[x]] BY <2>1 DEF PutsRight
    <3> QED BY <3>1, <3>2
  <2>2. CASE PutsRight(m1_, memory, w, b, MO!Aligned(b, n), n) /\ PutsLeft(memory', m1_, w, a, MO!Aligned(a, n), n)
    <3>1. m1_ = [x \in DOMAIN memory |-> m1_[x]] BY <2>2 DEF PutsRight
    <3>2. memory' = [x \in DOMAIN m1_ |-> IF x \in a..(MO!Aligned(a, n) + n - 1) THEN w[x - a + 1] ELSE m1_[x]]
      BY <2>2 DEF PutsLeft
    <3> QED BY <3>1, <3>2
  <2> QED BY <1>7, <2>1, <2>2
<1>10. \A x \in DOMAIN memory :
          memory'[x] = IF x \in a..(a + n - 1) THEN gpr[8 - n + (x - a + 1)] ELSE memory[x]
  <2>1. ASSUME NEW x \in DOMAIN memory, x \in a..(a + n - 1) PROVE w[x - a + 1] = gpr[8 - n + (x - a + 1)]
    <3>1. x - a + 1 \in 1..n BY <1>0, <2>1
    <3> QED BY <1>w, <3>1
  <2> QED BY <1>8, <2>1
<1>11. MO!Whole /\ MO!Elsewhere BY <1>0, <1>4, <1>5, <1>10, StoreWhole
<1>12. memory' = [x \in 0..(Size - 1) |-> memory'[x]] BY <1>9 DEF MemInv
<1> QED BY <1>4, <1>11, <1>12

LEMMA ScSafe ==
  ASSUME ExecutionAssumption, MemInv, MO!sc
  PROVE  MemInv' /\ MO!Whole /\ MO!Elsewhere
<1>1. PICK a \in 0..(Size - 1) :
        /\ a % 4 = 0
        /\ memory' = IF ll_bit THEN MO!store(memory, gpr, a, 4) ELSE memory
        /\ gpr' = MO!zext(<<IF ll_bit THEN {<<"one", 1>>} ELSE MO!Byte0>>)
        /\ did' = IF ll_bit THEN [op |-> "store", a |-> a, n |-> 4] ELSE [op |-> "none"]
  BY DEF MO!sc
<1>2. IsWord(gpr', 8)
  <2> DEFINE w == <<IF ll_bit THEN {<<"one", 1>>} ELSE MO!Byte0>>
  <2>1. IsWord(w, 1) BY DEF IsWord
  <2>2. gpr' = MO!zext(w) BY <1>1
  <2> HIDE DEF w
  <2>3. IsWord(MO!zext(w), 8) BY <2>1, WordZext
  <2> QED BY <2>2, <2>3
<1>3. CASE ll_bit
  <2>1. memory' = [x \in 0..(Size - 1) |-> memory'[x]] /\ MO!Whole /\ MO!Elsewhere
    <3>1. 4 \in {1, 2, 4, 8} /\ memory' = MO!store(memory, gpr, a, 4)
          /\ did' = [op |-> "store", a |-> a, n |-> 4]
      BY <1>1, <1>3
    <3> QED BY <1>1, <3>1, StoreSafe
  <2> QED BY <1>2, <2>1 DEF MemInv, IsWord
<1>4. CASE ~ll_bit
  <2>1. memory' = memory /\ did'.op = "none" BY <1>1, <1>4
  <2>2. MO!Whole /\ MO!Elsewhere BY <2>1 DEF MO!Whole, MO!Elsewhere
  <2> QED BY <1>2, <2>1, <2>2 DEF MemInv, IsWord
<1> QED BY <1>3, <1>4

\* A reversed word.
LEMMA WordSwap ==
  ASSUME NEW n \in Nat, NEW w, IsWord(w, n)
  PROVE  IsWord(MO!swap(w), n) /\ \A i \in 1..n : MO!swap(w)[i] = w[n - i + 1]
<1>1. MO!swap(w) = [i \in 1..n |-> w[n - i + 1]] BY WordSeq DEF MO!swap
<1> QED BY <1>1 DEF IsWord

\* The last four bytes of a register.
LEMMA Low4 ==
  ASSUME NEW r, IsWord(r, 8)
  PROVE  IsWord(MO!Low(r, 4), 4) /\ \A i \in 1..4 : MO!Low(r, 4)[i] = r[4 + i]
<1> DEFINE p == 8  q == 4
<1>1. p \in Nat /\ q \in 0..p /\ IsWord(r, p) OBVIOUS
<1> HIDE DEF p, q
<1>2. IsWord(MO!Low(r, q), q) /\ \A i \in 1..q : MO!Low(r, q)[i] = r[p - q + i] BY <1>1, WordLow
<1>3. \A i \in 1..4 : 8 - 4 + i = 4 + i OBVIOUS
<1> QED BY <1>2, <1>3 DEF p, q

LEMMA ReversedSafe ==
  ASSUME ExecutionAssumption, MemInv, MO!Reversed
  PROVE  MemInv' /\ MO!Whole /\ MO!Elsewhere
<1>1. PICK a \in 0..(Size - 1) :
        /\ MO!Room(a, 4)
        /\ \/ /\ gpr' = MO!lwbr(memory, a)
              /\ did' = [op |-> "reversed load", a |-> a, n |-> 4]
              /\ UNCHANGED memory
           \/ /\ memory' = MO!stwbr(memory, gpr, a)
              /\ did' = [op |-> "reversed store", a |-> a, n |-> 4]
              /\ UNCHANGED gpr
  BY DEF MO!Reversed
<1>2. a \in Nat /\ DOMAIN memory \subseteq Nat /\ {a + i : i \in 0..(4 - 1)} \subseteq DOMAIN memory
  BY <1>1, Inside
<1>3. CASE gpr' = MO!lwbr(memory, a) /\ did' = [op |-> "reversed load", a |-> a, n |-> 4] /\ memory' = memory
  <2> DEFINE w == MO!At(memory, a, 4)  u == MO!swap(w)
  <2>1. IsWord(w, 4) /\ \A i \in 1..4 : w[i] = memory[a + i - 1] BY WordAt
  <2> HIDE DEF w
  <2>2. IsWord(u, 4) /\ \A i \in 1..4 : u[i] = w[4 - i + 1] BY <2>1, WordSwap
  <2> HIDE DEF u
  <2>3. gpr' = MO!zext(u) BY <1>3 DEF MO!lwbr, u, w
  <2>4. IsWord(gpr', 8) /\ \A i \in 1..8 : gpr'[i] = IF i <= 8 - 4 THEN {} ELSE u[i - (8 - 4)]
    BY <2>2, <2>3, WordZext
  <2>5. ASSUME NEW i \in 1..4 PROVE gpr'[4 + i] = memory[a + 4 - i]
    <3>1. 4 + i \in 1..8 /\ ~(4 + i <= 8 - 4) /\ 4 + i - (8 - 4) = i OBVIOUS
    <3>2. 4 - i + 1 \in 1..4 /\ a + (4 - i + 1) - 1 = a + 4 - i BY <1>2
    <3>3. gpr'[4 + i] = u[i] BY <2>4, <3>1
    <3>4. w[4 - i + 1] = memory[a + (4 - i + 1) - 1] BY <2>1, <3>2
    <3> QED BY <2>2, <3>2, <3>3, <3>4
  <2>6. did'.op = "reversed load" /\ did'.a = a BY <1>3
  <2>7. MO!Whole /\ MO!Elsewhere BY <2>5, <2>6 DEF MO!Whole, MO!Elsewhere
  <2> QED BY <1>3, <2>4, <2>7 DEF MemInv, IsWord
<1>4. CASE /\ memory' = MO!stwbr(memory, gpr, a) /\ gpr' = gpr
           /\ did' = [op |-> "reversed store", a |-> a, n |-> 4]
  <2> DEFINE w == MO!Low(gpr, 4)  u == MO!swap(w)
  <2>1. IsWord(w, 4) /\ \A i \in 1..4 : w[i] = gpr[4 + i] BY Low4 DEF MemInv
  <2> HIDE DEF w
  <2>2. IsWord(u, 4) /\ \A i \in 1..4 : u[i] = w[4 - i + 1] BY <2>1, WordSwap
  <2> HIDE DEF u
  <2>3. memory' = MO!Put(memory, a, u) BY <1>4 DEF MO!stwbr, u, w
  <2>4. Stored(memory', memory, a, u, 4) BY <1>2, <2>2, <2>3, WordPut
  <2>5. memory' = [x \in DOMAIN memory |-> IF x \in a..(a + 4 - 1) THEN u[x - a + 1] ELSE memory[x]]
    BY <2>4 DEF Stored
  <2>6. did'.op = "reversed store" /\ did'.a = a /\ did'.n = 4 BY <1>4
  <2>7. ASSUME NEW i \in 0..(4 - 1) PROVE memory'[a + i] = gpr[8 - ((a + i) - a)]
    <3>1. a + i \in DOMAIN memory /\ a + i \in a..(a + 4 - 1) BY <1>2
    <3>2. (a + i) - a + 1 \in 1..4 /\ 4 - ((a + i) - a + 1) + 1 \in 1..4
          /\ 4 + (4 - ((a + i) - a + 1) + 1) = 8 - ((a + i) - a)
      BY <1>2
    <3>3. memory'[a + i] = u[(a + i) - a + 1] BY <2>5, <3>1
    <3>4. u[(a + i) - a + 1] = w[4 - ((a + i) - a + 1) + 1] BY <2>2, <3>2
    <3>5. w[4 - ((a + i) - a + 1) + 1] = gpr[4 + (4 - ((a + i) - a + 1) + 1)] BY <2>1, <3>2
    <3> QED BY <3>2, <3>3, <3>4, <3>5
  <2>8. ASSUME NEW x \in DOMAIN memory, x < a \/ x >= a + 4 PROVE memory'[x] = memory[x]
    <3>1. ~(x \in a..(a + 4 - 1)) BY <1>2, <2>8
    <3> QED BY <2>5, <3>1
  <2>9. MO!Whole /\ MO!Elsewhere BY <2>6, <2>7, <2>8 DEF MO!Whole, MO!Elsewhere
  <2> QED BY <1>4, <2>5, <2>9 DEF MemInv, IsWord
<1> QED BY <1>1, <1>3, <1>4

\* The first k bytes of a string of n are in the register, or in memory.
Taken(r, m, a, k, n) ==
  /\ IsWord(r, 8)
  /\ \A i \in 1..4 : r[4 + i] = IF i <= k /\ i <= n THEN m[a + i - 1] ELSE {}
Given(m2, m, r, a, k, n) ==
  m2 = [x \in DOMAIN m |-> IF x >= a /\ x < a + k /\ x < a + n THEN r[5 + x - a] ELSE m[x]]

LEMMA StringTakes ==
  ASSUME NEW m, NEW a \in Nat, NEW n \in 1..4, NEW k \in 0..3, NEW r, Taken(r, m, a, k, n), NEW l, l = k + 1,
         NEW r2, r2 = IF k < n THEN MO!lsw(m, r, a + k, k) ELSE r
  PROVE  Taken(r2, m, a, l, n)
<1>1. CASE k < n
  <2> DEFINE w == MO!Low(r, 4)
             u == [i \in 1..4 |-> w[i] \cup (IF i = k + 1 THEN m[a + k] ELSE MO!Byte0)]
  <2>1. IsWord(w, 4) /\ \A i \in 1..4 : w[i] = r[4 + i] BY Low4 DEF Taken
  <2>2. r2 = MO!zext(u) BY <1>1 DEF MO!lsw
  <2> HIDE DEF w
  <2>3. IsWord(u, 4) /\ \A i \in 1..4 : u[i] = w[i] \cup (IF i = k + 1 THEN m[a + k] ELSE {})
    BY DEF IsWord, MO!Byte0
  <2> HIDE DEF u
  <2>4. IsWord(r2, 8) /\ \A i \in 1..8 : r2[i] = IF i <= 8 - 4 THEN {} ELSE u[i - (8 - 4)]
    BY <2>2, <2>3, WordZext
  <2>5. ASSUME NEW i \in 1..4 PROVE r2[4 + i] = IF i <= l /\ i <= n THEN m[a + i - 1] ELSE {}
    <3>1. 4 + i \in 1..8 /\ ~(4 + i <= 8 - 4) /\ 4 + i - (8 - 4) = i OBVIOUS
    <3>2. r2[4 + i] = u[i] BY <2>4, <3>1
    <3>3. r[4 + i] = IF i <= k /\ i <= n THEN m[a + i - 1] ELSE {} BY DEF Taken
    <3>4. r2[4 + i] = r[4 + i] \cup (IF i = k + 1 THEN m[a + k] ELSE {}) BY <2>1, <2>3, <3>2
    <3>5. CASE i = k + 1
      <4>1. ~(i <= k) /\ i <= l /\ i <= n /\ a + i - 1 = a + k BY <1>1, <3>5
      <4>2. r2[4 + i] = {} \cup m[a + i - 1] BY <3>3, <3>4, <3>5, <4>1
      <4> QED BY <4>1, <4>2
    <3>6. CASE i # k + 1
      <4>1. i <= k <=> i <= l BY <3>6
      <4>2. r2[4 + i] = r[4 + i] \cup {} BY <3>4, <3>6
      <4> QED BY <3>3, <4>1, <4>2
    <3> QED BY <3>5, <3>6
  <2> QED BY <2>4, <2>5 DEF Taken
<1>2. CASE ~(k < n)
  <2>1. \A i \in 1..4 : (i <= k /\ i <= n <=> i <= l /\ i <= n) BY <1>2
  <2> QED BY <1>2, <2>1 DEF Taken
<1> QED BY <1>1, <1>2

LEMMA StringGives ==
  ASSUME NEW m, DOMAIN m \subseteq Nat, NEW a \in Nat, NEW n \in 1..4, NEW k \in 0..3, NEW r, IsWord(r, 8),
         NEW m1_, Given(m1_, m, r, a, k, n), NEW l, l = k + 1,
         NEW m2, m2 = IF k < n THEN MO!stsw(m1_, r, a + k, k) ELSE m1_
  PROVE  Given(m2, m, r, a, l, n)
<1>1. CASE k < n
  <2> DEFINE w == MO!Low(r, 4)  u == <<w[k + 1]>>
  <2>1. \A i \in 1..4 : w[i] = r[4 + i] BY Low4
  <2>2. m2 = MO!Put(m1_, a + k, u) BY <1>1 DEF MO!stsw
  <2> HIDE DEF w
  <2>3. IsWord(u, 1) /\ u[1] = r[4 + (k + 1)]
    <3>1. k + 1 \in 1..4 OBVIOUS
    <3> QED BY <2>1, <3>1 DEF IsWord
  <2> HIDE DEF u
  <2> DEFINE c == a + k
  <2>c. c \in Nat /\ c = a + k /\ 1 \in Nat OBVIOUS
  <2> HIDE DEF c
  <2>4. Stored(m2, m1_, c, u, 1) BY <2>2, <2>3, <2>c, WordPut
  <2>5. m2 = [x \in DOMAIN m |-> IF x \in c..(c + 1 - 1) THEN u[x - c + 1] ELSE m1_[x]]
    BY <2>4 DEF Stored, Given
  <2>6. ASSUME NEW x \in DOMAIN m
        PROVE  (IF x \in c..(c + 1 - 1) THEN u[x - c + 1] ELSE m1_[x])
                 = (IF x >= a /\ x < a + l /\ x < a + n THEN r[5 + x - a] ELSE m[x])
    <3>1. x \in Nat OBVIOUS
    <3>2. CASE x = c
      <4>1. x \in c..(c + 1 - 1) /\ x - c + 1 = 1 /\ x >= a /\ x < a + l /\ x < a + n
            /\ 5 + x - a = 4 + (k + 1)
        BY <1>1, <2>c, <3>1, <3>2
      <4> QED BY <2>3, <4>1
    <3>3. CASE x # c
      <4>1. ~(x \in c..(c + 1 - 1)) /\ (x < a + k <=> x < a + l) BY <2>c, <3>1, <3>3
      <4> QED BY <4>1 DEF Given
    <3> QED BY <3>2, <3>3
  <2>7. m2 = [x \in DOMAIN m |-> IF x >= a /\ x < a + l /\ x < a + n THEN r[5 + x - a] ELSE m[x]]
    BY <2>5, <2>6
  <2> QED BY <2>7 DEF Given
<1>2. CASE ~(k < n)
  <2>1. \A x \in DOMAIN m : (x < a + k /\ x < a + n <=> x < a + l /\ x < a + n) BY <1>2
  <2> QED BY <1>2, <2>1 DEF Given
<1> QED BY <1>1, <1>2

LEMMA StringSafe ==
  ASSUME ExecutionAssumption, MemInv, MO!String
  PROVE  MemInv' /\ MO!Whole /\ MO!Elsewhere
<1>1. PICK a \in 0..(Size - 1), n \in 1..4 :
        LET in(r, k)  == IF k < n THEN MO!lsw(memory, r, a + k, k) ELSE r
            out(m, k) == IF k < n THEN MO!stsw(m, gpr, a + k, k) ELSE m
        IN  /\ MO!Step /\ MO!Room(a, n)
            /\ \/ /\ gpr' = in(in(in(in(MO!Fill(MO!Byte0, 8), 0), 1), 2), 3)
                  /\ did' = [op |-> "string load", a |-> a, n |-> n]
                  /\ UNCHANGED memory
               \/ /\ memory' = out(out(out(out(memory, 0), 1), 2), 3)
                  /\ did' = [op |-> "string store", a |-> a, n |-> n]
                  /\ UNCHANGED gpr
            /\ UNCHANGED ll_bit
  BY DEF MO!String
<1> DEFINE in(r, k)  == IF k < n THEN MO!lsw(memory, r, a + k, k) ELSE r
           out(m, k) == IF k < n THEN MO!stsw(m, gpr, a + k, k) ELSE m
           r0 == MO!Fill(MO!Byte0, 8)
<1>2. /\ a \in Nat /\ DOMAIN memory \subseteq Nat /\ a + n <= Size /\ DOMAIN memory = 0..(Size - 1)
      /\ Size \in Nat
  <2>1. MO!Room(a, n) BY <1>1
  <2>2. Size \in Nat BY DEF ExecutionAssumption, MO!MemOpsAssumption
  <2>3. DOMAIN memory = 0..(Size - 1) BY DEF MemInv
  <2> QED BY <2>1, <2>2, <2>3 DEF MO!Room
<1>3. ASSUME NEW k \in 0..3, NEW r, Taken(r, memory, a, k, n), NEW l, l = k + 1
      PROVE  Taken(in(r, k), memory, a, l, n)
  BY <1>2, <1>3, StringTakes
<1>4. ASSUME NEW k \in 0..3, NEW m, Given(m, memory, gpr, a, k, n), NEW l, l = k + 1
      PROVE  Given(out(m, k), memory, gpr, a, l, n)
  BY <1>2, <1>4, StringGives DEF MemInv
<1>5. CASE /\ gpr' = in(in(in(in(r0, 0), 1), 2), 3) /\ memory' = memory
           /\ did' = [op |-> "string load", a |-> a, n |-> n]
  <2>1. Taken(r0, memory, a, 0, n)
    <3>1. r0 = [i \in 1..8 |-> {}] BY DEF MO!Fill, MO!Byte0
    <3> HIDE DEF r0
    <3>2. \A i \in 1..4 : 4 + i \in 1..8 /\ ~(i <= 0) OBVIOUS
    <3> QED BY <3>1, <3>2 DEF Taken, IsWord
  <2> HIDE DEF in, r0
  <2>2. Taken(in(r0, 0), memory, a, 1, n) BY <1>3, <2>1
  <2>3. Taken(in(in(r0, 0), 1), memory, a, 2, n) BY <1>3, <2>2
  <2>4. Taken(in(in(in(r0, 0), 1), 2), memory, a, 3, n) BY <1>3, <2>3
  <2>a. Taken(in(in(in(in(r0, 0), 1), 2), 3), memory, a, 4, n) BY <1>3, <2>4
  <2>5. Taken(gpr', memory, a, 4, n) BY <1>5, <2>a
  <2>6. did'.op = "string load" /\ did'.a = a /\ did'.n = n BY <1>5
  <2>7. \A i \in 1..4 : gpr'[4 + i] = IF i <= n THEN memory[a + i - 1] ELSE {} BY <2>5 DEF Taken
  <2>8. MO!Whole /\ MO!Elsewhere BY <2>6, <2>7 DEF MO!Whole, MO!Elsewhere, MO!Byte0
  <2> QED BY <1>5, <2>5, <2>8 DEF MemInv, Taken, IsWord
<1>6. CASE /\ memory' = out(out(out(out(memory, 0), 1), 2), 3) /\ gpr' = gpr
           /\ did' = [op |-> "string store", a |-> a, n |-> n]
  <2>1. Given(memory, memory, gpr, a, 0, n)
    <3>1. \A x \in DOMAIN memory : ~(x >= a /\ x < a + 0) BY <1>2
    <3> QED BY <3>1 DEF Given, MemInv
  <2> HIDE DEF out
  <2>2. Given(out(memory, 0), memory, gpr, a, 1, n) BY <1>4, <2>1
  <2>3. Given(out(out(memory, 0), 1), memory, gpr, a, 2, n) BY <1>4, <2>2
  <2>4. Given(out(out(out(memory, 0), 1), 2), memory, gpr, a, 3, n) BY <1>4, <2>3
  <2>a. Given(out(out(out(out(memory, 0), 1), 2), 3), memory, gpr, a, 4, n) BY <1>4, <2>4
  <2>5. Given(memory', memory, gpr, a, 4, n) BY <1>6, <2>a
  <2>6. did'.op = "string store" /\ did'.a = a /\ did'.n = n BY <1>6
  <2>7. ASSUME NEW i \in 0..(n - 1) PROVE memory'[a + i] = gpr[5 + (a + i) - a]
    <3>1. a + i \in DOMAIN memory /\ a + i >= a /\ a + i < a + 4 /\ a + i < a + n BY <1>2
    <3> QED BY <2>5, <3>1 DEF Given
  <2>8. ASSUME NEW x \in DOMAIN memory, x < a \/ x >= a + n PROVE memory'[x] = memory[x]
    <3>1. ~(x >= a /\ x < a + 4 /\ x < a + n) BY <1>2, <2>8
    <3> QED BY <2>5, <3>1 DEF Given
  <2>9. MO!Whole /\ MO!Elsewhere BY <2>6, <2>7, <2>8 DEF MO!Whole, MO!Elsewhere
  <2>10. memory' = [x \in 0..(Size - 1) |-> memory'[x]] BY <1>2, <2>5 DEF Given
  <2> QED BY <1>6, <2>9, <2>10 DEF MemInv, IsWord
<1>7. \/ gpr' = in(in(in(in(r0, 0), 1), 2), 3) /\ memory' = memory
         /\ did' = [op |-> "string load", a |-> a, n |-> n]
      \/ memory' = out(out(out(out(memory, 0), 1), 2), 3) /\ gpr' = gpr
         /\ did' = [op |-> "string store", a |-> a, n |-> n]
  BY <1>1
<1> QED BY <1>5, <1>6, <1>7

LEMMA MemNextSafe ==
  ASSUME ExecutionAssumption, MemInv, MO!MemNext
  PROVE  MemInv' /\ MO!Whole /\ MO!Elsewhere
<1>1. CASE MO!Load
  <2>1. PICK a \in 0..(Size - 1), n \in {1, 2, 4, 8}, signed \in BOOLEAN :
          /\ gpr' = MO!load(memory, a, n, signed)
          /\ did' = [op |-> "load", a |-> a, n |-> n, signed |-> signed]
          /\ memory' = memory
    BY <1>1 DEF MO!Load
  <2> QED BY <2>1, LoadSafe
<1>2. CASE MO!Store
  <2>1. PICK a \in 0..(Size - 1), n \in {1, 2, 4, 8} :
          /\ a % n = 0
          /\ memory' = MO!store(memory, gpr, a, n)
          /\ did' = [op |-> "store", a |-> a, n |-> n]
          /\ gpr' = gpr
    BY <1>2 DEF MO!Store
  <2>2. memory' = [x \in 0..(Size - 1) |-> memory'[x]] /\ MO!Whole /\ MO!Elsewhere BY <2>1, StoreSafe
  <2> QED BY <2>1, <2>2 DEF MemInv, IsWord
<1>3. CASE MO!LoadPair BY <1>3, LoadPairSafe
<1>4. CASE MO!StorePair
  <2>1. memory' = [x \in 0..(Size - 1) |-> memory'[x]] /\ gpr' = gpr /\ MO!Whole /\ MO!Elsewhere
    BY <1>4, StorePairSafe
  <2> QED BY <2>1 DEF MemInv, IsWord
<1>5. CASE MO!ll
  <2>1. PICK a \in 0..(Size - 1) :
          /\ gpr' = MO!load(memory, a, 4, TRUE)
          /\ did' = [op |-> "load", a |-> a, n |-> 4, signed |-> TRUE]
          /\ memory' = memory
    BY <1>5 DEF MO!ll
  <2>2. 4 \in {1, 2, 4, 8} /\ TRUE \in BOOLEAN OBVIOUS
  <2> QED BY <2>1, <2>2, LoadSafe
<1>6. CASE MO!sc BY <1>6, ScSafe
<1>7. CASE MO!Reversed BY <1>7, ReversedSafe
<1>8. CASE MO!String BY <1>8, StringSafe
<1> QED BY <1>1, <1>2, <1>3, <1>4, <1>5, <1>6, <1>7, <1>8 DEF MO!MemNext

MemRunInv == part = "memory" => MemInv

\* Every load and store moves the bytes its address and width name, and no
\* other byte changes, in a memory of any size: the pairs of instructions for a
\* word that is not aligned too, in either order, whatever a shift by the full
\* width does (mips_mts.c, ppc32_mem.c, ppc32_exec.c).
THEOREM ExecutionAccessWhole == ExecutionSpec => AccessWhole
<1> USE ExecutionAssumption
<1>1. ExecutionInit => MemRunInv
  <2> SUFFICES ASSUME ExecutionInit, part = "memory" PROVE MemInv
    BY DEF MemRunInv
  <2>1. MO!MemInit BY DEF ExecutionInit
  <2> QED BY <2>1 DEF MO!MemInit, MemInv, IsWord
<1>2. ASSUME MemRunInv, [ExecutionNext]_<<part, codeVars, mmuVars, memVars>>
      PROVE  MemRunInv' /\ [part = "memory" => MO!Whole /\ MO!Elsewhere]_memVars
  <2>1. CASE MemoryStep
    <3>1. MemInv /\ MO!MemNext /\ part' = part BY <1>2, <2>1 DEF MemoryStep, MemRunInv
    <3>2. MemInv' /\ MO!Whole /\ MO!Elsewhere BY <3>1, MemNextSafe
    <3> QED BY <3>1, <3>2 DEF MemRunInv
  <2>2. CASE PpcCodeStep \/ MipsCodeStep \/ PpcMmuStep \/ MipsMmuStep
    <3>1. part # "memory" /\ part' = part /\ memVars' = memVars
      BY <2>2 DEF PpcCodeStep, MipsCodeStep, PpcMmuStep, MipsMmuStep
    <3> QED BY <3>1 DEF MemRunInv
  <2>3. CASE UNCHANGED <<part, codeVars, mmuVars, memVars>>
    <3>1. part' = part /\ memVars' = memVars BY <2>3
    <3>2. MemRunInv' BY <1>2, <3>1 DEF MemRunInv, MemInv, IsWord, memVars
    <3> QED BY <3>1, <3>2
  <2> QED BY <1>2, <2>1, <2>2, <2>3 DEF ExecutionNext
<1> QED BY <1>1, <1>2, PTL DEF ExecutionSpec, AccessWhole
=============================================================================
