----------------------------- MODULE CodeProofs -----------------------------
(***************************************************************************)
(* Proofs about the code caches from which the CPU thread runs guest code  *)
(* (Execution, ppc32_jit.c, mips64_jit.c), for every exec area, set of     *)
(* hash slots, guest page and length of its code: no page of the exec area *)
(* is lost or shared, every block that is listed is found, and the caches  *)
(* implement a stale cache of the pages of code.                           *)
(***************************************************************************)
EXTENDS Execution, FiniteSetTheorems, WellFoundedInduction, TLAPS

-----------------------------------------------------------------------------
(* Numbers,                                                                *)

\* A set of numbers has a least one.
LEMMA LeastNat ==
  ASSUME NEW S, S \subseteq Nat, S # {}
  PROVE  \E x \in S : \A y \in S : x <= y
<1> DEFINE R == {ss \in Nat \X Nat : ss[1] < ss[2]}
<1>1. IsWellFoundedOn(R, Nat)
  BY NatLessThanWellFounded DEF OpToRel
<1> HIDE DEF R
<1>2. \E x \in S : \A y \in S : ~ (<<y, x>> \in R)
  BY <1>1, WFMin
<1>3. PICK x \in S : \A y \in S : ~ (<<y, x>> \in R)
  BY <1>2
<1>4. ASSUME NEW y \in S PROVE x <= y
  <2>1. <<y, x>> \in Nat \X Nat /\ ~ (<<y, x>>[1] < <<y, x>>[2])
    BY <1>3 DEF R
  <2> QED
    BY <2>1
<1> QED
  BY <1>4

\* What holds at first and goes on from each number to the next holds up to n.
LEMMA UpTo ==
  ASSUME NEW n \in Nat, NEW S, 0 \in S, \A i \in 0 .. n : i \in S /\ i < n => i + 1 \in S
  PROVE  \A i \in 0 .. n : i \in S
<1> DEFINE T == {i \in 0 .. n : i \notin S}
<1> SUFFICES ASSUME T # {} PROVE FALSE OBVIOUS
<1>1. T \subseteq Nat OBVIOUS
<1>2. PICK x \in T : \A y \in T : x <= y BY <1>1, LeastNat
<1>3. x # 0 /\ x - 1 \in 0 .. n /\ x - 1 \notin T BY <1>2
<1> QED BY <1>2, <1>3

-----------------------------------------------------------------------------
(* then sequences without repetition: the free pages, the pages of a       *)
(* block, the lists of blocks.                                             *)
Els(s) == {s[i] : i \in DOMAIN s}
Once(s) == \A i, k \in DOMAIN s : s[i] = s[k] => i = k

\* What is in a sequence, in terms of its places.
LEMMA ElsAt ==
  ASSUME NEW S, NEW s \in Seq(S)
  PROVE  /\ DOMAIN s = 1 .. Len(s) /\ Len(s) \in Nat
         /\ \A i \in 1 .. Len(s) : s[i] \in Els(s) /\ s[i] \in S
         /\ \A x \in Els(s) : x \in S /\ \E i \in 1 .. Len(s) : s[i] = x
         /\ s = <<>> <=> Els(s) = {}
         /\ s = <<>> <=> Len(s) = 0
BY DEF Els

\* An element in front,
LEMMA ConsOnce ==
  ASSUME NEW S, NEW s \in Seq(S), NEW x \in S
  PROVE  /\ <<x>> \o s \in Seq(S)
         /\ Els(<<x>> \o s) = Els(s) \cup {x}
         /\ Once(s) /\ x \notin Els(s) => Once(<<x>> \o s)
<1> DEFINE t == <<x>> \o s
<1>1. t \in Seq(S) /\ Len(t) = Len(s) + 1 /\ \A i \in 1 .. Len(s) + 1 : t[i] = IF i = 1 THEN x ELSE s[i - 1]
  OBVIOUS
<1> HIDE DEF t
<1>2. Els(t) = Els(s) \cup {x}
  <2>1. ASSUME NEW y \in Els(t) PROVE y \in Els(s) \cup {x}
    <3>1. PICK i \in 1 .. Len(t) : t[i] = y BY <1>1, ElsAt
    <3>2. CASE i = 1 BY <1>1, <3>1, <3>2
    <3>3. CASE i # 1
      <4>1. i - 1 \in 1 .. Len(s) /\ s[i - 1] = y BY <1>1, <3>1, <3>3, ElsAt
      <4> QED BY <4>1, ElsAt
    <3> QED BY <3>2, <3>3
  <2>2. ASSUME NEW y \in Els(s) PROVE y \in Els(t)
    <3>1. PICK i \in 1 .. Len(s) : s[i] = y BY ElsAt
    <3>2. i + 1 \in 1 .. Len(t) /\ t[i + 1] = y BY <1>1, <3>1, ElsAt
    <3> QED BY <1>1, <3>2, ElsAt
  <2>3. x \in Els(t)
    <3>1. 1 \in 1 .. Len(t) /\ t[1] = x BY <1>1, ElsAt
    <3> QED BY <1>1, <3>1, ElsAt
  <2> QED BY <2>1, <2>2, <2>3
<1>3. ASSUME Once(s), x \notin Els(s) PROVE Once(t)
  <2> SUFFICES ASSUME NEW i \in 1 .. Len(t), NEW k \in 1 .. Len(t), t[i] = t[k] PROVE i = k
    BY <1>1, ElsAt DEF Once
  <2>1. \A m \in 1 .. Len(s) : s[m] # x BY <1>3, ElsAt
  <2>2. CASE i = 1 \/ k = 1
    <3>1. \A m \in 2 .. Len(t) : t[m] # x
      <4> TAKE m \in 2 .. Len(t)
      <4>1. m \in 1 .. Len(s) + 1 /\ m # 1 /\ m - 1 \in 1 .. Len(s) BY <1>1, ElsAt
      <4>2. t[m] = s[m - 1] BY <1>1, <4>1
      <4> QED BY <2>1, <4>1, <4>2
    <3>2. t[1] = x BY <1>1, ElsAt
    <3> QED BY <1>1, <2>2, <3>1, <3>2, ElsAt
  <2>3. CASE i # 1 /\ k # 1
    <3>1. Len(s) \in Nat /\ i \in 2 .. Len(s) + 1 /\ k \in 2 .. Len(s) + 1 BY <1>1, <2>3, ElsAt
    <3>2. i - 1 \in 1 .. Len(s) /\ k - 1 \in 1 .. Len(s) BY <3>1
    <3>3. t[i] = s[i - 1] /\ t[k] = s[k - 1] BY <1>1, <2>3, <3>1
    <3>4. s[i - 1] = s[k - 1] BY <3>3
    <3>5. i - 1 = k - 1 BY <1>3, <3>2, <3>4, ElsAt DEF Once
    <3> QED BY <3>1, <3>5
  <2> QED BY <2>2, <2>3
<1> QED BY <1>1, <1>2, <1>3 DEF t

\* and the first one taken off.
LEMMA TailOnce ==
  ASSUME NEW S, NEW s \in Seq(S), s # <<>>, Once(s)
  PROVE  /\ Head(s) \in Els(s) /\ Head(s) \in S
         /\ Tail(s) \in Seq(S) /\ Once(Tail(s))
         /\ Els(Tail(s)) = Els(s) \ {Head(s)}
<1> DEFINE t == Tail(s)
<1>1. t \in Seq(S) /\ Len(t) = Len(s) - 1 /\ (\A i \in 1 .. Len(t) : t[i] = s[i + 1]) /\ Head(s) = s[1]
      /\ Len(s) \in Nat \ {0}
  OBVIOUS
<1> HIDE DEF t
<1>2. Once(t)
  <2> SUFFICES ASSUME NEW i \in 1 .. Len(t), NEW k \in 1 .. Len(t), t[i] = t[k] PROVE i = k
    BY <1>1, ElsAt DEF Once
  <2>1. s[i + 1] = s[k + 1] /\ i + 1 \in 1 .. Len(s) /\ k + 1 \in 1 .. Len(s) BY <1>1
  <2>2. i + 1 = k + 1 BY <2>1, ElsAt DEF Once
  <2> QED BY <2>2
<1>3. Els(t) = Els(s) \ {s[1]}
  <2>1. ASSUME NEW y \in Els(t) PROVE y \in Els(s) \ {s[1]}
    <3>1. PICK i \in 1 .. Len(t) : t[i] = y BY <1>1, ElsAt
    <3>2. y = s[i + 1] /\ i + 1 \in 1 .. Len(s) /\ i + 1 # 1 /\ 1 \in 1 .. Len(s) BY <1>1, <3>1
    <3>3. s[i + 1] # s[1] BY <3>2, ElsAt DEF Once
    <3> QED BY <3>2, <3>3, ElsAt
  <2>2. ASSUME NEW y \in Els(s), y # s[1] PROVE y \in Els(t)
    <3>1. PICK i \in 1 .. Len(s) : s[i] = y BY ElsAt
    <3>2. i - 1 \in 1 .. Len(t) /\ t[i - 1] = y BY <1>1, <2>2, <3>1
    <3> QED BY <1>1, <3>2, ElsAt
  <2> QED BY <2>1, <2>2
<1>4. s[1] \in Els(s) /\ s[1] \in S BY <1>1, ElsAt
<1> QED BY <1>1, <1>2, <1>3, <1>4 DEF t

\* What is appended is the last element.
LEMMA AppendIs ==
  ASSUME NEW S, NEW s \in Seq(S), NEW x \in S
  PROVE  Len(Append(s, x)) = Len(s) + 1 /\ Len(s) \in Nat /\ Append(s, x)[Len(s) + 1] = x
OBVIOUS

\* An element at the end,
LEMMA AppendOnce ==
  ASSUME NEW S, NEW s \in Seq(S), NEW x \in S
  PROVE  /\ Append(s, x) \in Seq(S) /\ Len(Append(s, x)) = Len(s) + 1
         /\ Els(Append(s, x)) = Els(s) \cup {x}
         /\ Once(Append(s, x)) <=> Once(s) /\ x \notin Els(s)
<1> DEFINE t == Append(s, x)
<1>1. t \in Seq(S) /\ Len(t) = Len(s) + 1 /\ (\A i \in 1 .. Len(s) : t[i] = s[i]) /\ t[Len(s) + 1] = x
      /\ Len(s) \in Nat
  OBVIOUS
<1> HIDE DEF t
<1>2. Els(t) = Els(s) \cup {x}
  <2>1. ASSUME NEW y \in Els(t) PROVE y \in Els(s) \cup {x}
    <3>1. PICK i \in 1 .. Len(t) : t[i] = y BY <1>1, ElsAt
    <3>2. CASE i = Len(t) BY <1>1, <3>1, <3>2
    <3>3. CASE i # Len(t)
      <4>1. i \in 1 .. Len(s) /\ s[i] = y BY <1>1, <3>1, <3>3
      <4> QED BY <4>1, ElsAt
    <3> QED BY <3>2, <3>3
  <2>2. ASSUME NEW y \in Els(s) PROVE y \in Els(t)
    <3>1. PICK i \in 1 .. Len(s) : s[i] = y BY ElsAt
    <3>2. i \in 1 .. Len(t) /\ t[i] = y BY <1>1, <3>1
    <3> QED BY <1>1, <3>2, ElsAt
  <2>3. x \in Els(t)
    <3>1. Len(t) \in 1 .. Len(t) BY <1>1
    <3> QED BY <1>1, <3>1, ElsAt
  <2> QED BY <2>1, <2>2, <2>3
<1>3. ASSUME Once(s), x \notin Els(s) PROVE Once(t)
  <2> SUFFICES ASSUME NEW i \in 1 .. Len(t), NEW k \in 1 .. Len(t), t[i] = t[k] PROVE i = k
    BY <1>1, ElsAt DEF Once
  <2>1. \A m \in 1 .. Len(s) : s[m] # x BY <1>3, ElsAt
  <2>2. CASE i = Len(t) \/ k = Len(t) BY <1>1, <2>1, <2>2
  <2>3. CASE i # Len(t) /\ k # Len(t)
    <3>1. i \in 1 .. Len(s) /\ k \in 1 .. Len(s) /\ s[i] = s[k] BY <1>1, <2>3
    <3> QED BY <1>3, <3>1, ElsAt DEF Once
  <2> QED BY <2>2, <2>3
<1>4. ASSUME Once(t) PROVE Once(s) /\ x \notin Els(s)
  <2>0. DOMAIN t = 1 .. Len(t) BY <1>1
  <2>1. \A i, k \in 1 .. Len(t) : t[i] = t[k] => i = k BY <1>4, <2>0 DEF Once
  <2>2. Once(s)
    <3> SUFFICES ASSUME NEW i \in 1 .. Len(s), NEW k \in 1 .. Len(s), s[i] = s[k] PROVE i = k
      BY ElsAt DEF Once
    <3> QED BY <1>1, <2>1
  <2>3. ASSUME x \in Els(s) PROVE FALSE
    <3>1. PICK i \in 1 .. Len(s) : s[i] = x BY <2>3, ElsAt
    <3> QED BY <1>1, <2>1, <3>1
  <2> QED BY <2>2, <2>3
<1> QED BY <1>1, <1>2, <1>3, <1>4 DEF t

\* and sequences one after the other.
LEMMA CatOnce ==
  ASSUME NEW S, NEW s \in Seq(S), NEW t \in Seq(S)
  PROVE  /\ s \o t \in Seq(S)
         /\ Els(s \o t) = Els(s) \cup Els(t)
         /\ Once(s) /\ Once(t) /\ Els(s) \cap Els(t) = {} => Once(s \o t)
<1> DEFINE u == s \o t
           m == Len(s)
           n == Len(t)
<1>1. /\ u \in Seq(S) /\ Len(u) = m + n /\ m \in Nat /\ n \in Nat
      /\ \A i \in 1 .. m + n : u[i] = IF i <= m THEN s[i] ELSE t[i - m]
  OBVIOUS
<1>a. /\ \A x \in Els(s) : \E i \in 1 .. m : s[i] = x
      /\ \A i \in 1 .. m : s[i] \in Els(s)
  BY ElsAt
<1>b. /\ \A x \in Els(t) : \E i \in 1 .. n : t[i] = x
      /\ \A i \in 1 .. n : t[i] \in Els(t)
  BY ElsAt
<1>c. /\ \A x \in Els(u) : \E i \in 1 .. m + n : u[i] = x
      /\ \A i \in 1 .. m + n : u[i] \in Els(u)
  BY <1>1, ElsAt
<1> HIDE DEF u, m, n
<1>2. Els(u) = Els(s) \cup Els(t)
  <2>1. ASSUME NEW y \in Els(u) PROVE y \in Els(s) \cup Els(t)
    <3>1. PICK i \in 1 .. m + n : u[i] = y BY <1>c
    <3>2. CASE i <= m BY <1>1, <1>a, <3>1, <3>2
    <3>3. CASE ~ i <= m
      <4>1. i - m \in 1 .. n /\ y = t[i - m] BY <1>1, <3>1, <3>3
      <4> QED BY <1>b, <4>1
    <3> QED BY <3>2, <3>3
  <2>2. ASSUME NEW y \in Els(s) PROVE y \in Els(u)
    <3>1. PICK i \in 1 .. m : s[i] = y BY <1>a
    <3>2. i \in 1 .. m + n /\ u[i] = y BY <1>1, <3>1
    <3> QED BY <1>c, <3>2
  <2>3. ASSUME NEW y \in Els(t) PROVE y \in Els(u)
    <3>1. PICK i \in 1 .. n : t[i] = y BY <1>b
    <3>2. i + m \in 1 .. m + n /\ ~ i + m <= m /\ (i + m) - m = i BY <1>1
    <3>3. u[i + m] = y BY <1>1, <3>1, <3>2
    <3> QED BY <1>c, <3>2, <3>3
  <2> QED BY <2>1, <2>2, <2>3
<1>3. ASSUME Once(s), Once(t), Els(s) \cap Els(t) = {} PROVE Once(u)
  <2>1. /\ \A i, k \in 1 .. m : s[i] = s[k] => i = k
        /\ \A i, k \in 1 .. n : t[i] = t[k] => i = k
    BY <1>3, ElsAt DEF Once, m, n
  <2> SUFFICES ASSUME NEW i \in 1 .. m + n, NEW k \in 1 .. m + n, u[i] = u[k] PROVE i = k
    BY <1>1, ElsAt DEF Once
  <2>2. CASE i <= m /\ k <= m BY <1>1, <2>1, <2>2
  <2>3. CASE ~ i <= m /\ ~ k <= m
    <3>1. i - m \in 1 .. n /\ k - m \in 1 .. n /\ t[i - m] = t[k - m] BY <1>1, <2>3
    <3>2. i - m = k - m BY <2>1, <3>1
    <3> QED BY <1>1, <3>2
  <2>4. CASE i <= m /\ ~ k <= m
    <3>1. k - m \in 1 .. n /\ t[k - m] = s[i] /\ i \in 1 .. m BY <1>1, <2>4
    <3> QED BY <1>3, <1>a, <1>b, <3>1
  <2>5. CASE ~ i <= m /\ k <= m
    <3>0. u[i] = t[i - m] /\ u[k] = s[k] BY <1>1, <2>5
    <3>1. i - m \in 1 .. n /\ k \in 1 .. m BY <1>1, <2>5
    <3>2. t[i - m] = s[k] BY <3>0
    <3> QED BY <1>3, <1>a, <1>b, <3>1, <3>2
  <2> QED BY <2>2, <2>3, <2>4, <2>5
<1> QED BY <1>1, <1>2, <1>3 DEF u

\* The other way round.
Backwards(s) == [i \in 1 .. Len(s) |-> s[(Len(s) - i) + 1]]
\* It has the same members.
LEMMA BackwardsOnce ==
  ASSUME NEW S, NEW s \in Seq(S)
  PROVE  /\ Backwards(s) \in Seq(S) /\ Els(Backwards(s)) = Els(s) /\ Len(Backwards(s)) = Len(s)
         /\ Once(s) => Once(Backwards(s))
         /\ s # <<>> => Backwards(s)[1] = s[Len(s)]
<1> DEFINE t == Backwards(s)
           n == Len(s)
<1>1. n \in Nat /\ \A i \in 1 .. n : (n - i) + 1 \in 1 .. n OBVIOUS
<1>2. t \in Seq(S) /\ Len(t) = n /\ \A i \in 1 .. n : t[i] = s[(n - i) + 1]
  <2>1. \A i \in 1 .. n : s[(n - i) + 1] \in S BY <1>1, ElsAt
  <2>2. t = [i \in 1 .. n |-> s[(n - i) + 1]] BY DEF Backwards
  <2> HIDE DEF t
  <2>3. t \in [1 .. n -> S] BY <2>1, <2>2
  <2> QED BY <1>1, <2>2, <2>3
<1>a. /\ \A x \in Els(s) : \E i \in 1 .. n : s[i] = x
      /\ \A i \in 1 .. n : s[i] \in Els(s)
  BY ElsAt
<1>b. /\ \A x \in Els(t) : \E i \in 1 .. n : t[i] = x
      /\ \A i \in 1 .. n : t[i] \in Els(t)
  BY <1>2, ElsAt
<1> HIDE DEF t, n
<1>3. Els(t) = Els(s)
  <2>1. ASSUME NEW y \in Els(t) PROVE y \in Els(s)
    <3>1. PICK i \in 1 .. n : t[i] = y BY <1>b
    <3> QED BY <1>1, <1>2, <1>a, <3>1
  <2>2. ASSUME NEW y \in Els(s) PROVE y \in Els(t)
    <3>1. PICK i \in 1 .. n : s[i] = y BY <1>a
    <3>2. (n - i) + 1 \in 1 .. n /\ (n - ((n - i) + 1)) + 1 = i BY <1>1
    <3>3. t[(n - i) + 1] = y BY <1>2, <3>1, <3>2
    <3> QED BY <1>b, <3>2, <3>3
  <2> QED BY <2>1, <2>2
<1>4. ASSUME Once(s) PROVE Once(t)
  <2>1. \A i, k \in 1 .. n : s[i] = s[k] => i = k BY <1>4, ElsAt DEF Once, n
  <2> SUFFICES ASSUME NEW i \in 1 .. n, NEW k \in 1 .. n, t[i] = t[k] PROVE i = k
    BY <1>2, ElsAt DEF Once
  <2>2. (n - i) + 1 = (n - k) + 1 BY <1>1, <1>2, <2>1
  <2> QED BY <1>1, <2>2
<1>5. ASSUME s # <<>> PROVE t[1] = s[n]
  <2>1. n # 0 BY <1>5, ElsAt DEF n
  <2>2. 1 \in 1 .. n /\ (n - 1) + 1 = n BY <1>1, <2>1
  <2> QED BY <1>2, <2>2
<1> QED BY <1>2, <1>3, <1>4, <1>5 DEF t, n

\* One place taken out.
Cut(s, i) == SubSeq(s, 1, i - 1) \o SubSeq(s, i + 1, Len(s))
\* What is left has the others, each once.
LEMMA CutOnce ==
  ASSUME NEW S, NEW s \in Seq(S), Once(s), NEW i \in 1 .. Len(s)
  PROVE  Cut(s, i) \in Seq(S) /\ Once(Cut(s, i)) /\ Els(Cut(s, i)) = Els(s) \ {s[i]}
<1> DEFINE n == Len(s)
           a == SubSeq(s, 1, i - 1)
           b == SubSeq(s, i + 1, n)
<1>1. /\ n \in Nat /\ \A m \in 1 .. n : s[m] \in S /\ s[m] \in Els(s)
      /\ \A x \in Els(s) : \E m \in 1 .. n : s[m] = x
      /\ \A k, m \in 1 .. n : s[k] = s[m] => k = m
  BY ElsAt DEF Once
<1>2. a \in Seq(S) /\ Len(a) = i - 1 /\ \A m \in 1 .. i - 1 : a[m] = s[m] OBVIOUS
<1>3. b \in Seq(S) /\ Len(b) = n - i /\ \A m \in 1 .. n - i : b[m] = s[m + i]
  <2>1. \A m \in (i + 1) .. n : s[m] \in S BY <1>1
  <2> QED BY <1>1, <2>1
<1> HIDE DEF n, a, b
<1>a. /\ \A x \in Els(a) : \E m \in 1 .. i - 1 : a[m] = x
      /\ \A m \in 1 .. i - 1 : a[m] \in Els(a)
      /\ DOMAIN a = 1 .. i - 1
  BY <1>2, ElsAt
<1>b. /\ \A x \in Els(b) : \E m \in 1 .. n - i : b[m] = x
      /\ \A m \in 1 .. n - i : b[m] \in Els(b)
      /\ DOMAIN b = 1 .. n - i
  BY <1>3, ElsAt
<1>i. i \in 1 .. n BY DEF n
<1>4. Once(a)
  <2> SUFFICES ASSUME NEW k \in 1 .. i - 1, NEW m \in 1 .. i - 1, a[k] = a[m] PROVE k = m BY <1>a DEF Once
  <2>1. s[k] = s[m] /\ k \in 1 .. n /\ m \in 1 .. n BY <1>1, <1>2, <1>i
  <2> QED BY <1>1, <2>1
<1>5. Once(b)
  <2> SUFFICES ASSUME NEW k \in 1 .. n - i, NEW m \in 1 .. n - i, b[k] = b[m] PROVE k = m BY <1>b DEF Once
  <2>1. s[k + i] = s[m + i] /\ k + i \in 1 .. n /\ m + i \in 1 .. n BY <1>1, <1>3, <1>i
  <2>2. k + i = m + i BY <1>1, <2>1
  <2> QED BY <1>i, <2>2
<1>6. ASSUME NEW x \in Els(a) PROVE x \in Els(s) /\ x # s[i] /\ x \notin Els(b)
  <2>1. PICK k \in 1 .. i - 1 : x = a[k] BY <1>a
  <2>2. x = s[k] /\ k \in 1 .. n /\ k # i BY <1>1, <1>2, <1>i, <2>1
  <2>3. ASSUME x \in Els(b) PROVE FALSE
    <3>1. PICK m \in 1 .. n - i : b[m] = x BY <1>b, <2>3
    <3>2. s[m + i] = s[k] /\ m + i \in 1 .. n /\ m + i # k BY <1>1, <1>3, <1>i, <2>2, <3>1
    <3> QED BY <1>1, <2>2, <3>2
  <2> QED BY <1>1, <1>i, <2>2, <2>3
<1>7. ASSUME NEW x \in Els(b) PROVE x \in Els(s) /\ x # s[i]
  <2>1. PICK k \in 1 .. n - i : x = b[k] BY <1>b
  <2>2. x = s[k + i] /\ k + i \in 1 .. n /\ k + i # i BY <1>1, <1>3, <1>i, <2>1
  <2> QED BY <1>1, <1>i, <2>2
<1>8. ASSUME NEW x \in Els(s), x # s[i] PROVE x \in Els(a) \cup Els(b)
  <2>1. PICK k \in 1 .. n : x = s[k] BY <1>1
  <2>2. CASE k < i BY <1>2, <1>a, <1>i, <2>1, <2>2
  <2>3. CASE i < k
    <3>1. k - i \in 1 .. n - i /\ (k - i) + i = k BY <1>1, <1>i, <2>3
    <3>2. b[k - i] = x BY <1>3, <2>1, <3>1
    <3> QED BY <1>b, <3>1, <3>2
  <2> QED BY <1>8, <1>i, <2>1, <2>2, <2>3
<1>9. Cut(s, i) = a \o b BY DEF Cut, a, b, n
<1>10. Els(a \o b) = Els(a) \cup Els(b) /\ a \o b \in Seq(S) BY <1>2, <1>3, CatOnce
<1>11. Once(a \o b) BY <1>2, <1>3, <1>4, <1>5, <1>6, CatOnce
<1>12. Els(a) \cup Els(b) = Els(s) \ {s[i]} BY <1>6, <1>7, <1>8
<1> QED BY <1>9, <1>10, <1>11, <1>12

\* The first place where something is.
LEMMA PpcRemoved ==
  ASSUME NEW S, NEW s \in Seq(S), Once(s), NEW b
  PROVE  /\ PC!RemoveFirst(s, b) \in Seq(S) /\ Once(PC!RemoveFirst(s, b))
         /\ Els(PC!RemoveFirst(s, b)) = Els(s) \ {b}
<1>1. CASE \E i \in 1 .. Len(s) : s[i] = b
  <2> DEFINE I == {i \in 1 .. Len(s) : s[i] = b}
  <2>1. I # {} /\ I \subseteq Nat BY <1>1
  <2>2. PICK x \in I : \A y \in I : x <= y BY <2>1, LeastNat
  <2>3. PC!Min(I) \in I BY <2>2 DEF PC!Min
  <2>4. PC!RemoveFirst(s, b) = Cut(s, PC!Min(I))
    BY <1>1, <2>1 DEF PC!RemoveFirst, PC!RemoveAt, PC!SelectInSeq, Cut
  <2>5. PC!Min(I) \in 1 .. Len(s) /\ s[PC!Min(I)] = b BY <2>3
  <2> HIDE DEF I
  <2> QED BY <2>4, <2>5, CutOnce
<1>2. CASE ~ \E i \in 1 .. Len(s) : s[i] = b
  <2>1. PC!RemoveFirst(s, b) = s BY <1>2 DEF PC!RemoveFirst
  <2>2. b \notin Els(s) BY <1>2, ElsAt
  <2> QED BY <2>1, <2>2
<1> QED BY <1>1, <1>2

\* How many there are.
LEMMA OnceCount ==
  ASSUME NEW S, NEW s \in Seq(S), Once(s)
  PROVE  IsFiniteSet(Els(s)) /\ Cardinality(Els(s)) = Len(s)
<1>1. Len(s) \in Nat /\ DOMAIN s = 1 .. Len(s) BY ElsAt
<1>2. IsFiniteSet(1 .. Len(s)) /\ Cardinality(1 .. Len(s)) = Len(s) BY <1>1, FS_Interval
<1>3. s \in [1 .. Len(s) -> Els(s)] BY <1>1, ElsAt
<1>4. \A a, b \in 1 .. Len(s) : s[a] = s[b] => a = b BY <1>1 DEF Once
<1>5. \A t \in Els(s) : \E i \in 1 .. Len(s) : s[i] = t BY ElsAt
<1>6. s \in Surjection(1 .. Len(s), Els(s)) BY <1>3, <1>5 DEF Surjection
<1>7. s \in Injection(1 .. Len(s), Els(s)) BY <1>1, <1>3, <1>4 DEF Injection, IsInjective
<1> QED BY <1>2, <1>6, <1>7, FS_Surjection

\* A sequence has no more elements than places.
LEMMA ElsCount ==
  ASSUME NEW S, NEW s \in Seq(S)
  PROVE  IsFiniteSet(Els(s)) /\ Cardinality(Els(s)) <= Len(s)
<1>1. Len(s) \in Nat /\ DOMAIN s = 1 .. Len(s) BY ElsAt
<1>2. IsFiniteSet(1 .. Len(s)) /\ Cardinality(1 .. Len(s)) = Len(s) BY <1>1, FS_Interval
<1>3. s \in Surjection(1 .. Len(s), Els(s))
  <2>1. s \in [1 .. Len(s) -> Els(s)] BY <1>1, ElsAt
  <2>3. \A t \in Els(s) : \E i \in 1 .. Len(s) : s[i] = t BY ElsAt
  <2> QED BY <2>1, <2>3 DEF Surjection
<1> QED BY <1>2, <1>3, FS_Surjection

-----------------------------------------------------------------------------
(* The code cache of a PowerPC: what holds between any two steps.          *)
Exec == Els(ExecPage)
Blocks == PC!BlockId
Places == {0} \cup UNION {Offset[v] : v \in CodePage}
Images == Content \cup {0}

PpcBlock ==
  [ start : CodePage \cup {None}, phys : Phys \cup {None}, buffer : Exec \cup {None},
    ptr : Exec \cup {None}, chunks : Seq(Exec), pos : Nat, over : BOOLEAN, keep : BOOLEAN, acc : Nat,
    undef : Nat, targets : SUBSET Places, points : SUBSET Places, image : Images \cup {None} ]
PpcJit ==
  [ pool : Seq(Exec), blk : [Blocks -> PpcBlock], spare : Seq(Blocks), tcbs : Seq(Blocks),
    slot : [Slot -> Blocks \cup {None}], phys : [Slot -> Seq(Blocks)], method : {0, 1} ]

\* Every page is free or belongs to a block, once.
PpcPages(j) ==
  /\ Once(j.pool)
  /\ \A b \in Blocks : Once(PC!Owned(j, b)) /\ Els(PC!Owned(j, b)) \cap Els(j.pool) = {}
  /\ \A b, c \in Blocks : b # c => Els(PC!Owned(j, b)) \cap Els(PC!Owned(j, c)) = {}
  /\ \A p \in Exec : p \in Els(j.pool) \/ \E b \in Blocks : p \in Els(PC!Owned(j, b))

\* A block is listed, or on the free list, or one of X, those being made, or
\* was never used.
PpcLists(j, X) ==
  /\ Once(j.tcbs) /\ Once(j.spare) /\ Els(j.tcbs) \cap Els(j.spare) = {}
  /\ X \subseteq Blocks /\ X \cap Els(j.tcbs) = {} /\ X \cap Els(j.spare) = {}
  /\ \A b \in Blocks : b \notin Els(j.tcbs) \cup X => j.blk[b] = PC!Idle

\* The blocks that are listed, the hash slots and the lists by physical page
\* lead to each other.
PpcListed(j, b) ==
  /\ j.blk[b].buffer # None /\ j.blk[b].ptr = j.blk[b].buffer /\ ~j.blk[b].over
  /\ j.blk[b].start \in CodePage /\ j.blk[b].phys = Map[j.blk[b].start]
  /\ j.slot[SlotOf[j.blk[b].start]] = b
  /\ b \in Els(j.phys[PhysSlotOf[j.blk[b].phys]])
PpcLinks(j) ==
  /\ \A b \in Els(j.tcbs) : PpcListed(j, b)
  /\ \A s \in Slot : j.slot[s] # None => j.slot[s] \in Els(j.tcbs) /\ SlotOf[j.blk[j.slot[s]].start] = s
  /\ \A s \in Slot : Once(j.phys[s])
  /\ \A s \in Slot : \A b \in Els(j.phys[s]) : b \in Els(j.tcbs) /\ PhysSlotOf[j.blk[b].phys] = s

PpcOK(j, X) == j \in PpcJit /\ PpcPages(j) /\ PpcLists(j, X) /\ PpcLinks(j)

\* The pages of a block.
LEMMA PpcOwned ==
  ASSUME NEW j \in PpcJit, NEW b \in Blocks
  PROVE  /\ PC!Owned(j, b) \in Seq(Exec)
         /\ Els(PC!Owned(j, b)) = Els(j.blk[b].chunks) \cup ({j.blk[b].buffer} \ {None})
         /\ Len(PC!Owned(j, b)) <= Len(j.blk[b].chunks) + 1
<1>1. j.blk[b].chunks \in Seq(Exec) /\ j.blk[b].buffer \in Exec \cup {None} BY DEF PpcJit, PpcBlock
<1>2. CASE j.blk[b].buffer = None BY <1>1, <1>2 DEF PC!Owned
<1>3. CASE j.blk[b].buffer # None BY <1>1, <1>3, AppendOnce DEF PC!Owned
<1> QED BY <1>2, <1>3

\* What a block that is freed leaves.
LEMMA PpcDropped ==
  ASSUME NEW j \in PpcJit, NEW b \in Blocks, Once(j.tcbs), \A s \in Slot : Once(j.phys[s]),
         PC!Idle \in PpcBlock
  PROVE  LET k == PC!Drop(j, b)
         IN  /\ k \in PpcJit
             /\ k.pool = Backwards(PC!Owned(j, b)) \o j.pool
             /\ k.blk = [j.blk EXCEPT ![b] = PC!Idle]
             /\ k.spare = <<b>> \o j.spare
             /\ k.tcbs = PC!RemoveFirst(j.tcbs, b)
             /\ k.slot = IF j.slot[SlotOf[j.blk[b].start]] = b
                         THEN [j.slot EXCEPT ![SlotOf[j.blk[b].start]] = None] ELSE j.slot
             /\ k.phys = [s \in Slot |-> PC!RemoveFirst(j.phys[s], b)]
             /\ k.method = j.method
<1> DEFINE O == Backwards(PC!Owned(j, b)) \o j.pool
           T == PC!RemoveFirst(j.tcbs, b)
           P == [s \in Slot |-> PC!RemoveFirst(j.phys[s], b)]
           B == [j.blk EXCEPT ![b].chunks = <<>>, ![b].buffer = None]
           C == [j.blk EXCEPT ![b] = PC!Idle]
           F == <<b>> \o j.spare
           u == [j EXCEPT !.tcbs = T, !.phys = P]
           w == [u EXCEPT !.pool = O, !.blk = B]
           x == [w EXCEPT !.spare = F, !.blk = C]
<1>0. /\ O \in Seq(Exec) /\ T \in Seq(Blocks) /\ P \in [Slot -> Seq(Blocks)] /\ F \in Seq(Blocks)
      /\ B \in [Blocks -> PpcBlock] /\ C \in [Blocks -> PpcBlock]
  <2>1. /\ j.pool \in Seq(Exec) /\ j.tcbs \in Seq(Blocks) /\ \A s \in Slot : j.phys[s] \in Seq(Blocks)
        /\ j.spare \in Seq(Blocks) /\ j.blk \in [Blocks -> PpcBlock]
    BY DEF PpcJit
  <2>2. O \in Seq(Exec) BY <2>1, PpcOwned, BackwardsOnce, CatOnce
  <2>3. T \in Seq(Blocks) /\ P \in [Slot -> Seq(Blocks)] BY <2>1, PpcRemoved
  <2>4. F \in Seq(Blocks) BY <2>1
  <2>5. B \in [Blocks -> PpcBlock]
    <3> DEFINE B1 == [j.blk EXCEPT ![b].chunks = <<>>]
    <3>1. <<>> \in Seq(Exec) OBVIOUS
    <3>2. B1 \in [Blocks -> PpcBlock] BY <2>1, <3>1 DEF PpcBlock
    <3>3. [B1 EXCEPT ![b].buffer = None] \in [Blocks -> PpcBlock]
      <4> HIDE DEF B1
      <4> QED BY <3>2 DEF PpcBlock
    <3> QED BY <2>1, <3>3
  <2>6. C \in [Blocks -> PpcBlock] BY <2>1
  <2> QED BY <2>2, <2>3, <2>4, <2>5, <2>6
<1>1. /\ DOMAIN j = {"pool", "blk", "spare", "tcbs", "slot", "phys", "method"}
      /\ j \in [DOMAIN j -> {j[f] : f \in DOMAIN j}]
      /\ DOMAIN j.blk = Blocks /\ DOMAIN j.phys = Slot
  BY DEF PpcJit
<1>2. u = [j EXCEPT !.tcbs = PC!RemoveFirst(@, b), !.phys = [s \in Slot |-> PC!RemoveFirst(@[s], b)]] BY <1>1
<1>3. PC!Owned(u, b) = PC!Owned(j, b) BY <1>1 DEF PC!Owned
<1>4. PC!free_code_chunks(u, b) =
        [u EXCEPT !.pool = Backwards(PC!Owned(u, b)) \o @, !.blk[b].chunks = <<>>, !.blk[b].buffer = None]
  BY DEF PC!free_code_chunks, PC!exec_page_free, PC!Reverse, Backwards
<1>5. u.blk = j.blk /\ u.pool = j.pool /\ DOMAIN u = DOMAIN j BY <1>1
<1>6. PC!free_code_chunks(u, b) = w
  <2> HIDE DEF u
  <2> QED BY <1>1, <1>3, <1>4, <1>5
<1>7. PC!tcb_free(j, b, TRUE) = [w EXCEPT !.spare = <<b>> \o @, !.blk[b] = PC!Idle]
  <2>1. PC!tcb_free(j, b, TRUE) = [PC!free_code_chunks(u, b) EXCEPT !.spare = <<b>> \o @, !.blk[b] = PC!Idle]
    BY <1>2 DEF PC!tcb_free
  <2> QED BY <1>6, <2>1
<1>8. [w.blk EXCEPT ![b] = PC!Idle] = C /\ w.spare = j.spare /\ w.blk = B /\ DOMAIN w = DOMAIN j BY <1>1
<1>9. PC!tcb_free(j, b, TRUE) = x
  <2> HIDE DEF w, C
  <2> QED BY <1>1, <1>7, <1>8
<1>10. /\ x \in PpcJit
       /\ x.pool = O /\ x.blk = C /\ x.spare = F /\ x.tcbs = T /\ x.slot = j.slot /\ x.phys = P
       /\ x.method = j.method
  <2> HIDE DEF O, T, P, B, C, F
  <2> QED BY <1>0 DEF PpcJit
<1> DEFINE s == SlotOf[j.blk[b].start]
           y == [x EXCEPT !.slot[s] = None]
<1>11. PC!Drop(j, b) = IF x.slot[s] = b THEN y ELSE x
  <2> HIDE DEF x
  <2> QED BY <1>9 DEF PC!Drop, PC!Unslot
<1>12. /\ y \in PpcJit
       /\ y.pool = x.pool /\ y.blk = x.blk /\ y.spare = x.spare /\ y.tcbs = x.tcbs
       /\ y.slot = [x.slot EXCEPT ![s] = None] /\ y.phys = x.phys /\ y.method = x.method
  <2> HIDE DEF x, s
  <2> QED BY <1>10 DEF PpcJit
<1> HIDE DEF x, y, O, T, P, C, F
<1> QED BY <1>10, <1>11, <1>12 DEF O, T, P, C, F

\* The owners of pages are as before for a block that has not changed.
LEMMA PpcOwnedSame ==
  ASSUME NEW j, NEW k, NEW b, k.blk[b] = j.blk[b]
  PROVE  PC!Owned(k, b) = PC!Owned(j, b)
BY DEF PC!Owned

\* The record of a free block is that of a block, and None is no block, page or address.
LEMMA PpcIdle ==
  ASSUME PC!PpcCodeAssumption
  PROVE  PC!Idle \in PpcBlock /\ Blocks = 1 .. Len(ExecPage) + 1 /\ Len(ExecPage) \in Nat
         /\ None \notin Exec /\ None \notin Blocks /\ None \notin CodePage
<1>1. ExecPage \in Seq(Exec) /\ Exec = PC!ToSet(ExecPage) BY DEF PC!PpcCodeAssumption, PC!ToSet, Exec, Els
<1>2. Len(ExecPage) \in Nat BY <1>1
<1>3. <<>> \in Seq(Exec) /\ {} \in SUBSET Places OBVIOUS
<1> QED BY <1>1, <1>2, <1>3 DEF PC!Idle, PpcBlock, PC!PpcCodeAssumption, Blocks, PC!BlockId

\* A free block owns no page.
LEMMA PpcIdleOwned == ASSUME NEW k, NEW b, k.blk[b] = PC!Idle PROVE PC!Owned(k, b) = <<>>
BY DEF PC!Owned, PC!Idle

\* A listed block that is freed: nothing leads to it any more, its pages are
\* free, and nothing else changes.
LEMMA PpcDropOK ==
  ASSUME PC!PpcCodeAssumption, NEW j, NEW X, PpcOK(j, X), NEW b \in Els(j.tcbs)
  PROVE  LET k == PC!Drop(j, b)
         IN  /\ PpcOK(k, X)
             /\ Els(k.tcbs) = Els(j.tcbs) \ {b}
             /\ Els(k.spare) = Els(j.spare) \cup {b}
             /\ k.blk = [j.blk EXCEPT ![b] = PC!Idle]
             /\ \A s \in Slot : k.slot[s] = IF j.slot[s] = b THEN None ELSE j.slot[s]
             /\ k.method = j.method
             /\ Els(PC!Owned(j, b)) \subseteq Els(k.pool)
<1> DEFINE k == PC!Drop(j, b)
<1>1. /\ j \in PpcJit /\ j.pool \in Seq(Exec) /\ j.tcbs \in Seq(Blocks) /\ j.spare \in Seq(Blocks)
      /\ j.phys \in [Slot -> Seq(Blocks)] /\ j.slot \in [Slot -> Blocks \cup {None}]
      /\ j.blk \in [Blocks -> PpcBlock]
  BY DEF PpcOK, PpcJit
<1>2. b \in Blocks /\ Els(j.tcbs) \subseteq Blocks BY <1>1, ElsAt
<1>3. /\ k \in PpcJit
      /\ k.pool = Backwards(PC!Owned(j, b)) \o j.pool
      /\ k.blk = [j.blk EXCEPT ![b] = PC!Idle]
      /\ k.spare = <<b>> \o j.spare
      /\ k.tcbs = PC!RemoveFirst(j.tcbs, b)
      /\ k.slot = IF j.slot[SlotOf[j.blk[b].start]] = b
                  THEN [j.slot EXCEPT ![SlotOf[j.blk[b].start]] = None] ELSE j.slot
      /\ k.phys = [s \in Slot |-> PC!RemoveFirst(j.phys[s], b)]
      /\ k.method = j.method
  BY <1>1, <1>2, PpcDropped, PpcIdle DEF PpcOK, PpcLists, PpcLinks
<1> HIDE DEF k
<1>4. Once(k.tcbs) /\ Els(k.tcbs) = Els(j.tcbs) \ {b} BY <1>1, <1>3, PpcRemoved DEF PpcOK, PpcLists
<1>5. Once(k.spare) /\ Els(k.spare) = Els(j.spare) \cup {b}
  BY <1>1, <1>2, <1>3, ConsOnce DEF PpcOK, PpcLists
<1>6. ASSUME NEW s \in Slot PROVE Once(k.phys[s]) /\ Els(k.phys[s]) = Els(j.phys[s]) \ {b}
  <2>1. k.phys[s] = PC!RemoveFirst(j.phys[s], b) /\ j.phys[s] \in Seq(Blocks) /\ Once(j.phys[s])
    BY <1>1, <1>3 DEF PpcOK, PpcLinks
  <2> QED BY <2>1, PpcRemoved
<1>7. ASSUME NEW s \in Slot PROVE k.slot[s] = IF j.slot[s] = b THEN None ELSE j.slot[s]
  <2>1. /\ j.slot[SlotOf[j.blk[b].start]] = b /\ j.blk[b].start \in CodePage
        /\ j.slot[s] # None => SlotOf[j.blk[j.slot[s]].start] = s
    BY <1>2 DEF PpcOK, PpcLinks, PpcListed
  <2>2. b # None BY <1>2, PpcIdle
  <2> QED BY <1>1, <1>3, <2>1, <2>2
<1>8. \A c \in Blocks \ {b} : k.blk[c] = j.blk[c] /\ PC!Owned(k, c) = PC!Owned(j, c)
  BY <1>1, <1>3, PpcOwnedSame
<1>9. k.blk[b] = PC!Idle /\ PC!Owned(k, b) = <<>> BY <1>1, <1>2, <1>3, PpcIdleOwned
<1>10. Once(k.pool) /\ Els(k.pool) = Els(PC!Owned(j, b)) \cup Els(j.pool)
  <2> DEFINE o == PC!Owned(j, b)
  <2>1. o \in Seq(Exec) /\ Once(o) /\ Els(o) \cap Els(j.pool) = {} /\ Once(j.pool)
    BY <1>1, <1>2, PpcOwned DEF PpcOK, PpcPages
  <2> HIDE DEF o
  <2>2. Backwards(o) \in Seq(Exec) /\ Once(Backwards(o)) /\ Els(Backwards(o)) = Els(o) BY <2>1, BackwardsOnce
  <2> QED BY <1>1, <1>3, <2>1, <2>2, CatOnce DEF o
<1>11. PpcPages(k)
  <2>0. Els(<<>>) = {} /\ Once(<<>>) BY DEF Els, Once
  <2>1. \A c \in Blocks : Once(PC!Owned(k, c)) /\ Els(PC!Owned(k, c)) \cap Els(k.pool) = {}
    BY <1>2, <1>8, <1>9, <1>10, <2>0 DEF PpcOK, PpcPages
  <2>2. \A c, d \in Blocks : c # d => Els(PC!Owned(k, c)) \cap Els(PC!Owned(k, d)) = {}
    BY <1>8, <1>9, <2>0 DEF PpcOK, PpcPages
  <2>3. \A p \in Exec : p \in Els(k.pool) \/ \E c \in Blocks : p \in Els(PC!Owned(k, c))
    BY <1>8, <1>10 DEF PpcOK, PpcPages
  <2> QED BY <1>10, <2>1, <2>2, <2>3 DEF PpcPages
<1>12. PpcLists(k, X) BY <1>2, <1>4, <1>5, <1>8, <1>9 DEF PpcOK, PpcLists
<1>13. PpcLinks(k)
  <2>1. ASSUME NEW c \in Els(k.tcbs) PROVE PpcListed(k, c)
    <3>1. c \in Els(j.tcbs) /\ c # b /\ PpcListed(j, c) /\ k.blk[c] = j.blk[c]
      BY <1>2, <1>4, <1>8 DEF PpcOK, PpcLinks
    <3>2. SlotOf[j.blk[c].start] \in Slot /\ PhysSlotOf[j.blk[c].phys] \in Slot
      BY <3>1 DEF PpcListed, PC!PpcCodeAssumption
    <3> QED BY <1>6, <1>7, <3>1, <3>2 DEF PpcListed
  <2>2. ASSUME NEW s \in Slot, k.slot[s] # None
        PROVE  k.slot[s] \in Els(k.tcbs) /\ SlotOf[k.blk[k.slot[s]].start] = s
    <3>1. k.slot[s] = j.slot[s] /\ j.slot[s] # None /\ j.slot[s] # b BY <1>7, <2>2
    <3>2. j.slot[s] \in Els(j.tcbs) /\ SlotOf[j.blk[j.slot[s]].start] = s BY <3>1 DEF PpcOK, PpcLinks
    <3>3. k.blk[j.slot[s]] = j.blk[j.slot[s]] BY <1>2, <1>8, <3>1, <3>2
    <3> QED BY <1>4, <3>1, <3>2, <3>3
  <2>3. ASSUME NEW s \in Slot, NEW c \in Els(k.phys[s])
        PROVE  c \in Els(k.tcbs) /\ PhysSlotOf[k.blk[c].phys] = s
    <3>1. c \in Els(j.phys[s]) /\ c # b BY <1>6
    <3>2. c \in Els(j.tcbs) /\ PhysSlotOf[j.blk[c].phys] = s BY <3>1 DEF PpcOK, PpcLinks
    <3> QED BY <1>2, <1>4, <1>8, <3>1, <3>2
  <2> QED BY <1>6, <2>1, <2>2, <2>3 DEF PpcLinks
<1>14. PpcOK(k, X) BY <1>3, <1>11, <1>12, <1>13 DEF PpcOK
<1> QED BY <1>3, <1>4, <1>5, <1>7, <1>10, <1>14 DEF k

\* k is what flushes leave of j: blocks that were not being recompiled are gone,
\* and so is what led to them.
PpcLess(j, k) ==
  /\ Els(k.tcbs) \subseteq Els(j.tcbs)
  /\ \A c \in Els(j.tcbs) : j.blk[c].keep => c \in Els(k.tcbs)
  /\ \A c \in Blocks : k.blk[c] = IF c \in Els(j.tcbs) \ Els(k.tcbs) THEN PC!Idle ELSE j.blk[c]
  /\ \A s \in Slot : k.slot[s] = IF j.slot[s] \in Els(j.tcbs) \ Els(k.tcbs) THEN None ELSE j.slot[s]

\* The flush, step by step.
PpcFlushOf(j, t, f) ==
  /\ PC!jit_flush(j, t) = f[Len(j.tcbs)] /\ f[0] = j
  /\ \A i \in 1 .. Len(j.tcbs) :
       f[i] = IF PC!Goes(f[i - 1], j.tcbs[i], t) THEN PC!Drop(f[i - 1], j.tcbs[i]) ELSE f[i - 1]

\* The steps exist for a list of any length.
LEMMA PpcFlushSteps ==
  ASSUME NEW j, NEW t, Len(j.tcbs) \in Nat
  PROVE  \E f : PpcFlushOf(j, t, f)
<1> DEFINE n == Len(j.tcbs)
           g(k, i) == IF PC!Goes(k, j.tcbs[i], t) THEN PC!Drop(k, j.tcbs[i]) ELSE k
           P(m) == \E f : f = [i \in 0 .. m |-> IF i = 0 THEN j ELSE g(f[i - 1], i)]
           S == {m \in Nat : P(m)}
<1>1. P(0)
  <2>1. [i \in 0 .. 0 |-> j] = [i \in 0 .. 0 |-> IF i = 0 THEN j ELSE g([k \in 0 .. 0 |-> j][i - 1], i)] OBVIOUS
  <2> QED BY <2>1
<1>2. ASSUME NEW m \in Nat, P(m) PROVE P(m + 1)
  <2> HIDE DEF g
  <2>1. PICK f : f = [i \in 0 .. m |-> IF i = 0 THEN j ELSE g(f[i - 1], i)] BY <1>2
  <2> DEFINE h == [i \in 0 .. m + 1 |-> IF i <= m THEN f[i] ELSE g(f[m], m + 1)]
             r == [i \in 0 .. m + 1 |-> IF i = 0 THEN j ELSE g(h[i - 1], i)]
  <2>2. ASSUME NEW i \in 0 .. m + 1 PROVE h[i] = r[i]
    <3>1. CASE i = 0 BY <2>1, <3>1
    <3>2. CASE i # 0 /\ i <= m
      <4>1. f[i] = g(f[i - 1], i) BY <2>1, <3>2
      <4>2. i - 1 \in 0 .. m /\ i - 1 <= m BY <3>2
      <4> QED BY <4>1, <4>2, <3>2
    <3>3. CASE i = m + 1 BY <3>3
    <3> QED BY <3>1, <3>2, <3>3
  <2>3. h = r BY <2>2
  <2> QED BY <2>3
<1>3. P(n)
  <2> HIDE DEF P
  <2>1. 0 \in S /\ \A i \in 0 .. n : i \in S /\ i < n => i + 1 \in S BY <1>1, <1>2
  <2>2. \A i \in 0 .. n : i \in S BY <2>1, UpTo
  <2> QED BY <2>2
<1> DEFINE left == CHOOSE f : f = [i \in 0 .. n |-> IF i = 0 THEN j ELSE g(f[i - 1], i)]
<1>4. left = [i \in 0 .. n |-> IF i = 0 THEN j ELSE g(left[i - 1], i)]
  <2> HIDE DEF g
  <2> QED BY <1>3
<1>5. PC!jit_flush(j, t) = left[n] BY DEF PC!jit_flush
<1>n. n \in Nat OBVIOUS
<1> HIDE DEF left, g, n
<1>6. left[0] = j /\ \A i \in 1 .. n : left[i] = g(left[i - 1], i)
  <2>1. 0 \in 0 .. n /\ \A i \in 1 .. n : i \in 0 .. n /\ i # 0 BY <1>n
  <2> QED BY <1>4, <2>1
<1> QED BY <1>5, <1>6 DEF g, n, PpcFlushOf

\* A flush keeps the invariant, and frees every block it may free
\* (ppc32_jit_flush).
LEMMA PpcFlushOK ==
  ASSUME PC!PpcCodeAssumption, NEW j, NEW X, PpcOK(j, X), NEW t
  PROVE  LET k == PC!jit_flush(j, t)
         IN  /\ PpcOK(k, X) /\ PpcLess(j, k) /\ k.method = j.method
             /\ t = 0 => \A c \in Els(k.tcbs) : j.blk[c].keep
<1> DEFINE n == Len(j.tcbs)
           Q(k, i) ==
             /\ PpcOK(k, X) /\ PpcLess(j, k) /\ k.method = j.method
             /\ \A m \in (i + 1) .. n : j.tcbs[m] \in Els(k.tcbs)
             /\ t = 0 => \A m \in 1 .. i : j.tcbs[m] \in Els(k.tcbs) => j.blk[j.tcbs[m]].keep
<1>1. /\ j.tcbs \in Seq(Blocks) /\ n \in Nat /\ Once(j.tcbs) /\ DOMAIN j.tcbs = 1 .. n
      /\ \A i \in 1 .. n : j.tcbs[i] \in Els(j.tcbs) /\ j.tcbs[i] \in Blocks
      /\ \A c \in Els(j.tcbs) : \E i \in 1 .. n : j.tcbs[i] = c
  BY ElsAt DEF PpcOK, PpcLists, PpcJit
<1>f. PICK f : PpcFlushOf(j, t, f)
  <2>1. Len(j.tcbs) \in Nat BY <1>1
  <2> QED BY <2>1, PpcFlushSteps
<1>2. /\ PC!jit_flush(j, t) = f[n] /\ f[0] = j
      /\ \A i \in 1 .. n :
           f[i] = IF PC!Goes(f[i - 1], j.tcbs[i], t) THEN PC!Drop(f[i - 1], j.tcbs[i]) ELSE f[i - 1]
  BY <1>f DEF PpcFlushOf
<1> HIDE DEF n
<1> DEFINE S == {i \in 0 .. n : Q(f[i], i)}
<1>3. Q(f[0], 0) BY <1>1, <1>2 DEF PpcLess
<1>4. ASSUME NEW i \in 0 .. n, Q(f[i], i), i < n PROVE Q(f[i + 1], i + 1)
  <2> DEFINE k == f[i]
             c == j.tcbs[i + 1]
  <2>1. i + 1 \in 1 .. n /\ (i + 1) - 1 = i BY <1>1, <1>4
  <2>2. f[i + 1] = IF PC!Goes(k, c, t) THEN PC!Drop(k, c) ELSE k BY <1>2, <2>1
  <2>3. /\ PpcOK(k, X) /\ PpcLess(j, k) /\ k.method = j.method
        /\ \A m \in (i + 1) .. n : j.tcbs[m] \in Els(k.tcbs)
        /\ t = 0 => \A m \in 1 .. i : j.tcbs[m] \in Els(k.tcbs) => j.blk[j.tcbs[m]].keep
    BY <1>4
  <2>4. c \in Blocks /\ c \in Els(j.tcbs) /\ c \in Els(k.tcbs) BY <1>1, <2>1, <2>3
  <2>5. k.blk[c] = j.blk[c] BY <2>3, <2>4 DEF PpcLess
  <2>6. \A m \in 1 .. n : m # i + 1 => j.tcbs[m] # c BY <1>1, <2>1 DEF Once
  <2> HIDE DEF k, c
  <2>7. CASE PC!Goes(k, c, t)
    <3> DEFINE l == PC!Drop(k, c)
    <3>1. /\ PpcOK(l, X) /\ Els(l.tcbs) = Els(k.tcbs) \ {c} /\ l.blk = [k.blk EXCEPT ![c] = PC!Idle]
          /\ \A s \in Slot : l.slot[s] = IF k.slot[s] = c THEN None ELSE k.slot[s]
          /\ l.method = k.method
      BY <2>3, <2>4, PpcDropOK
    <3> HIDE DEF l
    <3>2. ~ j.blk[c].keep BY <2>5, <2>7 DEF PC!Goes
    <3>3. k.blk \in [Blocks -> PpcBlock] BY <2>3 DEF PpcOK, PpcJit
    <3>4. \A d \in Blocks : l.blk[d] = IF d = c THEN PC!Idle ELSE k.blk[d] BY <3>1, <3>3
    <3>5. \A s \in Slot : k.slot[s] = c => j.slot[s] = c
      BY <2>3, <2>4, PpcIdle DEF PpcLess
    <3>6. PpcLess(j, l)
      <4>1. Els(l.tcbs) \subseteq Els(j.tcbs) BY <2>3, <3>1 DEF PpcLess
      <4>2. \A d \in Els(j.tcbs) : j.blk[d].keep => d \in Els(l.tcbs) BY <2>3, <3>1, <3>2 DEF PpcLess
      <4>3. ASSUME NEW d \in Blocks
            PROVE  l.blk[d] = IF d \in Els(j.tcbs) \ Els(l.tcbs) THEN PC!Idle ELSE j.blk[d]
        BY <2>3, <2>4, <3>1, <3>4 DEF PpcLess
      <4>4. ASSUME NEW s \in Slot
            PROVE  l.slot[s] = IF j.slot[s] \in Els(j.tcbs) \ Els(l.tcbs) THEN None ELSE j.slot[s]
        <5>1. CASE k.slot[s] = c BY <2>4, <3>1, <3>5, <5>1
        <5>2. CASE k.slot[s] # c
          <6>1. l.slot[s] = k.slot[s] BY <3>1, <5>2
          <6>2. k.slot[s] = IF j.slot[s] \in Els(j.tcbs) \ Els(k.tcbs) THEN None ELSE j.slot[s]
            BY <2>3 DEF PpcLess
          <6>3. j.slot[s] # c BY <2>4, <5>2, <6>2
          <6> QED BY <3>1, <6>1, <6>2, <6>3
        <5> QED BY <5>1, <5>2
      <4> QED BY <4>1, <4>2, <4>3, <4>4 DEF PpcLess
    <3>7. \A m \in ((i + 1) + 1) .. n : j.tcbs[m] \in Els(l.tcbs)
      <4> TAKE m \in ((i + 1) + 1) .. n
      <4>1. m \in (i + 1) .. n /\ m \in 1 .. n /\ m # i + 1 BY <1>1
      <4> QED BY <2>3, <2>6, <3>1, <4>1
    <3>8. ASSUME t = 0, NEW m \in 1 .. (i + 1), j.tcbs[m] \in Els(l.tcbs) PROVE j.blk[j.tcbs[m]].keep
      <4>1. j.tcbs[m] \in Els(k.tcbs) /\ j.tcbs[m] # c BY <3>1, <3>8
      <4>2. m # i + 1 BY <4>1 DEF c
      <4>3. m \in 1 .. i BY <1>1, <4>2
      <4> QED BY <2>3, <3>8, <4>1, <4>3
    <3> QED BY <2>2, <2>3, <2>7, <3>1, <3>6, <3>7, <3>8 DEF l, k
  <2>8. CASE ~ PC!Goes(k, c, t)
    <3>1. f[i + 1] = k BY <2>2, <2>8
    <3>2. t = 0 => j.blk[c].keep BY <2>5, <2>8 DEF PC!Goes
    <3>3. \A m \in ((i + 1) + 1) .. n : j.tcbs[m] \in Els(k.tcbs)
      <4> TAKE m \in ((i + 1) + 1) .. n
      <4>1. m \in (i + 1) .. n BY <1>1
      <4> QED BY <2>3, <4>1
    <3>4. ASSUME t = 0, NEW m \in 1 .. (i + 1), j.tcbs[m] \in Els(k.tcbs) PROVE j.blk[j.tcbs[m]].keep
      <4>1. CASE m = i + 1 BY <3>2, <3>4, <4>1 DEF c
      <4>2. CASE m # i + 1
        <5>1. m \in 1 .. i BY <1>1, <4>2
        <5> QED BY <2>3, <3>4, <5>1
      <4> QED BY <4>1, <4>2
    <3> QED BY <2>3, <3>1, <3>3, <3>4
  <2> QED BY <2>7, <2>8
<1>5. \A i \in 0 .. n : i \in S
  <2> HIDE DEF Q
  <2>1. 0 \in S /\ \A i \in 0 .. n : i \in S /\ i < n => i + 1 \in S BY <1>1, <1>3, <1>4
  <2> QED BY <1>1, <2>1, UpTo
<1>6. Q(f[n], n)
  <2> HIDE DEF Q
  <2> QED BY <1>1, <1>5
<1>7. t = 0 => \A c \in Els(f[n].tcbs) : j.blk[c].keep
  <2> SUFFICES ASSUME t = 0, NEW c \in Els(f[n].tcbs) PROVE j.blk[c].keep OBVIOUS
  <2>1. c \in Els(j.tcbs) BY <1>6 DEF PpcLess
  <2>2. PICK m \in 1 .. n : j.tcbs[m] = c BY <1>1, <2>1
  <2> QED BY <1>6, <2>2
<1>8. PpcOK(f[n], X) /\ PpcLess(j, f[n]) /\ f[n].method = j.method BY <1>6
<1> HIDE DEF Q
<1> QED BY <1>2, <1>7, <1>8

\* Room is made by a flush, and if no page is free then, all blocks that were not
\* being recompiled are gone.
LEMMA PpcRoom ==
  ASSUME PC!PpcCodeAssumption, NEW j, NEW X, PpcOK(j, X)
  PROVE  LET k == PC!make_room(j)
         IN  /\ PpcOK(k, X) /\ PpcLess(j, k)
             /\ k.pool # <<>> \/ \A c \in Els(k.tcbs) : j.blk[c].keep
<1> DEFINE k == PC!Enough(j, PC!jit_flush(j, Threshold))
<1>1. /\ PpcOK(k, X) /\ PpcLess(j, k) /\ k.method = j.method
      /\ k.pool # <<>> \/ \A c \in Els(k.tcbs) : j.blk[c].keep
  BY PpcFlushOK DEF PC!Enough
<1> HIDE DEF k
<1> DEFINE l == [k EXCEPT !.method = 1 - @]
<1>2. PC!make_room(j) = l BY DEF PC!make_room, k
<1>3. /\ l \in PpcJit /\ l.pool = k.pool /\ l.blk = k.blk /\ l.spare = k.spare /\ l.tcbs = k.tcbs
      /\ l.slot = k.slot /\ l.phys = k.phys
  <2>1. k.method \in {0, 1} /\ 1 - k.method \in {0, 1} BY <1>1 DEF PpcOK, PpcJit
  <2> QED BY <1>1, <2>1 DEF PpcOK, PpcJit
<1> HIDE DEF l
<1>4. \A c \in Blocks : PC!Owned(l, c) = PC!Owned(k, c) BY <1>3 DEF PC!Owned
<1>5. PpcPages(l) BY <1>1, <1>3, <1>4 DEF PpcOK, PpcPages
<1>6. PpcLists(l, X) BY <1>1, <1>3 DEF PpcOK, PpcLists
<1>7. PpcLinks(l) BY <1>1, <1>3 DEF PpcOK, PpcLinks, PpcListed
<1> QED BY <1>1, <1>2, <1>3, <1>5, <1>6, <1>7 DEF PpcOK, PpcLess

\* k is j after blocks other than b were freed; b may be changed.
PpcAfter(j, k, b) ==
  /\ Els(k.tcbs) \subseteq Els(j.tcbs)
  /\ b \in Els(j.tcbs) => b \in Els(k.tcbs)
  /\ \A c \in Blocks \ {b} : k.blk[c] = IF c \in Els(j.tcbs) \ Els(k.tcbs) THEN PC!Idle ELSE j.blk[c]
  /\ \A s \in Slot : k.slot[s] = IF j.slot[s] \in Els(j.tcbs) \ Els(k.tcbs) THEN None ELSE j.slot[s]

\* Nothing freed,
LEMMA PpcAfterSelf == ASSUME NEW j, NEW b PROVE PpcAfter(j, j, b) BY DEF PpcAfter

\* and frees that follow each other.
LEMMA PpcAfterTwice ==
  ASSUME PC!PpcCodeAssumption, NEW j, NEW k, NEW l, NEW b, PpcAfter(j, k, b), PpcAfter(k, l, b),
         Els(j.tcbs) \subseteq Blocks
  PROVE  PpcAfter(j, l, b)
<1>1. None \notin Blocks BY PpcIdle
<1>2. ASSUME NEW c \in Blocks \ {b}
      PROVE  l.blk[c] = IF c \in Els(j.tcbs) \ Els(l.tcbs) THEN PC!Idle ELSE j.blk[c]
  BY DEF PpcAfter
<1>3. ASSUME NEW s \in Slot
      PROVE  l.slot[s] = IF j.slot[s] \in Els(j.tcbs) \ Els(l.tcbs) THEN None ELSE j.slot[s]
  <2>1. /\ k.slot[s] = IF j.slot[s] \in Els(j.tcbs) \ Els(k.tcbs) THEN None ELSE j.slot[s]
        /\ l.slot[s] = IF k.slot[s] \in Els(k.tcbs) \ Els(l.tcbs) THEN None ELSE k.slot[s]
        /\ Els(l.tcbs) \subseteq Els(k.tcbs) /\ Els(k.tcbs) \subseteq Els(j.tcbs)
    BY DEF PpcAfter
  <2>2. None \notin Els(j.tcbs) BY <1>1
  <2> QED BY <2>1, <2>2
<1> QED BY <1>2, <1>3 DEF PpcAfter

\* The code of block b is being written: it is not listed yet, or it is listed
\* and must not be flushed; no other block is protected so.
PpcWriting(j, b, X) ==
  /\ b \in Blocks /\ X \subseteq {b}
  /\ b \in X \/ (b \in Els(j.tcbs) /\ j.blk[b].keep)
  /\ \A c \in Blocks \ {b} : ~ j.blk[c].keep

\* A flush meanwhile leaves the block that is being written alone,
LEMMA PpcLessAfter ==
  ASSUME NEW j, NEW k, NEW b, NEW X, PpcOK(j, X), PpcLess(j, k), PpcWriting(j, b, X)
  PROVE  PpcAfter(j, k, b) /\ k.blk[b] = j.blk[b] /\ PC!Owned(k, b) = PC!Owned(j, b)
<1>1. b \in Els(j.tcbs) => b \in Els(k.tcbs) BY DEF PpcLess, PpcWriting, PpcOK, PpcLists
<1>2. k.blk[b] = j.blk[b] BY <1>1 DEF PpcLess, PpcWriting
<1> QED BY <1>1, <1>2, PpcOwnedSame DEF PpcLess, PpcAfter

\* and it is still being written afterwards.
LEMMA PpcAfterWriting ==
  ASSUME NEW j, NEW k, NEW b, NEW X, PpcAfter(j, k, b), PpcWriting(j, b, X), k.blk[b].keep = j.blk[b].keep
  PROVE  PpcWriting(k, b, X)
<1>1. ~ PC!Idle.keep BY DEF PC!Idle
<1> QED BY <1>1 DEF PpcAfter, PpcWriting

\* A page is found for it: one that was free, or that a flush has freed.
LEMMA PpcAlloc ==
  ASSUME PC!PpcCodeAssumption, NEW j, NEW X, PpcOK(j, X), NEW b, PpcWriting(j, b, X),
         Len(PC!Owned(j, b)) <= MaxFill
  PROVE  \E k : /\ PpcOK(k, X) /\ PpcLess(j, k) /\ k.pool # <<>>
                /\ PC!exec_page_alloc(j) = [jit |-> [k EXCEPT !.pool = Tail(@)], page |-> Head(k.pool)]
<1> DEFINE k == IF j.pool = <<>> THEN PC!make_room(j) ELSE j
<1>1. /\ PpcOK(k, X) /\ PpcLess(j, k)
      /\ k.pool # <<>> \/ \A c \in Els(k.tcbs) : j.blk[c].keep
  <2>1. CASE j.pool = <<>> BY <2>1, PpcRoom
  <2>2. CASE j.pool # <<>> BY <2>2 DEF PpcLess
  <2> QED BY <2>1, <2>2
<1>2. PC!exec_page_alloc(j) = PC!Pop(k) BY DEF PC!exec_page_alloc
<1> HIDE DEF k
<1>3. k.pool # <<>>
  <2> SUFFICES ASSUME k.pool = <<>> PROVE FALSE OBVIOUS
  <2>1. /\ b \in Blocks /\ k \in PpcJit /\ k.tcbs \in Seq(Blocks) /\ Els(k.tcbs) \subseteq Blocks
        /\ PC!Owned(k, b) = PC!Owned(j, b)
    <3>1. b \in Blocks /\ k \in PpcJit /\ k.tcbs \in Seq(Blocks) BY <1>1 DEF PpcWriting, PpcOK, PpcJit
    <3>2. Els(k.tcbs) \subseteq Blocks BY <3>1, ElsAt
    <3> QED BY <1>1, <3>1, <3>2, PpcLessAfter
  <2>2. ASSUME NEW c \in Blocks, c # b PROVE Els(PC!Owned(k, c)) = {}
    <3>1. c \notin Els(k.tcbs) BY <1>1, <2>2 DEF PpcWriting
    <3>2. k.blk[c] = PC!Idle BY <1>1, <2>2, <3>1 DEF PpcOK, PpcLists, PpcWriting
    <3> QED BY <3>2, PpcIdleOwned DEF Els
  <2>3. Els(k.pool) = {} BY DEF Els
  <2>4. Exec \subseteq Els(PC!Owned(k, b)) BY <1>1, <2>2, <2>3 DEF PpcOK, PpcPages
  <2>5. PC!Owned(k, b) \in Seq(Exec) BY <2>1, PpcOwned
  <2>6. Exec = Els(PC!Owned(k, b)) BY <2>4, <2>5, ElsAt
  <2>7. Cardinality(Exec) <= Len(PC!Owned(k, b)) BY <2>5, <2>6, ElsCount
  <2>8. ExecPage \in Seq(Exec) /\ Once(ExecPage)
    BY DEF PC!PpcCodeAssumption, PC!ToSet, PC!IsInjective, Exec, Els, Once
  <2>9. Cardinality(Exec) = Len(ExecPage) BY <2>8, OnceCount DEF Exec
  <2>10. MaxFill < Len(ExecPage) /\ MaxFill \in Nat BY DEF PC!PpcCodeAssumption
  <2>11. Len(ExecPage) \in Nat /\ Len(PC!Owned(k, b)) \in Nat BY <2>5, <2>8
  <2> QED BY <2>1, <2>7, <2>9, <2>10, <2>11
<1>4. PC!Pop(k) = [jit |-> [k EXCEPT !.pool = Tail(@)], page |-> Head(k.pool)] BY <1>3 DEF PC!Pop
<1> QED BY <1>1, <1>2, <1>3, <1>4

\* The first free page goes to a block, whose record becomes another one.
LEMMA PpcTake ==
  ASSUME PC!PpcCodeAssumption, NEW k, NEW X, PpcOK(k, X), k.pool # <<>>,
         NEW b \in Blocks, b \in Els(k.tcbs) \cup X, NEW l \in PpcJit,
         l.pool = Tail(k.pool), l.spare = k.spare, l.tcbs = k.tcbs, l.slot = k.slot, l.phys = k.phys,
         \A c \in Blocks \ {b} : l.blk[c] = k.blk[c],
         Once(PC!Owned(l, b)), Els(PC!Owned(l, b)) = Els(PC!Owned(k, b)) \cup {Head(k.pool)},
         l.blk[b].start = k.blk[b].start, l.blk[b].phys = k.blk[b].phys,
         l.blk[b].buffer # None, l.blk[b].ptr = l.blk[b].buffer, ~ l.blk[b].over
  PROVE  PpcOK(l, X)
<1>1. k.pool \in Seq(Exec) /\ Once(k.pool) /\ k.tcbs \in Seq(Blocks) BY DEF PpcOK, PpcJit, PpcPages
<1> DEFINE p == Head(k.pool)
<1>2. p \in Els(k.pool) /\ Once(l.pool) /\ Els(l.pool) = Els(k.pool) \ {p} BY <1>1, TailOnce
<1> HIDE DEF p
<1>3. \A c \in Blocks \ {b} : PC!Owned(l, c) = PC!Owned(k, c) BY PpcOwnedSame
<1>4. Els(PC!Owned(l, b)) = Els(PC!Owned(k, b)) \cup {p} BY DEF p
<1>5. PpcPages(l)
  <2>1. ASSUME NEW c \in Blocks PROVE Once(PC!Owned(l, c)) /\ Els(PC!Owned(l, c)) \cap Els(l.pool) = {}
    BY <1>2, <1>3, <1>4 DEF PpcOK, PpcPages
  <2>2. ASSUME NEW c \in Blocks, NEW d \in Blocks, c # d
        PROVE  Els(PC!Owned(l, c)) \cap Els(PC!Owned(l, d)) = {}
    <3>1. \A e \in Blocks : p \notin Els(PC!Owned(k, e)) BY <1>2 DEF PpcOK, PpcPages
    <3>2. Els(PC!Owned(k, c)) \cap Els(PC!Owned(k, d)) = {} BY <2>2 DEF PpcOK, PpcPages
    <3>3. CASE c = b BY <1>3, <1>4, <2>2, <3>1, <3>2, <3>3
    <3>4. CASE d = b BY <1>3, <1>4, <2>2, <3>1, <3>2, <3>4
    <3>5. CASE c # b /\ d # b BY <1>3, <3>2, <3>5
    <3> QED BY <3>3, <3>4, <3>5
  <2>3. ASSUME NEW q \in Exec PROVE q \in Els(l.pool) \/ \E c \in Blocks : q \in Els(PC!Owned(l, c))
    <3>1. q \in Els(k.pool) \/ \E c \in Blocks : q \in Els(PC!Owned(k, c)) BY DEF PpcOK, PpcPages
    <3>2. CASE q = p BY <1>4, <3>2
    <3>3. CASE q # p BY <1>2, <1>3, <1>4, <3>1, <3>3
    <3> QED BY <3>2, <3>3
  <2> QED BY <1>2, <2>1, <2>2, <2>3 DEF PpcPages
<1>6. PpcLists(l, X) BY DEF PpcOK, PpcLists
<1>7. PpcLinks(l)
  <2>0. \A c \in Blocks : l.blk[c].start = k.blk[c].start /\ l.blk[c].phys = k.blk[c].phys OBVIOUS
  <2>a. Els(k.tcbs) \subseteq Blocks BY <1>1, ElsAt
  <2>1. ASSUME NEW c \in Els(l.tcbs) PROVE PpcListed(l, c)
    <3>1. PpcListed(k, c) /\ c \in Blocks BY <2>a DEF PpcOK, PpcLinks
    <3>2. CASE c = b BY <3>1, <3>2 DEF PpcListed
    <3>3. CASE c # b BY <3>1, <3>3 DEF PpcListed
    <3> QED BY <3>2, <3>3
  <2>2. ASSUME NEW s \in Slot, l.slot[s] # None
        PROVE  l.slot[s] \in Els(l.tcbs) /\ SlotOf[l.blk[l.slot[s]].start] = s
    BY <2>0, <2>a, <2>2 DEF PpcOK, PpcLinks
  <2>3. ASSUME NEW s \in Slot, NEW c \in Els(l.phys[s])
        PROVE  c \in Els(l.tcbs) /\ PhysSlotOf[l.blk[c].phys] = s
    BY <2>0, <2>a DEF PpcOK, PpcLinks
  <2>4. \A s \in Slot : Once(l.phys[s]) BY DEF PpcOK, PpcLinks
  <2> QED BY <2>1, <2>2, <2>3, <2>4 DEF PpcLinks
<1> QED BY <1>5, <1>6, <1>7 DEF PpcOK

\* The record of a block whose code has filled n more pages.
PpcGrown(r, q, n) ==
  /\ q \in PpcBlock
  /\ Len(q.chunks) = Len(r.chunks) + n /\ q.pos = r.pos + n
  /\ q.buffer # None /\ q.ptr = q.buffer /\ ~ q.over
  /\ q.start = r.start /\ q.phys = r.phys /\ q.keep = r.keep /\ q.acc = r.acc /\ q.undef = r.undef
  /\ q.targets = r.targets /\ q.points = r.points /\ q.image = r.image

\* Pages filled one after another add up.
LEMMA PpcGrownMore ==
  ASSUME NEW r \in PpcBlock, NEW q, NEW o, NEW n \in Nat, NEW m \in Nat, PpcGrown(r, q, n), PpcGrown(q, o, m)
  PROVE  PpcGrown(r, o, n + m)
<1>1. Len(r.chunks) \in Nat /\ r.pos \in Nat BY DEF PpcBlock
<1>2. /\ Len(q.chunks) = Len(r.chunks) + n /\ q.pos = r.pos + n
      /\ Len(o.chunks) = Len(q.chunks) + m /\ o.pos = q.pos + m
  BY DEF PpcGrown
<1>3. Len(o.chunks) = Len(r.chunks) + (n + m) /\ o.pos = r.pos + (n + m)
  <2>1. \A a \in Nat : (a + n) + m = a + (n + m) OBVIOUS
  <2> QED BY <1>1, <1>2, <2>1
<1> QED BY <1>3 DEF PpcGrown

\* A page that is full of code is kept, and the code goes on in another one.
LEMMA PpcAdjust ==
  ASSUME PC!PpcCodeAssumption, NEW j, NEW X, PpcOK(j, X), NEW b, PpcWriting(j, b, X),
         PpcGrown(j.blk[b], j.blk[b], 0),
         Len(j.blk[b].chunks) < MaxFill, j.blk[b].pos < MaxChunks
  PROVE  LET l == PC!adjust_buffer(j, b)
         IN  PpcOK(l, X) /\ PpcAfter(j, l, b) /\ PpcGrown(j.blk[b], l.blk[b], 1)
<1>1. j \in PpcJit /\ b \in Blocks /\ j.blk[b] \in PpcBlock /\ Len(j.blk[b].chunks) \in Nat /\ j.blk[b].pos \in Nat
  BY DEF PpcOK, PpcJit, PpcBlock, PpcWriting
<1>2. Len(PC!Owned(j, b)) <= MaxFill
  <2>1. PC!Owned(j, b) \in Seq(Exec) /\ Len(PC!Owned(j, b)) <= Len(j.blk[b].chunks) + 1 BY <1>1, PpcOwned
  <2>2. MaxFill \in Nat /\ Len(PC!Owned(j, b)) \in Nat BY <2>1 DEF PC!PpcCodeAssumption
  <2> QED BY <1>1, <2>1, <2>2
<1>3. PICK k : /\ PpcOK(k, X) /\ PpcLess(j, k) /\ k.pool # <<>>
               /\ PC!exec_page_alloc(j) = [jit |-> [k EXCEPT !.pool = Tail(@)], page |-> Head(k.pool)]
  BY <1>2, PpcAlloc
<1>4. PpcAfter(j, k, b) /\ k.blk[b] = j.blk[b] /\ PC!Owned(k, b) = PC!Owned(j, b) BY <1>3, PpcLessAfter
<1>5. k \in PpcJit /\ k.pool \in Seq(Exec) /\ Once(k.pool) BY <1>3 DEF PpcOK, PpcJit, PpcPages
<1> DEFINE m == [k EXCEPT !.pool = Tail(@)]
           p == Head(k.pool)
           l == [m EXCEPT !.blk[b].chunks = Append(@, m.blk[b].buffer), !.blk[b].pos = @ + 1,
                          !.blk[b].buffer = p, !.blk[b].ptr = p]
<1>6. p \in Els(k.pool) /\ p \in Exec /\ Tail(k.pool) \in Seq(Exec) BY <1>3, <1>5, TailOnce
<1>7. PC!adjust_buffer(j, b) = l
  <2>1. p # None BY <1>6, PpcIdle
  <2>2. ~ j.blk[b].pos >= MaxChunks BY <1>1 DEF PC!PpcCodeAssumption
  <2>3. PC!adjust_buffer(j, b) = PC!GoOn([jit |-> m, page |-> p], b) BY <1>3, <2>2 DEF PC!adjust_buffer
  <2> HIDE DEF m, p
  <2> QED BY <2>1, <2>3 DEF PC!GoOn
<1>8. /\ m \in PpcJit /\ m.pool = Tail(k.pool) /\ m.spare = k.spare /\ m.tcbs = k.tcbs /\ m.slot = k.slot
      /\ m.phys = k.phys /\ m.blk = k.blk
  BY <1>5, <1>6 DEF PpcJit
<1> HIDE DEF m
<1>9. m.blk \in [Blocks -> PpcBlock] BY <1>8 DEF PpcJit
<1> DEFINE r == m.blk[b]
           q == [r EXCEPT !.chunks = Append(@, r.buffer), !.pos = @ + 1, !.buffer = p, !.ptr = p]
           B == [m.blk EXCEPT ![b] = q]
<1>10. r \in PpcBlock /\ r = j.blk[b] /\ r.buffer \in Exec
  <2>1. r \in PpcBlock /\ r = j.blk[b] BY <1>1, <1>4, <1>8, <1>9
  <2>2. r.buffer # None BY <2>1 DEF PpcGrown
  <2> QED BY <2>1, <2>2 DEF PpcBlock
<1>11. /\ q \in PpcBlock /\ q.chunks = Append(r.chunks, r.buffer) /\ q.pos = r.pos + 1
       /\ q.buffer = p /\ q.ptr = p /\ q.over = r.over
       /\ q.start = r.start /\ q.phys = r.phys /\ q.keep = r.keep /\ q.acc = r.acc /\ q.undef = r.undef
       /\ q.targets = r.targets /\ q.points = r.points /\ q.image = r.image
  <2>1. Append(r.chunks, r.buffer) \in Seq(Exec) /\ r.pos + 1 \in Nat BY <1>10 DEF PpcBlock
  <2> HIDE DEF r, p
  <2> QED BY <1>6, <1>10, <2>1 DEF PpcBlock
<1>12. l = [m EXCEPT !.blk = B] BY <1>1, <1>9
<1>13. B \in [Blocks -> PpcBlock] /\ B[b] = q /\ \A c \in Blocks \ {b} : B[c] = m.blk[c] BY <1>1, <1>9, <1>11
<1> HIDE DEF q, B, r, l, p
<1>14. /\ l \in PpcJit /\ l.pool = m.pool /\ l.spare = m.spare /\ l.tcbs = m.tcbs /\ l.slot = m.slot
       /\ l.phys = m.phys /\ l.blk = B
  BY <1>8, <1>12, <1>13 DEF PpcJit
<1>15. PC!Owned(l, b) = Append(Append(r.chunks, r.buffer), p) /\ PC!Owned(k, b) = Append(r.chunks, r.buffer)
  <2>1. p # None /\ r.buffer # None BY <1>6, <1>10, PpcIdle
  <2> QED BY <1>8, <1>11, <1>13, <1>14, <2>1 DEF PC!Owned, r
<1>16. Once(PC!Owned(l, b)) /\ Els(PC!Owned(l, b)) = Els(PC!Owned(k, b)) \cup {p}
  <2>1. PC!Owned(k, b) \in Seq(Exec) BY <1>1, <1>5, PpcOwned
  <2>2. Once(PC!Owned(k, b)) /\ p \notin Els(PC!Owned(k, b)) BY <1>1, <1>3, <1>6 DEF PpcOK, PpcPages
  <2> DEFINE o == PC!Owned(k, b)
  <2>3. PC!Owned(l, b) = Append(o, p) BY <1>15
  <2> HIDE DEF o
  <2> QED BY <1>6, <2>1, <2>2, <2>3, AppendOnce DEF o
<1>17. PpcOK(l, X)
  <2>1. b \in Els(k.tcbs) \cup X BY <1>4 DEF PpcAfter, PpcWriting
  <2>2. l.blk[b] = q /\ ~ r.over /\ p # None /\ k.blk[b] = r
    BY <1>4, <1>6, <1>10, <1>13, <1>14, PpcIdle DEF PpcGrown
  <2>3. l.blk[b].start = k.blk[b].start /\ l.blk[b].phys = k.blk[b].phys /\ l.blk[b].buffer # None
        /\ l.blk[b].ptr = l.blk[b].buffer /\ ~ l.blk[b].over
    BY <1>11, <2>2
  <2>4. \A c \in Blocks \ {b} : l.blk[c] = k.blk[c] BY <1>8, <1>13, <1>14
  <2>5. l.pool = Tail(k.pool) /\ l.spare = k.spare /\ l.tcbs = k.tcbs /\ l.slot = k.slot /\ l.phys = k.phys
    BY <1>8, <1>14
  <2>6. Els(PC!Owned(l, b)) = Els(PC!Owned(k, b)) \cup {Head(k.pool)} BY <1>16 DEF p
  <2> QED BY <1>1, <1>3, <1>14, <1>16, <2>1, <2>3, <2>4, <2>5, <2>6, PpcTake
<1>18. PpcAfter(j, l, b)
  <2>1. \A c \in Blocks \ {b} : l.blk[c] = k.blk[c] BY <1>8, <1>13, <1>14
  <2> QED BY <1>4, <1>8, <1>14, <2>1 DEF PpcAfter
<1>19. PpcGrown(j.blk[b], l.blk[b], 1)
  <2>1. l.blk[b] = q /\ p # None BY <1>6, <1>13, <1>14, PpcIdle
  <2>2. Len(q.chunks) = Len(r.chunks) + 1 BY <1>10, <1>11, AppendOnce DEF PpcBlock
  <2> QED BY <1>10, <1>11, <2>1, <2>2 DEF PpcGrown
<1> QED BY <1>7, <1>17, <1>18, <1>19

\* The code of a page, buffer by buffer.
PpcGenOf(j, b, o, n, f) ==
  /\ PC!gen_page(j, b, o, n) = [f[n] EXCEPT !.blk[b].image = mem[j.blk[b].phys],
                                            !.blk[b].points = j.blk[b].targets \cup {0, o}]
  /\ f[0] = j
  /\ \A i \in 1 .. n : f[i] = PC!adjust_buffer(f[i - 1], b)

\* The buffers exist for every number of pages.
LEMMA PpcGenSteps ==
  ASSUME NEW j, NEW b, NEW o, NEW n \in Nat
  PROVE  \E f : PpcGenOf(j, b, o, n, f)
<1> DEFINE g(k) == PC!adjust_buffer(k, b)
           P(m) == \E f : f = [i \in 0 .. m |-> IF i = 0 THEN j ELSE g(f[i - 1])]
           S == {m \in Nat : P(m)}
<1>1. P(0)
  <2>1. [i \in 0 .. 0 |-> j] = [i \in 0 .. 0 |-> IF i = 0 THEN j ELSE g([k \in 0 .. 0 |-> j][i - 1])] OBVIOUS
  <2> QED BY <2>1
<1>2. ASSUME NEW m \in Nat, P(m) PROVE P(m + 1)
  <2> HIDE DEF g
  <2>1. PICK f : f = [i \in 0 .. m |-> IF i = 0 THEN j ELSE g(f[i - 1])] BY <1>2
  <2> DEFINE h == [i \in 0 .. m + 1 |-> IF i <= m THEN f[i] ELSE g(f[m])]
             r == [i \in 0 .. m + 1 |-> IF i = 0 THEN j ELSE g(h[i - 1])]
  <2>2. ASSUME NEW i \in 0 .. m + 1 PROVE h[i] = r[i]
    <3>1. CASE i = 0 BY <2>1, <3>1
    <3>2. CASE i # 0 /\ i <= m
      <4>1. f[i] = g(f[i - 1]) BY <2>1, <3>2
      <4>2. i - 1 \in 0 .. m /\ i - 1 <= m BY <3>2
      <4> QED BY <4>1, <4>2, <3>2
    <3>3. CASE i = m + 1 BY <3>3
    <3> QED BY <3>1, <3>2, <3>3
  <2>3. h = r BY <2>2
  <2> QED BY <2>3
<1>3. P(n)
  <2> HIDE DEF P
  <2>1. 0 \in S /\ \A i \in 0 .. n : i \in S /\ i < n => i + 1 \in S BY <1>1, <1>2
  <2>2. \A i \in 0 .. n : i \in S BY <2>1, UpTo
  <2> QED BY <2>2
<1> DEFINE filled == CHOOSE f : f = [i \in 0 .. n |-> IF i = 0 THEN j ELSE g(f[i - 1])]
<1>4. filled = [i \in 0 .. n |-> IF i = 0 THEN j ELSE g(filled[i - 1])]
  <2> HIDE DEF g
  <2> QED BY <1>3
<1>5. PC!gen_page(j, b, o, n) = [filled[n] EXCEPT !.blk[b].image = mem[j.blk[b].phys],
                                                  !.blk[b].points = j.blk[b].targets \cup {0, o}]
  BY DEF PC!gen_page
<1> HIDE DEF filled, g
<1>6. filled[0] = j /\ \A i \in 1 .. n : filled[i] = g(filled[i - 1])
  <2>1. 0 \in 0 .. n /\ \A i \in 1 .. n : i \in 0 .. n /\ i # 0 OBVIOUS
  <2> QED BY <1>4, <2>1
<1> QED BY <1>5, <1>6 DEF g, PpcGenOf

\* What a block is after its page has been translated.
PpcMade(r, q, o) ==
  /\ q \in PpcBlock
  /\ q.buffer # None /\ q.ptr = q.buffer /\ ~ q.over
  /\ q.start = r.start /\ q.phys = r.phys /\ q.keep = r.keep /\ q.acc = r.acc /\ q.undef = r.undef
  /\ q.targets = r.targets /\ q.points = r.targets \cup {0, o} /\ q.image = mem[r.phys]

\* What is in a record of a block that neither pages nor lists depend on.
LEMMA PpcTouch ==
  ASSUME NEW k, NEW X, PpcOK(k, X), NEW b \in Blocks, b \in Els(k.tcbs) \cup X, NEW l \in PpcJit,
         l.pool = k.pool, l.spare = k.spare, l.tcbs = k.tcbs, l.slot = k.slot, l.phys = k.phys,
         \A c \in Blocks \ {b} : l.blk[c] = k.blk[c],
         l.blk[b].chunks = k.blk[b].chunks, l.blk[b].buffer = k.blk[b].buffer,
         l.blk[b].ptr = k.blk[b].ptr, l.blk[b].over = k.blk[b].over,
         l.blk[b].start = k.blk[b].start, l.blk[b].phys = k.blk[b].phys
  PROVE  PpcOK(l, X)
<1>1. \A c \in Blocks : PC!Owned(l, c) = PC!Owned(k, c) BY DEF PC!Owned
<1>2. PpcPages(l) BY <1>1 DEF PpcOK, PpcPages
<1>3. PpcLists(l, X) BY DEF PpcOK, PpcLists
<1>4. PpcLinks(l)
  <2>0. \A c \in Blocks : l.blk[c].start = k.blk[c].start /\ l.blk[c].phys = k.blk[c].phys
        /\ l.blk[c].buffer = k.blk[c].buffer /\ l.blk[c].ptr = k.blk[c].ptr /\ l.blk[c].over = k.blk[c].over
    OBVIOUS
  <2>a. k.tcbs \in Seq(Blocks) /\ Els(k.tcbs) \subseteq Blocks BY ElsAt DEF PpcOK, PpcJit
  <2>1. ASSUME NEW c \in Els(l.tcbs) PROVE PpcListed(l, c)
    <3>1. PpcListed(k, c) /\ c \in Blocks BY <2>a DEF PpcOK, PpcLinks
    <3> QED BY <2>0, <3>1 DEF PpcListed
  <2>2. ASSUME NEW s \in Slot, l.slot[s] # None
        PROVE  l.slot[s] \in Els(l.tcbs) /\ SlotOf[l.blk[l.slot[s]].start] = s
    BY <2>0, <2>a, <2>2 DEF PpcOK, PpcLinks
  <2>3. ASSUME NEW s \in Slot, NEW c \in Els(l.phys[s])
        PROVE  c \in Els(l.tcbs) /\ PhysSlotOf[l.blk[c].phys] = s
    BY <2>0, <2>a DEF PpcOK, PpcLinks
  <2>4. \A s \in Slot : Once(l.phys[s]) BY DEF PpcOK, PpcLinks
  <2> QED BY <2>1, <2>2, <2>3, <2>4 DEF PpcLinks
<1> QED BY <1>2, <1>3, <1>4 DEF PpcOK

\* The code of a page is written: the block owns all the pages it fills
\* (ppc32_jit_tcb_translate).
LEMMA PpcGen ==
  ASSUME PC!PpcCodeAssumption, mem \in [Phys -> Images], NEW j, NEW X, PpcOK(j, X), NEW b,
         PpcWriting(j, b, X), PpcGrown(j.blk[b], j.blk[b], 0), j.blk[b].phys \in Phys,
         j.blk[b].chunks = <<>>, NEW n \in 0 .. MaxFill, j.blk[b].pos + n <= MaxChunks, NEW o \in Places
  PROVE  LET l == PC!gen_page(j, b, o, n)
         IN  PpcOK(l, X) /\ PpcAfter(j, l, b) /\ PpcMade(j.blk[b], l.blk[b], o)
<1>1. /\ j \in PpcJit /\ b \in Blocks /\ j.blk[b] \in PpcBlock /\ j.blk[b].pos \in Nat
      /\ n \in Nat /\ MaxFill \in Nat /\ MaxChunks \in Nat
  BY DEF PpcOK, PpcJit, PpcBlock, PpcWriting, PC!PpcCodeAssumption
<1>a. PICK f : PpcGenOf(j, b, o, n, f) BY <1>1, PpcGenSteps
<1>2. /\ PC!gen_page(j, b, o, n) = [f[n] EXCEPT !.blk[b].image = mem[j.blk[b].phys],
                                                !.blk[b].points = j.blk[b].targets \cup {0, o}]
      /\ f[0] = j
      /\ \A i \in 1 .. n : f[i] = PC!adjust_buffer(f[i - 1], b)
  BY <1>a DEF PpcGenOf
<1> DEFINE Q(k, i) == PpcOK(k, X) /\ PpcAfter(j, k, b) /\ PpcGrown(j.blk[b], k.blk[b], i)
           S == {i \in 0 .. n : Q(f[i], i)}
<1>3. Q(f[0], 0) BY <1>2, PpcAfterSelf
<1>4. ASSUME NEW i \in 0 .. n, Q(f[i], i), i < n PROVE Q(f[i + 1], i + 1)
  <2> DEFINE k == f[i]
  <2>1. f[i + 1] = PC!adjust_buffer(k, b)
    <3>1. i + 1 \in 1 .. n /\ (i + 1) - 1 = i BY <1>1, <1>4
    <3> QED BY <1>2, <3>1
  <2>2. PpcOK(k, X) /\ PpcAfter(j, k, b) /\ PpcGrown(j.blk[b], k.blk[b], i) BY <1>4
  <2> HIDE DEF k
  <2>3. PpcWriting(k, b, X) BY <2>2, PpcAfterWriting DEF PpcGrown
  <2>4. PpcGrown(k.blk[b], k.blk[b], 0)
    <3>1. k.blk[b] \in PpcBlock /\ Len(k.blk[b].chunks) \in Nat /\ k.blk[b].pos \in Nat
      BY <2>2 DEF PpcGrown, PpcBlock
    <3> QED BY <2>2, <3>1 DEF PpcGrown
  <2>5. Len(k.blk[b].chunks) < MaxFill /\ k.blk[b].pos < MaxChunks
    <3>1. Len(k.blk[b].chunks) = 0 + i /\ k.blk[b].pos = j.blk[b].pos + i BY <2>2 DEF PpcGrown
    <3> QED BY <1>1, <1>4, <3>1
  <2> DEFINE l == PC!adjust_buffer(k, b)
  <2>6. PpcOK(l, X) /\ PpcAfter(k, l, b) /\ PpcGrown(k.blk[b], l.blk[b], 1)
    BY <2>2, <2>3, <2>4, <2>5, PpcAdjust
  <2> HIDE DEF l
  <2>7. Els(j.tcbs) \subseteq Blocks BY <1>1, ElsAt DEF PpcJit
  <2>8. PpcAfter(j, l, b) BY <2>2, <2>6, <2>7, PpcAfterTwice
  <2>9. PpcGrown(j.blk[b], l.blk[b], i + 1) BY <1>1, <2>2, <2>6, PpcGrownMore
  <2> QED BY <2>1, <2>6, <2>8, <2>9 DEF l
<1>5. Q(f[n], n)
  <2> HIDE DEF Q
  <2>1. 0 \in S /\ \A i \in 0 .. n : i \in S /\ i < n => i + 1 \in S BY <1>1, <1>3, <1>4
  <2>2. \A i \in 0 .. n : i \in S BY <1>1, <2>1, UpTo
  <2> QED BY <1>1, <2>2
<1> DEFINE k == f[n]
<1>6. PpcOK(k, X) /\ PpcAfter(j, k, b) /\ PpcGrown(j.blk[b], k.blk[b], n) BY <1>5
<1> HIDE DEF k
<1> DEFINE r == k.blk[b]
           q == [r EXCEPT !.image = mem[j.blk[b].phys], !.points = j.blk[b].targets \cup {0, o}]
           B == [k.blk EXCEPT ![b] = q]
           l == [k EXCEPT !.blk = B]
<1>7. k \in PpcJit /\ k.blk \in [Blocks -> PpcBlock] /\ r \in PpcBlock BY <1>1, <1>6 DEF PpcOK, PpcJit
<1>8. PC!gen_page(j, b, o, n) = l
  <2>1. PC!gen_page(j, b, o, n) = [k EXCEPT !.blk[b].image = mem[j.blk[b].phys],
                                            !.blk[b].points = j.blk[b].targets \cup {0, o}]
    BY <1>2 DEF k
  <2> QED BY <1>1, <1>7, <2>1
<1>9. mem[j.blk[b].phys] \in Images /\ j.blk[b].targets \cup {0, o} \in SUBSET Places
  BY <1>1 DEF PpcBlock, Places
<1>10. /\ q \in PpcBlock /\ q.chunks = r.chunks /\ q.pos = r.pos /\ q.buffer = r.buffer /\ q.ptr = r.ptr
       /\ q.over = r.over /\ q.start = r.start /\ q.phys = r.phys /\ q.keep = r.keep /\ q.acc = r.acc
       /\ q.undef = r.undef /\ q.targets = r.targets /\ q.points = j.blk[b].targets \cup {0, o}
       /\ q.image = mem[j.blk[b].phys]
  <2> HIDE DEF r
  <2> QED BY <1>7, <1>9 DEF PpcBlock
<1>11. B \in [Blocks -> PpcBlock] /\ B[b] = q /\ \A c \in Blocks \ {b} : B[c] = k.blk[c] BY <1>1, <1>7, <1>10
<1> HIDE DEF q, B, l
<1>12. /\ l \in PpcJit /\ l.pool = k.pool /\ l.spare = k.spare /\ l.tcbs = k.tcbs /\ l.slot = k.slot
       /\ l.phys = k.phys /\ l.blk = B
  BY <1>7, <1>11 DEF PpcJit, l
<1>13. b \in Els(k.tcbs) \cup X BY <1>6 DEF PpcAfter, PpcWriting
<1>14. PpcOK(l, X) BY <1>1, <1>6, <1>10, <1>11, <1>12, <1>13, PpcTouch DEF r
<1>15. PpcAfter(j, l, b) BY <1>6, <1>11, <1>12 DEF PpcAfter
<1>16. PpcMade(j.blk[b], l.blk[b], o) BY <1>6, <1>10, <1>11, <1>12 DEF PpcMade, PpcGrown
<1> QED BY <1>8, <1>14, <1>15, <1>16

\* The code of a page, if it has any.  Every page has the code it had, or none, or
\* the code of what it holds now.
CodeOf(j, v) == LET b == j.slot[SlotOf[v]]
                IN  IF b = None \/ j.blk[b].start # v THEN {} ELSE {j.blk[b].image}
Keeps(j, k) == \A v \in CodePage : CodeOf(k, v) \subseteq CodeOf(j, v) \cup {mem[Map[v]]}

\* A cache that stays as it is keeps its code,
LEMMA KeepsSelf == ASSUME NEW j PROVE Keeps(j, j) BY DEF Keeps

\* and so do two steps that each keep it.
LEMMA KeepsTwice ==
  ASSUME NEW j, NEW k, NEW l, Keeps(j, k), Keeps(k, l)
  PROVE  Keeps(j, l)
BY DEF Keeps

\* Slots that are emptied or kept, whose blocks are of the same page and hold the
\* same code or that of what the page holds now.
SlotKept(j, k, s) ==
  /\ k.slot[s] = j.slot[s] /\ k.blk[j.slot[s]].start = j.blk[j.slot[s]].start
  /\ \/ k.blk[j.slot[s]].image = j.blk[j.slot[s]].image
     \/ k.blk[j.slot[s]].image = mem[Map[j.blk[j.slot[s]].start]]
SlotsKept(j, k) == \A s \in Slot : k.slot[s] = None \/ SlotKept(j, k, s)

\* Then the pages keep their code.
LEMMA Kept ==
  ASSUME NEW j, NEW k, SlotsKept(j, k)
  PROVE  Keeps(j, k)
<1> SUFFICES ASSUME NEW v \in CodePage
             PROVE  CodeOf(k, v) \subseteq CodeOf(j, v) \cup {mem[Map[v]]}
  BY DEF Keeps
<1>1. SlotOf[v] \in Slot BY ExecutionAssumption DEF PC!PpcCodeAssumption
<1> QED BY <1>1 DEF CodeOf, SlotsKept, SlotKept
-----------------------------------------------------------------------------
(* The code caches as stale caches of the pages of code.                   *)

\* In a part that runs code the cache stands for its pages.
CodeTurn == part \in {"ppc code", "mips code"} /\ part' = part

\* There the cache holds what its blocks were made from.
LEMMA CodeIs ==
  ASSUME CodeTurn
  PROVE  /\ Code!Keys = CodePage
         /\ \A v \in CodePage : /\ CodeNow[v] = mem[Map[v]]
                                /\ CodeKept[v] = {x \in CodeOf(jit, v) : x # mem[Map[v]]}
                                /\ CodeKept'[v] = {x \in CodeOf(jit', v) : x # mem'[Map[v]]}
         /\ mem' = mem => CodeNow' = CodeNow
<1>1. CASE part = "ppc code"
  <2>1. CodeNow = PC!Current /\ CodeKept = PC!Stale /\ CodeNow' = PC!Current' /\ CodeKept' = PC!Stale'
    BY <1>1 DEF CodeNow, CodeKept, CodeTurn
  <2>2. Code!Keys = CodePage BY <2>1 DEF Code!Keys, PC!Current
  <2>3. mem' = mem => CodeNow' = CodeNow BY <2>1 DEF PC!Current
  <2>4. ASSUME NEW v \in CodePage
        PROVE  /\ CodeNow[v] = mem[Map[v]]
               /\ CodeKept[v] = {x \in CodeOf(jit, v) : x # mem[Map[v]]}
               /\ CodeKept'[v] = {x \in CodeOf(jit', v) : x # mem'[Map[v]]}
    <3>1. PC!Cached(v) = CodeOf(jit, v) /\ PC!Cached(v)' = CodeOf(jit', v) BY DEF PC!Cached, CodeOf
    <3>2. CodeNow[v] = mem[Map[v]] BY <2>1 DEF PC!Current
    <3>3. CodeKept[v] = {x \in PC!Cached(v) : x # mem[Map[v]]} BY <2>1 DEF PC!Stale
    <3>4. CodeKept'[v] = {x \in PC!Cached(v)' : x # mem'[Map[v]]} BY <2>1 DEF PC!Stale
    <3> QED BY <3>1, <3>2, <3>3, <3>4
  <2> QED BY <2>2, <2>3, <2>4
<1>2. CASE part = "mips code"
  <2>1. CodeNow = MC!Current /\ CodeKept = MC!Stale /\ CodeNow' = MC!Current' /\ CodeKept' = MC!Stale'
    BY <1>2 DEF CodeNow, CodeKept, CodeTurn
  <2>2. Code!Keys = CodePage BY <2>1 DEF Code!Keys, MC!Current
  <2>3. mem' = mem => CodeNow' = CodeNow BY <2>1 DEF MC!Current
  <2>4. ASSUME NEW v \in CodePage
        PROVE  /\ CodeNow[v] = mem[Map[v]]
               /\ CodeKept[v] = {x \in CodeOf(jit, v) : x # mem[Map[v]]}
               /\ CodeKept'[v] = {x \in CodeOf(jit', v) : x # mem'[Map[v]]}
    <3>1. MC!Cached(v) = CodeOf(jit, v) /\ MC!Cached(v)' = CodeOf(jit', v) BY DEF MC!Cached, CodeOf
    <3>2. CodeNow[v] = mem[Map[v]] BY <2>1 DEF MC!Current
    <3>3. CodeKept[v] = {x \in MC!Cached(v) : x # mem[Map[v]]} BY <2>1 DEF MC!Stale
    <3>4. CodeKept'[v] = {x \in MC!Cached(v)' : x # mem'[Map[v]]} BY <2>1 DEF MC!Stale
    <3> QED BY <3>1, <3>2, <3>3, <3>4
  <2> QED BY <2>2, <2>3, <2>4
<1> QED BY <1>1, <1>2 DEF CodeTurn

\* A step that keeps the code lets it grow old at most.
LEMMA CodeAges ==
  ASSUME CodeTurn, Keeps(jit, jit'), NEW v \in CodePage
  PROVE  Code!Ages(v)
BY CodeIs DEF Code!Ages, Keeps

\* What runs is a page as it is now, or as its block kept it.
Answer ==
  \E v \in CodePage : \E x \in {mem[Map[v]]} \cup CodeOf(jit, v) :
    said' = [op |-> "use", key |-> v, value |-> x]

\* Such an answer is one a stale cache may give.
LEMMA CodeAnswers ==
  ASSUME CodeTurn, mem' = mem, Keeps(jit, jit'), said' = [op |-> "other"] \/ Answer
  PROVE  Code!Next
<1>1. CodeNow' = CodeNow BY CodeIs
<1>2. \A v \in Code!Keys : CodeKept'[v] \subseteq CodeKept[v]
  <2>1. ASSUME NEW v \in CodePage PROVE CodeKept'[v] \subseteq CodeKept[v]
    <3>1. CodeKept'[v] \subseteq CodeOf(jit', v) /\ CodeOf(jit', v) \subseteq CodeOf(jit, v) \cup {mem[Map[v]]}
      BY CodeIs DEF Keeps
    <3>2. \A x \in CodeKept'[v] : x # mem[Map[v]] BY CodeIs
    <3> QED BY <3>1, <3>2, CodeIs
  <2> QED BY <2>1, CodeIs
<1>3. CASE said' = [op |-> "other"] BY <1>1, <1>2, <1>3 DEF Code!Next, Code!Other
<1>4. CASE Answer
  <2>1. PICK v \in CodePage : \E x \in {mem[Map[v]]} \cup CodeOf(jit, v) :
          said' = [op |-> "use", key |-> v, value |-> x]
    BY <1>4 DEF Answer
  <2>a. PICK x \in {mem[Map[v]]} \cup CodeOf(jit, v) : said' = [op |-> "use", key |-> v, value |-> x]
    BY <2>1
  <2>2. said'.op = "use" /\ said'.key = v /\ said'.value = x BY <2>a
  <2>3. said'.value = CodeNow[v] \/ said'.value \in CodeKept[v] BY <2>2, CodeIs
  <2> QED BY <1>1, <1>2, <2>2, <2>3 DEF Code!Next, Code!Use
<1> QED BY <1>3, <1>4

\* The guest writes to a page of code.
LEMMA CodeChanges ==
  ASSUME CodeTurn, Keeps(jit, jit'), said' = [op |-> "change"]
  PROVE  Code!Next
<1>1. said'.op = "change" OBVIOUS
<1>2. \A v \in Code!Keys : Code!Ages(v) BY CodeIs, CodeAges
<1> QED BY <1>1, <1>2 DEF Code!Next, Code!Change

\* Pages have to be forgotten, and have no code any more.
LEMMA CodeForgets ==
  ASSUME CodeTurn, Keeps(jit, jit'), NEW K, said' = [op |-> "forget", keys |-> K],
         \A v \in K \cap CodePage : CodeOf(jit', v) = {}
  PROVE  Code!Next
<1>1. said'.op = "forget" /\ said'.keys = K OBVIOUS
<1>2. ASSUME NEW v \in Code!Keys PROVE IF v \in K THEN CodeKept'[v] = {} ELSE Code!Ages(v)
  <2>1. v \in CodePage BY CodeIs
  <2>2. CodeKept'[v] \subseteq CodeOf(jit', v) BY <2>1, CodeIs
  <2> QED BY <2>1, <2>2, CodeAges
<1> QED BY <1>1, <1>2 DEF Code!Next, Code!Forget

\* A block that is neither listed nor on the free list: from the free list, or,
\* if that is empty, one that was never used.  There is one, for every listed
\* block owns a page.
LEMMA PpcTcbAlloc ==
  ASSUME PC!PpcCodeAssumption, NEW j, PpcOK(j, {})
  PROVE  LET got == PC!tcb_alloc(j)
             k   == got.jit
             b   == got.block
         IN  /\ PpcOK(k, {b})
             /\ b \in Blocks /\ b \notin Els(j.tcbs)
             /\ k.blk = j.blk /\ k.tcbs = j.tcbs /\ k.slot = j.slot /\ k.blk[b] = PC!Idle
<1>0. /\ j \in PpcJit /\ j.tcbs \in Seq(Blocks) /\ j.spare \in Seq(Blocks) /\ Els(j.tcbs) \subseteq Blocks
      /\ j.blk \in [Blocks -> PpcBlock]
  <2>1. j \in PpcJit /\ j.tcbs \in Seq(Blocks) /\ j.spare \in Seq(Blocks) /\ j.blk \in [Blocks -> PpcBlock]
    BY DEF PpcOK, PpcJit
  <2> QED BY <2>1, ElsAt
<1>1. CASE j.spare # <<>>
  <2> DEFINE b == Head(j.spare)
             k == [j EXCEPT !.spare = Tail(@)]
  <2>1. b \in Els(j.spare) /\ b \in Blocks /\ Tail(j.spare) \in Seq(Blocks) /\ Once(Tail(j.spare))
        /\ Els(Tail(j.spare)) = Els(j.spare) \ {b}
    BY <1>0, <1>1, TailOnce DEF PpcOK, PpcLists
  <2>2. b \notin Els(j.tcbs) BY <2>1 DEF PpcOK, PpcLists
  <2>3. j.blk[b] = PC!Idle BY <2>1, <2>2 DEF PpcOK, PpcLists
  <2>4. [j EXCEPT !.spare = Tail(@), !.blk[b] = PC!Idle] = k
    <3>1. [j.blk EXCEPT ![b] = PC!Idle] = j.blk BY <1>0, <2>1, <2>3
    <3>2. j \in [DOMAIN j -> {j[f] : f \in DOMAIN j}] /\ DOMAIN j = {"pool", "blk", "spare", "tcbs", "slot", "phys", "method"}
      BY <1>0 DEF PpcJit
    <3>3. [j EXCEPT !.spare = Tail(@), !.blk[b] = PC!Idle] = [k EXCEPT !.blk = [j.blk EXCEPT ![b] = PC!Idle]]
      BY <3>2
    <3>4. [k EXCEPT !.blk = j.blk] = k BY <3>2
    <3> QED BY <3>1, <3>3, <3>4
  <2>5. PC!tcb_alloc(j) = [jit |-> k, block |-> b] BY <1>1, <2>4 DEF PC!tcb_alloc
  <2>6. /\ k \in PpcJit /\ k.pool = j.pool /\ k.blk = j.blk /\ k.tcbs = j.tcbs /\ k.slot = j.slot
        /\ k.phys = j.phys /\ k.spare = Tail(j.spare)
    BY <1>0, <2>1 DEF PpcJit
  <2> HIDE DEF k, b
  <2>7. PpcPages(k)
    <3>1. \A c : PC!Owned(k, c) = PC!Owned(j, c) BY <2>6 DEF PC!Owned
    <3> QED BY <2>6, <3>1 DEF PpcOK, PpcPages
  <2>8. PpcLists(k, {b}) BY <2>1, <2>2, <2>6 DEF PpcOK, PpcLists
  <2>9. PpcLinks(k)
    <3>1. \A c : PpcListed(j, c) => PpcListed(k, c) BY <2>6 DEF PpcListed
    <3> QED BY <2>6, <3>1 DEF PpcOK, PpcLinks
  <2> QED BY <2>1, <2>2, <2>3, <2>5, <2>6, <2>7, <2>8, <2>9 DEF PpcOK
<1>2. CASE j.spare = <<>>
  <2> DEFINE n == Len(ExecPage)
  <2>1. Blocks = 1 .. n + 1 /\ n \in Nat BY PpcIdle
  <2> HIDE DEF n
  <2>2. \E b \in Blocks : b \notin Els(j.tcbs)
    <3> SUFFICES ASSUME Blocks \subseteq Els(j.tcbs) PROVE FALSE OBVIOUS
    <3> DEFINE s == [i \in 1 .. n + 1 |-> j.blk[i].buffer]
    <3>1. ASSUME NEW i \in Blocks
          PROVE  j.blk[i].buffer \in Exec /\ j.blk[i].buffer \in Els(PC!Owned(j, i))
      <4>1. j.blk[i].buffer # None /\ j.blk[i].buffer \in Exec \cup {None}
        BY <1>0 DEF PpcOK, PpcLinks, PpcListed, PpcBlock
      <4> QED BY <1>0, <4>1, PpcOwned
    <3>2. s \in Seq(Exec) /\ Len(s) = n + 1 BY <2>1, <3>1
    <3>3. Once(s) BY <2>1, <3>1 DEF Once, PpcOK, PpcPages
    <3>4. Cardinality(Els(s)) = n + 1 BY <3>2, <3>3, OnceCount
    <3>5. Els(s) \subseteq Exec
      <4> HIDE DEF s
      <4> QED BY <3>2, ElsAt
    <3>6. ExecPage \in Seq(Exec) /\ Once(ExecPage)
      BY DEF PC!PpcCodeAssumption, PC!ToSet, PC!IsInjective, Exec, Els, Once
    <3>7. Cardinality(Exec) = n /\ IsFiniteSet(Exec) BY <3>6, OnceCount DEF Exec, n
    <3>8. Cardinality(Els(s)) <= Cardinality(Exec) BY <3>5, <3>7, FS_Subset
    <3> QED BY <2>1, <3>4, <3>7, <3>8
  <2> DEFINE b == CHOOSE b \in PC!BlockId : b \notin PC!ToSet(j.tcbs)
  <2>3. b \in Blocks /\ b \notin Els(j.tcbs) BY <2>2 DEF Blocks, PC!ToSet, Els
  <2>4. PC!tcb_alloc(j) = [jit |-> j, block |-> b] BY <1>2 DEF PC!tcb_alloc
  <2> HIDE DEF b
  <2>5. Els(j.spare) = {} BY <1>2 DEF Els
  <2>6. j.blk[b] = PC!Idle BY <2>3 DEF PpcOK, PpcLists
  <2>7. PpcOK(j, {b}) BY <2>3, <2>5 DEF PpcOK, PpcLists
  <2> QED BY <2>3, <2>4, <2>6, <2>7
<1> QED BY <1>1, <1>2

\* What is in the record of a block that is not listed.
LEMMA PpcTouchNew ==
  ASSUME NEW k, NEW X, PpcOK(k, X), NEW b \in Blocks, b \in X, NEW l \in PpcJit,
         l.pool = k.pool, l.spare = k.spare, l.tcbs = k.tcbs, l.slot = k.slot, l.phys = k.phys,
         \A c \in Blocks \ {b} : l.blk[c] = k.blk[c],
         l.blk[b].chunks = k.blk[b].chunks, l.blk[b].buffer = k.blk[b].buffer
  PROVE  PpcOK(l, X)
<1>1. \A c \in Blocks : PC!Owned(l, c) = PC!Owned(k, c) BY DEF PC!Owned
<1>2. PpcPages(l) BY <1>1 DEF PpcOK, PpcPages
<1>3. PpcLists(l, X) BY DEF PpcOK, PpcLists
<1>4. PpcLinks(l)
  <2>1. k.tcbs \in Seq(Blocks) /\ Els(k.tcbs) \subseteq Blocks BY ElsAt DEF PpcOK, PpcJit
  <2>2. \A c \in Els(k.tcbs) : l.blk[c] = k.blk[c] BY <2>1 DEF PpcOK, PpcLists
  <2>3. \A c \in Els(k.tcbs) : PpcListed(k, c) => PpcListed(l, c) BY <2>2 DEF PpcListed
  <2> QED BY <2>2, <2>3 DEF PpcOK, PpcLinks
<1> QED BY <1>2, <1>3, <1>4 DEF PpcOK

\* A block that was being made is given up.
LEMMA PpcGiveUp ==
  ASSUME PC!PpcCodeAssumption, NEW j, NEW b \in Blocks, PpcOK(j, {b})
  PROVE  LET k == PC!tcb_free(j, b, FALSE)
         IN  /\ PpcOK(k, {})
             /\ k.blk = [j.blk EXCEPT ![b] = PC!Idle] /\ k.tcbs = j.tcbs /\ k.slot = j.slot
<1> DEFINE O == Backwards(PC!Owned(j, b)) \o j.pool
           B == [j.blk EXCEPT ![b].chunks = <<>>, ![b].buffer = None]
           C == [j.blk EXCEPT ![b] = PC!Idle]
           F == <<b>> \o j.spare
           w == [j EXCEPT !.pool = O, !.blk = B]
           x == [w EXCEPT !.spare = F, !.blk = C]
<1>1. /\ j \in PpcJit /\ j.pool \in Seq(Exec) /\ j.tcbs \in Seq(Blocks) /\ j.spare \in Seq(Blocks)
      /\ j.blk \in [Blocks -> PpcBlock] /\ DOMAIN j.blk = Blocks
      /\ DOMAIN j = {"pool", "blk", "spare", "tcbs", "slot", "phys", "method"}
      /\ j \in [DOMAIN j -> {j[f] : f \in DOMAIN j}]
  BY DEF PpcOK, PpcJit
<1>a. PC!free_code_chunks(j, b) =
        [j EXCEPT !.pool = Backwards(PC!Owned(j, b)) \o @, !.blk[b].chunks = <<>>, !.blk[b].buffer = None]
  BY DEF PC!free_code_chunks, PC!exec_page_free, PC!Reverse, Backwards
<1>2. PC!free_code_chunks(j, b) = w BY <1>1, <1>a
<1>3. PC!tcb_free(j, b, FALSE) = [w EXCEPT !.spare = <<b>> \o @, !.blk[b] = PC!Idle]
  <2>1. PC!tcb_free(j, b, FALSE) = [PC!free_code_chunks(j, b) EXCEPT !.spare = <<b>> \o @, !.blk[b] = PC!Idle]
    BY DEF PC!tcb_free
  <2> QED BY <1>2, <2>1
<1>4. [w.blk EXCEPT ![b] = PC!Idle] = C /\ w.spare = j.spare /\ w.blk = B /\ DOMAIN w = DOMAIN j BY <1>1
<1>5. PC!tcb_free(j, b, FALSE) = x
  <2> HIDE DEF w, C
  <2> QED BY <1>1, <1>3, <1>4
<1> DEFINE o == PC!Owned(j, b)
<1>6. o \in Seq(Exec) /\ Once(o) /\ Els(o) \cap Els(j.pool) = {} /\ Once(j.pool)
  BY <1>1, PpcOwned DEF PpcOK, PpcPages
<1>7. O \in Seq(Exec) /\ Once(O) /\ Els(O) = Els(o) \cup Els(j.pool)
  <2> HIDE DEF o
  <2>1. Backwards(o) \in Seq(Exec) /\ Once(Backwards(o)) /\ Els(Backwards(o)) = Els(o) BY <1>6, BackwardsOnce
  <2> QED BY <1>1, <1>6, <2>1, CatOnce DEF o
<1>8. /\ F \in Seq(Blocks) /\ Once(F) /\ Els(F) = Els(j.spare) \cup {b}
      /\ C \in [Blocks -> PpcBlock]
  BY <1>1, ConsOnce, PpcIdle DEF PpcOK, PpcLists
<1>9. x \in PpcJit /\ x.pool = O /\ x.blk = C /\ x.spare = F /\ x.tcbs = j.tcbs /\ x.slot = j.slot /\ x.phys = j.phys
  <2> HIDE DEF O, B, C, F
  <2> QED BY <1>1, <1>7, <1>8 DEF PpcJit
<1>10. C[b] = PC!Idle /\ \A c \in Blocks \ {b} : C[c] = j.blk[c] BY <1>1
<1> HIDE DEF x, C, O, F
<1>11. \A c \in Blocks \ {b} : PC!Owned(x, c) = PC!Owned(j, c) BY <1>9, <1>10 DEF PC!Owned
<1>12. PC!Owned(x, b) = <<>> BY <1>9, <1>10, PpcIdleOwned
<1>13. PpcPages(x)
  <2>0. Els(<<>>) = {} /\ Once(<<>>) BY DEF Els, Once
  <2>1. \A c \in Blocks : Once(PC!Owned(x, c)) /\ Els(PC!Owned(x, c)) \cap Els(x.pool) = {}
    BY <1>7, <1>9, <1>11, <1>12, <2>0 DEF PpcOK, PpcPages
  <2>2. \A c, d \in Blocks : c # d => Els(PC!Owned(x, c)) \cap Els(PC!Owned(x, d)) = {}
    BY <1>11, <1>12, <2>0 DEF PpcOK, PpcPages
  <2>3. \A p \in Exec : p \in Els(x.pool) \/ \E c \in Blocks : p \in Els(PC!Owned(x, c))
    BY <1>7, <1>9, <1>11 DEF PpcOK, PpcPages
  <2> QED BY <1>7, <1>9, <2>1, <2>2, <2>3 DEF PpcPages
<1>14. PpcLists(x, {}) BY <1>8, <1>9, <1>10 DEF PpcOK, PpcLists
<1>15. PpcLinks(x)
  <2>1. Els(j.tcbs) \subseteq Blocks BY <1>1, ElsAt
  <2>2. \A c \in Els(j.tcbs) : x.blk[c] = j.blk[c] BY <1>9, <1>10, <2>1 DEF PpcOK, PpcLists
  <2>3. \A c \in Els(j.tcbs) : PpcListed(j, c) => PpcListed(x, c) BY <1>9, <2>2 DEF PpcListed
  <2> QED BY <1>9, <2>2, <2>3 DEF PpcOK, PpcLinks
<1> QED BY <1>5, <1>9, <1>13, <1>14, <1>15 DEF PpcOK, C

\* A new block, with its first page of the exec area; or none, for a page that
\* lies on a device.
PpcFoundOK(j, made, b, v) ==
  /\ PpcAfter(j, made.jit, b)
  /\ made.block = IF v \in OnDevice THEN None ELSE b
  /\ v \in OnDevice => PpcOK(made.jit, {}) /\ made.jit.blk[b] = PC!Idle
  /\ v \notin OnDevice =>
       /\ PpcOK(made.jit, {b}) /\ PpcGrown(made.jit.blk[b], made.jit.blk[b], 0)
       /\ made.jit.blk[b].start = v /\ made.jit.blk[b].phys = Map[v] /\ made.jit.blk[b].chunks = <<>>
       /\ made.jit.blk[b].pos = 0 /\ ~ made.jit.blk[b].keep

\* It exists, wherever its page of the exec area comes from
\* (ppc32_jit_tcb_create).
LEMMA PpcFurnished ==
  ASSUME PC!PpcCodeAssumption, NEW j, PpcOK(j, {}), \A c \in Blocks : ~ j.blk[c].keep, NEW v \in CodePage
  PROVE  \E b \in Blocks \ Els(j.tcbs) : PpcFoundOK(j, PC!Found(PC!tcb_alloc(j), v), b, v)
<1> DEFINE got == PC!tcb_alloc(j)
           a   == got.jit
           b   == got.block
<1>1. /\ PpcOK(a, {b}) /\ b \in Blocks /\ b \notin Els(j.tcbs)
      /\ a.blk = j.blk /\ a.tcbs = j.tcbs /\ a.slot = j.slot /\ a.blk[b] = PC!Idle
  BY PpcTcbAlloc
<1> DEFINE k1 == [a EXCEPT !.blk[b].start = v, !.blk[b].phys = Map[v]]
<1>2. PC!Found(got, v) = PC!Furnish(PC!exec_page_alloc(k1), b, v) BY DEF PC!Found
<1> HIDE DEF got, a, b
<1> DEFINE q1 == [PC!Idle EXCEPT !.start = v, !.phys = Map[v]]
           B1 == [a.blk EXCEPT ![b] = q1]
<1>3. a \in PpcJit /\ a.blk \in [Blocks -> PpcBlock] /\ DOMAIN a.blk = Blocks BY <1>1 DEF PpcOK, PpcJit
<1>4. k1 = [a EXCEPT !.blk = B1] BY <1>1, <1>3
<1>5. /\ q1 \in PpcBlock /\ q1.start = v /\ q1.phys = Map[v] /\ q1.buffer = None /\ q1.chunks = <<>>
      /\ q1.pos = 0 /\ ~ q1.keep /\ ~ q1.over
  <2>1. PC!Idle \in PpcBlock /\ Map[v] \in Phys BY PpcIdle DEF PC!PpcCodeAssumption
  <2> QED BY <2>1 DEF PpcBlock, PC!Idle
<1>6. B1 \in [Blocks -> PpcBlock] /\ B1[b] = q1 /\ \A c \in Blocks \ {b} : B1[c] = a.blk[c] BY <1>1, <1>3, <1>5
<1> HIDE DEF q1, B1, k1
<1>7. /\ k1 \in PpcJit /\ k1.pool = a.pool /\ k1.spare = a.spare /\ k1.tcbs = a.tcbs /\ k1.slot = a.slot
      /\ k1.phys = a.phys /\ k1.blk = B1
  BY <1>3, <1>4, <1>6 DEF PpcJit
<1>8. PpcOK(k1, {b})
  <2>1. a.blk[b].chunks = <<>> /\ a.blk[b].buffer = None BY <1>1 DEF PC!Idle
  <2>2. b \in {b} OBVIOUS
  <2> QED BY <1>1, <1>5, <1>6, <1>7, <2>1, <2>2, PpcTouchNew
<1>9. PpcWriting(k1, b, {b}) BY <1>1, <1>6, <1>7 DEF PpcWriting
<1>10. PC!Owned(k1, b) = <<>> /\ Len(PC!Owned(k1, b)) <= MaxFill
  BY <1>5, <1>6, <1>7 DEF PC!Owned, PC!PpcCodeAssumption
<1>11. PICK k : /\ PpcOK(k, {b}) /\ PpcLess(k1, k) /\ k.pool # <<>>
                /\ PC!exec_page_alloc(k1) = [jit |-> [k EXCEPT !.pool = Tail(@)], page |-> Head(k.pool)]
  BY <1>8, <1>9, <1>10, PpcAlloc
<1>12. PpcAfter(k1, k, b) /\ k.blk[b] = q1 /\ PC!Owned(k, b) = <<>>
  <2>1. PpcAfter(k1, k, b) /\ k.blk[b] = k1.blk[b] /\ PC!Owned(k, b) = PC!Owned(k1, b)
    BY <1>8, <1>9, <1>11, PpcLessAfter
  <2> QED BY <1>6, <1>7, <1>10, <2>1
<1> DEFINE m == [k EXCEPT !.pool = Tail(@)]
           p == Head(k.pool)
           l == [m EXCEPT !.blk[b].buffer = p, !.blk[b].ptr = p]
<1>13. k \in PpcJit /\ k.pool \in Seq(Exec) /\ Once(k.pool) BY <1>11 DEF PpcOK, PpcJit, PpcPages
<1>14. p \in Els(k.pool) /\ p \in Exec /\ Tail(k.pool) \in Seq(Exec) /\ p # None
  BY <1>11, <1>13, TailOnce, PpcIdle
<1>15. PC!Found(got, v) = IF v \in OnDevice THEN [jit |-> PC!tcb_free(l, b, FALSE), block |-> None]
                          ELSE [jit |-> l, block |-> b]
  <2> HIDE DEF m, p
  <2>1. PC!Found(got, v) = PC!Furnish([jit |-> m, page |-> p], b, v) BY <1>2, <1>11 DEF m, p
  <2> QED BY <1>14, <2>1 DEF PC!Furnish
<1>16. /\ m \in PpcJit /\ m.pool = Tail(k.pool) /\ m.spare = k.spare /\ m.tcbs = k.tcbs /\ m.slot = k.slot
       /\ m.phys = k.phys /\ m.blk = k.blk
  BY <1>13, <1>14 DEF PpcJit
<1> HIDE DEF m
<1> DEFINE q == [q1 EXCEPT !.buffer = p, !.ptr = p]
           B == [m.blk EXCEPT ![b] = q]
<1>17. m.blk \in [Blocks -> PpcBlock] /\ DOMAIN m.blk = Blocks /\ m.blk[b] = q1 BY <1>12, <1>16 DEF PpcJit
<1>18. /\ q \in PpcBlock /\ q.buffer = p /\ q.ptr = p /\ q.start = v /\ q.phys = Map[v] /\ q.chunks = <<>>
       /\ q.pos = 0 /\ ~ q.keep /\ ~ q.over
  <2> HIDE DEF p
  <2> QED BY <1>5, <1>14 DEF PpcBlock
<1>19. l = [m EXCEPT !.blk = B] BY <1>1, <1>17
<1>20. B \in [Blocks -> PpcBlock] /\ B[b] = q /\ \A c \in Blocks \ {b} : B[c] = k.blk[c] BY <1>1, <1>16, <1>17, <1>18
<1> HIDE DEF q, B, l, p
<1>21. /\ l \in PpcJit /\ l.pool = Tail(k.pool) /\ l.spare = k.spare /\ l.tcbs = k.tcbs /\ l.slot = k.slot
       /\ l.phys = k.phys /\ l.blk = B
  BY <1>16, <1>19, <1>20 DEF PpcJit
<1>22. PC!Owned(l, b) = <<p>>
  <2>1. Append(<<>>, p) = <<p>> OBVIOUS
  <2> QED BY <1>14, <1>18, <1>20, <1>21, <2>1 DEF PC!Owned
<1>23. Once(PC!Owned(l, b)) /\ Els(PC!Owned(l, b)) = Els(PC!Owned(k, b)) \cup {p}
  BY <1>12, <1>22 DEF Once, Els
<1>24. PpcOK(l, {b})
  <2>1. /\ l.blk[b].start = k.blk[b].start /\ l.blk[b].phys = k.blk[b].phys
        /\ l.blk[b].buffer # None /\ l.blk[b].ptr = l.blk[b].buffer /\ ~ l.blk[b].over
    BY <1>5, <1>12, <1>14, <1>18, <1>20, <1>21
  <2>2. \A c \in Blocks \ {b} : l.blk[c] = k.blk[c] BY <1>20, <1>21
  <2>3. b \in Els(k.tcbs) \cup {b} OBVIOUS
  <2> QED BY <1>1, <1>11, <1>21, <1>23, <2>1, <2>2, <2>3, PpcTake DEF p
<1>25. PpcAfter(j, l, b) BY <1>1, <1>6, <1>7, <1>12, <1>20, <1>21 DEF PpcAfter
<1>26. PpcGrown(l.blk[b], l.blk[b], 0)
  <2>1. l.blk[b] = q BY <1>20, <1>21
  <2>2. Len(q.chunks) + 0 = Len(q.chunks) /\ q.pos + 0 = q.pos BY <1>18
  <2> QED BY <1>14, <1>18, <2>1, <2>2 DEF PpcGrown
<1>27. CASE v \notin OnDevice
  <2>1. PC!Found(got, v) = [jit |-> l, block |-> b] BY <1>15, <1>27
  <2>2. l.blk[b] = q BY <1>20, <1>21
  <2>3. PpcFoundOK(j, PC!Found(got, v), b, v) BY <1>18, <1>24, <1>25, <1>26, <1>27, <2>1, <2>2 DEF PpcFoundOK
  <2> QED BY <1>1, <2>3 DEF got
<1>28. CASE v \in OnDevice
  <2> DEFINE x == PC!tcb_free(l, b, FALSE)
  <2>1. PC!Found(got, v) = [jit |-> x, block |-> None] BY <1>15, <1>28
  <2>2. PpcOK(x, {}) /\ x.blk = [l.blk EXCEPT ![b] = PC!Idle] /\ x.tcbs = l.tcbs /\ x.slot = l.slot
    BY <1>1, <1>24, PpcGiveUp
  <2> HIDE DEF x
  <2>3. x.blk[b] = PC!Idle /\ \A c \in Blocks \ {b} : x.blk[c] = l.blk[c]
    BY <1>1, <1>20, <1>21, <2>2
  <2>4. PpcAfter(j, x, b) BY <1>25, <2>2, <2>3 DEF PpcAfter
  <2> DEFINE made == PC!Found(got, v)
  <2>5. made.jit = x /\ made.block = None BY <2>1
  <2>a. PpcOK(x, {}) /\ x.blk[b] = PC!Idle BY <2>2, <2>3
  <2> HIDE DEF made
  <2>6. PpcFoundOK(j, made, b, v) BY <1>28, <2>a, <2>4, <2>5 DEF PpcFoundOK
  <2> QED BY <1>1, <2>6 DEF got, made
<1> QED BY <1>27, <1>28

\* A listed block is freed and its hash slot is emptied, whoever does it.
LEMMA PpcFreeing ==
  ASSUME NEW j, NEW X, PpcOK(j, X), NEW b \in Els(j.tcbs)
  PROVE  [PC!tcb_free(j, b, TRUE) EXCEPT !.slot[SlotOf[j.blk[b].start]] = None] = PC!Drop(j, b)
<1>1. j.slot[SlotOf[j.blk[b].start]] = b BY DEF PpcOK, PpcLinks, PpcListed
<1>2. DOMAIN j = {"pool", "blk", "spare", "tcbs", "slot", "phys", "method"} BY DEF PpcOK, PpcJit
<1> DEFINE u == [j EXCEPT !.tcbs = PC!RemoveFirst(@, b), !.phys = [s \in Slot |-> PC!RemoveFirst(@[s], b)]]
           f == PC!free_code_chunks(u, b)
<1>3. u.slot = j.slot /\ DOMAIN u = DOMAIN j BY <1>2
<1> HIDE DEF u
<1>4. f.slot = j.slot /\ DOMAIN f = DOMAIN j BY <1>2, <1>3 DEF PC!free_code_chunks
<1>5. PC!tcb_free(j, b, TRUE) = [f EXCEPT !.spare = <<b>> \o @, !.blk[b] = PC!Idle]
  BY DEF PC!tcb_free, u
<1> HIDE DEF f
<1>6. PC!tcb_free(j, b, TRUE).slot = j.slot BY <1>2, <1>4, <1>5
<1> DEFINE x == PC!tcb_free(j, b, TRUE)
<1> HIDE DEF x
<1>7. PC!Drop(j, b) = IF x.slot[SlotOf[j.blk[b].start]] = b THEN [x EXCEPT !.slot[SlotOf[j.blk[b].start]] = None] ELSE x
  BY DEF PC!Drop, PC!Unslot, x
<1> QED BY <1>1, <1>6, <1>7 DEF x

\* A block whose code is complete is listed, and its hash slot is filled.
PpcEnlists(l, x, b, v) ==
  /\ l.blk[b].buffer # None /\ l.blk[b].ptr = l.blk[b].buffer /\ ~ l.blk[b].over
  /\ l.blk[b].start = v /\ l.blk[b].phys = Map[v] /\ l.slot[SlotOf[v]] = None
  /\ x.pool = l.pool /\ x.spare = l.spare /\ x.tcbs = <<b>> \o l.tcbs
  /\ x.phys = [l.phys EXCEPT ![PhysSlotOf[Map[v]]] = <<b>> \o @]
  /\ x.slot = [l.slot EXCEPT ![SlotOf[v]] = b]
  /\ \A c \in Blocks \ {b} : x.blk[c] = l.blk[c]
  /\ x.blk[b].chunks = l.blk[b].chunks /\ x.blk[b].buffer = l.blk[b].buffer
  /\ x.blk[b].ptr = l.blk[b].ptr /\ x.blk[b].over = l.blk[b].over
  /\ x.blk[b].start = l.blk[b].start /\ x.blk[b].phys = l.blk[b].phys

\* The block is found like the others then.
LEMMA PpcEnlisted ==
  ASSUME PC!PpcCodeAssumption, NEW l, NEW b \in Blocks, PpcOK(l, {b}), NEW v \in CodePage,
         NEW x \in PpcJit, PpcEnlists(l, x, b, v)
  PROVE  PpcOK(x, {})
<1>0. /\ l.blk[b].buffer # None /\ l.blk[b].ptr = l.blk[b].buffer /\ ~ l.blk[b].over
      /\ l.blk[b].start = v /\ l.blk[b].phys = Map[v] /\ l.slot[SlotOf[v]] = None
      /\ x.pool = l.pool /\ x.spare = l.spare /\ x.tcbs = <<b>> \o l.tcbs
      /\ x.phys = [l.phys EXCEPT ![PhysSlotOf[Map[v]]] = <<b>> \o @]
      /\ x.slot = [l.slot EXCEPT ![SlotOf[v]] = b]
      /\ \A c \in Blocks \ {b} : x.blk[c] = l.blk[c]
      /\ x.blk[b].chunks = l.blk[b].chunks /\ x.blk[b].buffer = l.blk[b].buffer
      /\ x.blk[b].ptr = l.blk[b].ptr /\ x.blk[b].over = l.blk[b].over
      /\ x.blk[b].start = l.blk[b].start /\ x.blk[b].phys = l.blk[b].phys
  BY DEF PpcEnlists
<1> USE <1>0
<1>1. /\ l.tcbs \in Seq(Blocks) /\ Els(l.tcbs) \subseteq Blocks /\ l.phys \in [Slot -> Seq(Blocks)]
      /\ l.slot \in [Slot -> Blocks \cup {None}]
  <2>1. l.tcbs \in Seq(Blocks) /\ l.phys \in [Slot -> Seq(Blocks)] /\ l.slot \in [Slot -> Blocks \cup {None}]
    BY DEF PpcOK, PpcJit
  <2> QED BY <2>1, ElsAt
<1> DEFINE s == SlotOf[v]
           h == PhysSlotOf[Map[v]]
<1>2. s \in Slot /\ h \in Slot /\ None \notin Blocks BY PpcIdle DEF PC!PpcCodeAssumption
<1>3. b \notin Els(l.tcbs) /\ b \notin Els(l.spare) BY DEF PpcOK, PpcLists
<1>4. Once(x.tcbs) /\ Els(x.tcbs) = Els(l.tcbs) \cup {b} BY <1>1, <1>3, ConsOnce DEF PpcOK, PpcLists
<1>5. x.slot[s] = b /\ \A t \in Slot \ {s} : x.slot[t] = l.slot[t] BY <1>1, <1>2
<1>6. /\ Once(x.phys[h]) /\ Els(x.phys[h]) = Els(l.phys[h]) \cup {b}
      /\ \A t \in Slot \ {h} : x.phys[t] = l.phys[t]
  <2>1. x.phys[h] = <<b>> \o l.phys[h] /\ \A t \in Slot \ {h} : x.phys[t] = l.phys[t] BY <1>1, <1>2
  <2>2. l.phys[h] \in Seq(Blocks) /\ Once(l.phys[h]) /\ b \notin Els(l.phys[h])
    BY <1>1, <1>2, <1>3 DEF PpcOK, PpcLinks
  <2>3. Once(<<b>> \o l.phys[h]) /\ Els(<<b>> \o l.phys[h]) = Els(l.phys[h]) \cup {b} BY <2>2, ConsOnce
  <2> QED BY <2>1, <2>3
<1> HIDE DEF s, h
<1>7. PpcPages(x)
  <2>1. \A c \in Blocks : PC!Owned(x, c) = PC!Owned(l, c) BY DEF PC!Owned
  <2> QED BY <2>1 DEF PpcOK, PpcPages
<1>8. PpcLists(x, {}) BY <1>3, <1>4 DEF PpcOK, PpcLists
<1>9. PpcLinks(x)
  <2>1. ASSUME NEW c \in Els(x.tcbs) PROVE PpcListed(x, c)
    <3>1. CASE c = b BY <1>5, <1>6, <3>1 DEF PpcListed, s, h
    <3>2. CASE c # b
      <4>1. c \in Els(l.tcbs) /\ c \in Blocks /\ x.blk[c] = l.blk[c] BY <1>1, <1>4, <3>2
      <4>2. PpcListed(l, c) BY <4>1 DEF PpcOK, PpcLinks
      <4>3. SlotOf[l.blk[c].start] \in Slot /\ SlotOf[l.blk[c].start] # s
        BY <1>2, <4>1, <4>2 DEF PpcListed, PC!PpcCodeAssumption, s
      <4>4. PhysSlotOf[l.blk[c].phys] \in Slot BY <4>2 DEF PpcListed, PC!PpcCodeAssumption
      <4>5. c \in Els(x.phys[PhysSlotOf[l.blk[c].phys]]) BY <1>6, <4>2, <4>4 DEF PpcListed
      <4>6. x.slot[SlotOf[l.blk[c].start]] = c BY <1>5, <4>2, <4>3 DEF PpcListed
      <4>7. PpcListed(l, c) => PpcListed(x, c) BY ONLY <4>1, <4>5, <4>6 DEF PpcListed
      <4> QED BY <4>2, <4>7
    <3> QED BY <3>1, <3>2
  <2>2. ASSUME NEW t \in Slot, x.slot[t] # None
        PROVE  x.slot[t] \in Els(x.tcbs) /\ SlotOf[x.blk[x.slot[t]].start] = t
    <3>1. CASE t = s BY <1>4, <1>5, <3>1 DEF s
    <3>2. CASE t # s
      <4>1. x.slot[t] = l.slot[t] /\ l.slot[t] # None BY <1>5, <2>2, <3>2
      <4>2. l.slot[t] \in Els(l.tcbs) /\ SlotOf[l.blk[l.slot[t]].start] = t BY <4>1 DEF PpcOK, PpcLinks
      <4>3. x.blk[l.slot[t]] = l.blk[l.slot[t]] BY <1>1, <1>3, <4>2
      <4> QED BY <1>4, <4>1, <4>2, <4>3
    <3> QED BY <3>1, <3>2
  <2>3. ASSUME NEW t \in Slot PROVE Once(x.phys[t])
    BY <1>6 DEF PpcOK, PpcLinks
  <2>4. ASSUME NEW t \in Slot, NEW c \in Els(x.phys[t])
        PROVE  c \in Els(x.tcbs) /\ PhysSlotOf[x.blk[c].phys] = t
    <3>1. CASE c = b
      <4>1. t = h BY <1>3, <1>6, <3>1 DEF PpcOK, PpcLinks
      <4> QED BY <1>4, <3>1, <4>1 DEF h
    <3>2. CASE c # b
      <4>1. c \in Els(l.phys[t]) BY <1>6, <3>2
      <4>2. c \in Els(l.tcbs) /\ PhysSlotOf[l.blk[c].phys] = t BY <4>1 DEF PpcOK, PpcLinks
      <4> QED BY <1>1, <1>4, <3>2, <4>2
    <3> QED BY <3>1, <3>2
  <2> QED BY <2>1, <2>2, <2>3, <2>4 DEF PpcLinks
<1> QED BY <1>7, <1>8, <1>9 DEF PpcOK

\* The block of a physical page is found.
LEMMA PpcFindByPhys ==
  ASSUME PC!PpcCodeAssumption, NEW j, PpcOK(j, {}), NEW p \in Phys
  PROVE  LET b == PC!find_by_phys_page(j, p)
         IN  /\ b # None => b \in Els(j.tcbs) /\ j.blk[b].phys = p
             /\ \A c \in Els(j.tcbs) : j.blk[c].phys = p => b = c
<1> DEFINE h == PhysSlotOf[p]
           s == j.phys[h]
           T(c) == j.blk[c].phys = p
           i == PC!SelectInSeq(s, T)
<1>1. h \in Slot /\ s \in Seq(Blocks) BY DEF PC!PpcCodeAssumption, PpcOK, PpcJit
<1>2. /\ (i = 0 /\ \A m \in 1 .. Len(s) : ~ T(s[m])) \/ (i \in 1 .. Len(s) /\ T(s[i]))
  <2> DEFINE S == {m \in 1 .. Len(s) : T(s[m])}
  <2>0. i = IF S # {} THEN PC!Min(S) ELSE 0 BY DEF PC!SelectInSeq
  <2>1. CASE S = {} BY <2>0, <2>1
  <2>2. CASE S # {}
    <3>1. S \subseteq Nat OBVIOUS
    <3>2. PICK x \in S : \A y \in S : x <= y BY <2>2, <3>1, LeastNat
    <3>3. PC!Min(S) \in S BY <3>2 DEF PC!Min
    <3>4. i \in S BY <2>0, <2>2, <3>3
    <3> QED BY <3>4
  <2> QED BY <2>1, <2>2
<1>3. PC!find_by_phys_page(j, p) = IF i = 0 THEN None ELSE s[i] BY DEF PC!find_by_phys_page
<1> HIDE DEF i
<1>4. DOMAIN s = 1 .. Len(s) /\ \A m \in 1 .. Len(s) : s[m] \in Els(s) BY <1>1, ElsAt
<1>5. \A c \in Els(s) : \E m \in 1 .. Len(s) : s[m] = c BY <1>1, ElsAt
<1>6. \A c \in Els(s) : c \in Els(j.tcbs) BY <1>1 DEF PpcOK, PpcLinks
<1>7. \A c \in Els(j.tcbs) : T(c) => c \in Els(s) BY DEF PpcOK, PpcLinks, PpcListed
<1>8. \A c, d \in Els(j.tcbs) : T(c) /\ T(d) => c = d
  BY DEF PpcOK, PpcLinks, PpcListed, PC!PpcCodeAssumption
<1>9. None \notin Els(j.tcbs)
  <2>1. Els(j.tcbs) \subseteq Blocks BY ElsAt DEF PpcOK, PpcJit
  <2> QED BY <2>1, PpcIdle
<1>10. CASE i = 0 BY <1>2, <1>3, <1>5, <1>7, <1>10
<1>11. CASE i # 0 BY <1>2, <1>3, <1>4, <1>6, <1>8, <1>11
<1> QED BY <1>10, <1>11

\* No code comes about when blocks are flushed while one that is not listed is made,
LEMMA PpcAfterKeeps ==
  ASSUME PC!PpcCodeAssumption, NEW j, NEW X, PpcOK(j, X), NEW k, NEW b, PpcAfter(j, k, b), b \notin Els(j.tcbs)
  PROVE  Keeps(j, k)
<1>1. Els(j.tcbs) \subseteq Blocks
  <2>1. j.tcbs \in Seq(Blocks) BY DEF PpcOK, PpcJit
  <2> QED BY <2>1, ElsAt
<1>2. ASSUME NEW s \in Slot, k.slot[s] # None
      PROVE  k.slot[s] = j.slot[s] /\ k.blk[j.slot[s]] = j.blk[j.slot[s]]
  <2>1. k.slot[s] = j.slot[s] /\ j.slot[s] # None /\ j.slot[s] \notin Els(j.tcbs) \ Els(k.tcbs)
    BY <1>2 DEF PpcAfter
  <2>2. j.slot[s] \in Els(j.tcbs) BY <2>1 DEF PpcOK, PpcLinks
  <2> QED BY <1>1, <2>1, <2>2 DEF PpcAfter
<1>3. SlotsKept(j, k) BY <1>2 DEF SlotsKept, SlotKept
<1> QED BY <1>3, Kept

\* when a block is freed,
LEMMA PpcDropKeeps ==
  ASSUME PC!PpcCodeAssumption, NEW j, NEW X, PpcOK(j, X), NEW b \in Els(j.tcbs)
  PROVE  Keeps(j, PC!Drop(j, b))
<1> DEFINE k == PC!Drop(j, b)
<1>1. /\ k.blk = [j.blk EXCEPT ![b] = PC!Idle]
      /\ \A s \in Slot : k.slot[s] = IF j.slot[s] = b THEN None ELSE j.slot[s]
  BY PpcDropOK
<1> HIDE DEF k
<1>2. j.tcbs \in Seq(Blocks) /\ j.blk \in [Blocks -> PpcBlock] BY DEF PpcOK, PpcJit
<1>3. Els(j.tcbs) \subseteq Blocks BY <1>2, ElsAt
<1>4. ASSUME NEW s \in Slot, k.slot[s] # None
      PROVE  k.slot[s] = j.slot[s] /\ k.blk[j.slot[s]] = j.blk[j.slot[s]]
  <2>1. k.slot[s] = j.slot[s] /\ j.slot[s] # b /\ j.slot[s] # None BY <1>1, <1>4
  <2>2. j.slot[s] \in Els(j.tcbs) BY <2>1 DEF PpcOK, PpcLinks
  <2> QED BY <1>1, <1>2, <1>3, <2>1, <2>2
<1>5. SlotsKept(j, k) BY <1>4 DEF SlotsKept, SlotKept
<1>6. Keeps(j, k) BY <1>5, Kept
<1> QED BY <1>6 DEF k

\* and when one that was made is found from now on.
LEMMA PpcEnlistedKeeps ==
  ASSUME PC!PpcCodeAssumption, NEW l, NEW b \in Blocks, PpcOK(l, {b}), NEW v \in CodePage,
         NEW x \in PpcJit, PpcEnlists(l, x, b, v), x.blk[b].image = mem[Map[v]]
  PROVE  Keeps(l, x)
<1> SUFFICES ASSUME NEW w \in CodePage
             PROVE  CodeOf(x, w) \subseteq CodeOf(l, w) \cup {mem[Map[w]]}
  BY DEF Keeps
<1>1. /\ SlotOf[w] \in Slot /\ SlotOf[v] \in Slot /\ l.slot \in [Slot -> Blocks \cup {None}]
      /\ l.tcbs \in Seq(Blocks)
  BY DEF PC!PpcCodeAssumption, PpcOK, PpcJit
<1>2. /\ x.slot = [l.slot EXCEPT ![SlotOf[v]] = b] /\ x.blk[b].start = v
      /\ \A c \in Blocks \ {b} : x.blk[c] = l.blk[c]
  BY DEF PpcEnlists
<1>3. CASE SlotOf[w] = SlotOf[v]
  <2>1. x.slot[SlotOf[w]] = b BY <1>1, <1>2, <1>3
  <2> QED BY <1>2, <2>1 DEF CodeOf
<1>4. CASE SlotOf[w] # SlotOf[v]
  <2> DEFINE d == l.slot[SlotOf[w]]
  <2>1. x.slot[SlotOf[w]] = d BY <1>1, <1>2, <1>4
  <2>2. CASE d = None BY <2>1, <2>2 DEF CodeOf
  <2>3. CASE d # None
    <3>1. d \in Els(l.tcbs) BY <1>1, <2>3 DEF PpcOK, PpcLinks
    <3>2. d \in Blocks /\ d # b BY <1>1, <3>1, ElsAt DEF PpcOK, PpcLists
    <3>3. x.blk[d] = l.blk[d] BY <1>2, <3>2
    <3> QED BY <2>1, <3>3 DEF CodeOf
  <2> QED BY <2>2, <2>3
<1> QED BY <1>3, <1>4

\* Between two steps: nothing is being made or protected, and the pages of the
\* code that runs belong to no other block.
PpcRest(j) == PpcOK(j, {}) /\ \A b \in Blocks : ~ j.blk[b].keep
PpcRuns(j, r) == r # None => \A c \in Els(j.tcbs) : c # r.block => PC!Pages(j, c) \cap r.pages = {}
PpcCodeInv == PpcRest(jit) /\ mem \in [Phys -> Images] /\ PpcRuns(jit, running)

\* A block that is freed between two steps leaves them so.
LEMMA PpcRestDrop ==
  ASSUME PC!PpcCodeAssumption, NEW j, PpcRest(j), NEW b \in Els(j.tcbs)
  PROVE  PpcRest(PC!Drop(j, b))
<1> DEFINE k == PC!Drop(j, b)
<1>1. PpcOK(k, {}) /\ k.blk = [j.blk EXCEPT ![b] = PC!Idle] BY PpcDropOK DEF PpcRest
<1> HIDE DEF k
<1>2. j.blk \in [Blocks -> PpcBlock] /\ ~ PC!Idle.keep BY DEF PpcRest, PpcOK, PpcJit, PC!Idle
<1> QED BY <1>1, <1>2 DEF PpcRest, k

\* The slot of a page is emptied for its block.
LEMMA PpcEvict ==
  ASSUME PC!PpcCodeAssumption, NEW j, PpcRest(j), NEW s \in Slot
  PROVE  PpcRest(PC!Evict(j, s)) /\ PC!Evict(j, s).slot[s] = None /\ Keeps(j, PC!Evict(j, s))
<1>1. CASE j.slot[s] = None BY <1>1, KeepsSelf DEF PC!Evict
<1>2. CASE j.slot[s] # None
  <2> DEFINE b == j.slot[s]
             k == PC!Drop(j, b)
  <2>1. b \in Els(j.tcbs) /\ SlotOf[j.blk[b].start] = s BY <1>2 DEF PpcRest, PpcOK, PpcLinks
  <2>2. PC!Evict(j, s) = k BY <1>2, <2>1, PpcFreeing DEF PC!Evict, PpcRest
  <2>a. PpcOK(j, {}) /\ b \in Els(j.tcbs) BY <2>1 DEF PpcRest
  <2> HIDE DEF b
  <2>3. \A t \in Slot : k.slot[t] = IF j.slot[t] = b THEN None ELSE j.slot[t]
    BY <2>a, PpcDropOK
  <2>4. k.slot[s] = None BY <2>3 DEF b
  <2>5. Keeps(j, k) BY <2>a, PpcDropKeeps
  <2> HIDE DEF k
  <2> QED BY <2>1, <2>2, <2>4, <2>5, PpcRestDrop DEF k
<1> QED BY <1>1, <1>2

\* A page that has no block is compiled: its block is complete, listed, found, and
\* has an entry where the CPU is.
LEMMA PpcCompiled ==
  ASSUME PC!PpcCodeAssumption, mem \in [Phys -> Images], NEW j, PpcRest(j), NEW v \in CodePage,
         NEW o \in Places, NEW n \in 0 .. MaxFill, j.slot[SlotOf[v]] = None
  PROVE  LET made == PC!tcb_compile(j, v, o, n)
             c    == PC!Count(made.jit, SlotOf[v], made.block)
         IN  /\ made.block = None => PpcRest(made.jit) /\ Keeps(j, made.jit)
             /\ made.block # None =>
                  /\ PpcRest(c) /\ Keeps(j, c) /\ made.block \in Els(c.tcbs) /\ o \in c.blk[made.block].points
                  /\ c.blk[made.block].start = v
<1> DEFINE made == PC!tcb_compile(j, v, o, n)
<1>1. CASE v \in Untranslated
  <2>1. PC!tcb_create(j, v) = [jit |-> j, block |-> None] BY <1>1 DEF PC!tcb_create
  <2>2. made = [jit |-> j, block |-> None] BY <2>1 DEF PC!tcb_compile, PC!Finish
  <2> HIDE DEF made
  <2> QED BY <2>2, KeepsSelf DEF made
<1>2. CASE v \notin Untranslated
  <2> DEFINE new == PC!Found(PC!tcb_alloc(j), v)
  <2>1. PC!tcb_create(j, v) = new BY <1>2 DEF PC!tcb_create
  <2>2. made = PC!Finish(new, o, n) BY <2>1 DEF PC!tcb_compile
  <2>3. PICK b \in Blocks \ Els(j.tcbs) : PpcFoundOK(j, new, b, v) BY PpcFurnished DEF PpcRest
  <2> HIDE DEF new
  <2>a. None \notin Blocks /\ ~ PC!Idle.keep BY PpcIdle DEF PC!Idle
  <2>4. CASE v \in OnDevice
    <3>1. new.block = None /\ made = new BY <2>2, <2>3, <2>4 DEF PpcFoundOK, PC!Finish
    <3>2. PpcOK(new.jit, {}) /\ new.jit.blk[b] = PC!Idle /\ PpcAfter(j, new.jit, b)
      BY <2>3, <2>4 DEF PpcFoundOK
    <3>3. PpcRest(new.jit) BY <2>a, <3>2 DEF PpcRest, PpcAfter
    <3>4. Keeps(j, new.jit) BY <3>2, PpcAfterKeeps DEF PpcRest
    <3> HIDE DEF made
    <3> QED BY <3>1, <3>3, <3>4 DEF made
  <2>5. CASE v \notin OnDevice
    <3> DEFINE k == new.jit
               l == PC!gen_page(k, b, o, n)
    <3>1. /\ new.block = b /\ PpcAfter(j, k, b)
          /\ PpcOK(k, {b}) /\ PpcGrown(k.blk[b], k.blk[b], 0)
          /\ k.blk[b].start = v /\ k.blk[b].phys = Map[v] /\ k.blk[b].chunks = <<>>
          /\ k.blk[b].pos = 0 /\ ~ k.blk[b].keep
      BY <2>3, <2>5 DEF PpcFoundOK
    <3> HIDE DEF k
    <3>2. PpcWriting(k, b, {b}) BY <2>a, <3>1 DEF PpcWriting, PpcRest, PpcAfter
    <3>3. k.blk[b].pos + n <= MaxChunks /\ k.blk[b].phys \in Phys BY <3>1 DEF PC!PpcCodeAssumption
    <3>4. PpcOK(l, {b}) /\ PpcAfter(k, l, b) /\ PpcMade(k.blk[b], l.blk[b], o) BY <3>1, <3>2, <3>3, PpcGen
    <3>5. made = PC!Enlist(l, b) BY <2>a, <2>2, <3>1 DEF PC!Finish, k
    <3> HIDE DEF l, made
    <3>6. /\ l \in PpcJit /\ l.tcbs \in Seq(Blocks) /\ l.phys \in [Slot -> Seq(Blocks)]
          /\ l.slot \in [Slot -> Blocks \cup {None}] /\ l.blk \in [Blocks -> PpcBlock]
      BY <3>4 DEF PpcOK, PpcJit
    <3> DEFINE s == SlotOf[v]
               h == PhysSlotOf[Map[v]]
               T == <<b>> \o l.tcbs
               P == [l.phys EXCEPT ![h] = <<b>> \o @]
               e == [l EXCEPT !.tcbs = T, !.phys = P]
    <3>7. s \in Slot /\ h \in Slot BY DEF PC!PpcCodeAssumption
    <3>8. l.blk[b].phys = Map[v] /\ l.blk[b].start = v BY <3>1, <3>4 DEF PpcMade
    <3>9. made = [jit |-> e, block |-> b]
      <4>1. made = [ jit |-> [l EXCEPT !.tcbs = <<b>> \o @, !.phys[h] = <<b>> \o @], block |-> b ]
        BY <3>5, <3>8 DEF PC!Enlist
      <4>2. [l EXCEPT !.tcbs = <<b>> \o @, !.phys[h] = <<b>> \o @] = e BY <3>6 DEF PpcJit
      <4> QED BY <4>1, <4>2
    <3>10. T \in Seq(Blocks) /\ P \in [Slot -> Seq(Blocks)]
      <4>1. <<b>> \o l.phys[h] \in Seq(Blocks) BY <3>6, <3>7
      <4> QED BY <3>6, <3>7, <4>1
    <3> HIDE DEF T, P
    <3>11. /\ e \in PpcJit /\ e.pool = l.pool /\ e.blk = l.blk /\ e.spare = l.spare /\ e.tcbs = T
           /\ e.slot = l.slot /\ e.phys = P
      BY <3>6, <3>10 DEF PpcJit
    <3> HIDE DEF e
    <3> DEFINE S == [e.slot EXCEPT ![s] = b]
               a == IF l.blk[b].acc > Threshold THEN l.blk[b].acc ELSE l.blk[b].acc + 1
               q == [l.blk[b] EXCEPT !.acc = a]
               B == [l.blk EXCEPT ![b] = q]
               x == [e EXCEPT !.slot = S, !.blk = B]
    <3>12. PC!Count(e, s, b) = x
      <4>1. PC!Count(e, s, b) = [e EXCEPT !.slot[s] = b, !.blk[b].acc = a] BY <3>6, <3>11 DEF PC!Count
      <4> HIDE DEF a
      <4> QED BY <3>6, <3>11, <4>1
    <3>13. a \in Nat /\ l.blk[b] \in PpcBlock BY <3>6 DEF PpcBlock
    <3>14. /\ q \in PpcBlock /\ q.chunks = l.blk[b].chunks /\ q.buffer = l.blk[b].buffer /\ q.ptr = l.blk[b].ptr
           /\ q.over = l.blk[b].over /\ q.start = l.blk[b].start /\ q.phys = l.blk[b].phys
           /\ q.keep = l.blk[b].keep /\ q.points = l.blk[b].points /\ q.image = l.blk[b].image
      <4> HIDE DEF a
      <4> QED BY <3>13 DEF PpcBlock
    <3>15. /\ B \in [Blocks -> PpcBlock] /\ B[b] = q /\ \A c \in Blocks \ {b} : B[c] = l.blk[c]
           /\ S \in [Slot -> Blocks \cup {None}]
      BY <3>6, <3>7, <3>11, <3>14
    <3>16. S = [l.slot EXCEPT ![s] = b] BY <3>11
    <3> HIDE DEF S, q, B, s, h
    <3>17. /\ x \in PpcJit /\ x.pool = l.pool /\ x.spare = l.spare /\ x.tcbs = T /\ x.phys = P
           /\ x.slot = S /\ x.blk = B
      BY <3>11, <3>15 DEF PpcJit
    <3> HIDE DEF x
    <3>18. l.slot[s] = None BY <3>1, <3>4, <3>7 DEF PpcAfter, s
    <3>19. PpcEnlists(l, x, b, v) /\ b \in Blocks /\ x \in PpcJit
      <4>1. /\ x.blk[b].chunks = l.blk[b].chunks /\ x.blk[b].buffer = l.blk[b].buffer
            /\ x.blk[b].ptr = l.blk[b].ptr /\ x.blk[b].over = l.blk[b].over
            /\ x.blk[b].start = l.blk[b].start /\ x.blk[b].phys = l.blk[b].phys
            /\ \A c \in Blocks \ {b} : x.blk[c] = l.blk[c]
        BY <3>14, <3>15, <3>17
      <4>2. l.blk[b].buffer # None /\ l.blk[b].ptr = l.blk[b].buffer /\ ~ l.blk[b].over
        BY <3>4 DEF PpcMade
      <4>3. x.tcbs = <<b>> \o l.tcbs /\ x.phys = [l.phys EXCEPT ![PhysSlotOf[Map[v]]] = <<b>> \o @]
            /\ x.slot = [l.slot EXCEPT ![SlotOf[v]] = b] /\ l.slot[SlotOf[v]] = None
        BY <3>16, <3>17, <3>18 DEF T, P, s, h
      <4>4. b \in Blocks /\ x \in PpcJit /\ x.pool = l.pool /\ x.spare = l.spare BY <3>17
      <4>5. PpcOK(l, {b}) /\ l.blk[b].start = v /\ l.blk[b].phys = Map[v] BY <3>4, <3>8
      <4>6. PpcEnlists(l, x, b, v) BY ONLY <4>1, <4>2, <4>3, <4>4, <4>5 DEF PpcEnlists
      <4> QED BY <4>4, <4>6
    <3>a. PpcOK(x, {})
      <4>1. PpcOK(l, {b}) BY <3>4
      <4> QED BY ONLY PC!PpcCodeAssumption, v \in CodePage, <3>19, <4>1, PpcEnlisted
    <3>b. Keeps(j, x)
      <4>1. Keeps(j, k) BY <3>1, PpcAfterKeeps DEF PpcRest
      <4>2. b \notin Els(k.tcbs) BY <3>1 DEF PpcAfter
      <4>3. Keeps(k, l) BY <3>1, <3>4, <4>2, PpcAfterKeeps
      <4>4. x.blk[b].image = mem[Map[v]] BY <3>1, <3>4, <3>14, <3>15, <3>17 DEF PpcMade
      <4>5. Keeps(l, x) BY <3>4, <3>19, <4>4, PpcEnlistedKeeps
      <4> QED BY <4>1, <4>3, <4>5, KeepsTwice
    <3>20. \A c \in Blocks : ~ x.blk[c].keep
      <4>1. ~ l.blk[b].keep BY <3>1, <3>4 DEF PpcMade
      <4>2. \A c \in Blocks \ {b} : ~ l.blk[c].keep BY <2>a, <3>1, <3>4 DEF PpcAfter, PpcRest
      <4> QED BY <3>14, <3>15, <3>17, <4>1, <4>2
    <3>21. b \in Els(x.tcbs) BY <3>6, <3>17, ConsOnce DEF T
    <3>22. o \in x.blk[b].points /\ x.blk[b].start = v BY <3>4, <3>8, <3>14, <3>15, <3>17 DEF PpcMade
    <3>23. made.block = b /\ made.jit = e BY <3>9
    <3>24. PC!Count(made.jit, SlotOf[v], made.block) = x BY <3>12, <3>23 DEF s
    <3> QED BY <2>a, <3>a, <3>b, <3>20, <3>21, <3>22, <3>23, <3>24 DEF PpcRest, made
  <2> QED BY <2>4, <2>5
<1> QED BY <1>1, <1>2

\* A block is compiled once more: it gives its pages back, gets the last of them
\* again, and stays listed while others may be flushed.
LEMMA PpcRecompiled ==
  ASSUME PC!PpcCodeAssumption, mem \in [Phys -> Images], NEW j, PpcRest(j), NEW b \in Els(j.tcbs),
         NEW o \in Places, NEW n \in 0 .. MaxFill, j.blk[b].pos + n <= MaxChunks
  PROVE  LET k == PC!tcb_recompile(j, b, o, n)
         IN  PpcRest(k) /\ b \in Els(k.tcbs) /\ Keeps(j, k)
<1>1. /\ PpcOK(j, {}) /\ j \in PpcJit /\ j.pool \in Seq(Exec) /\ j.tcbs \in Seq(Blocks) /\ b \in Blocks
      /\ j.blk \in [Blocks -> PpcBlock] /\ j.blk[b] \in PpcBlock
  <2>1. /\ PpcOK(j, {}) /\ j \in PpcJit /\ j.pool \in Seq(Exec) /\ j.tcbs \in Seq(Blocks)
        /\ j.blk \in [Blocks -> PpcBlock]
    BY DEF PpcRest, PpcOK, PpcJit
  <2> QED BY <2>1, ElsAt
<1>2. PpcListed(j, b) /\ ~ j.blk[b].keep BY <1>1 DEF PpcRest, PpcOK, PpcLinks
<1> DEFINE c == j.blk[b].chunks
           p == j.blk[b].buffer
           w == Append(c, p)
           O == Backwards(w) \o j.pool
<1>3. c \in Seq(Exec) /\ p \in Exec /\ p # None /\ j.blk[b].ptr = p BY <1>1, <1>2 DEF PpcListed, PpcBlock
<1>4. PC!Owned(j, b) = w BY <1>3 DEF PC!Owned
<1>5. /\ w \in Seq(Exec) /\ w # <<>> /\ w[Len(w)] = p /\ Once(w) /\ Els(w) = Els(c) \cup {p}
      /\ Once(c) /\ p \notin Els(c) /\ Els(w) \cap Els(j.pool) = {} /\ Once(j.pool)
  <2>1. Once(w) /\ Els(w) \cap Els(j.pool) = {} /\ Once(j.pool) BY <1>1, <1>4 DEF PpcOK, PpcPages
  <2>2. Len(w) = Len(c) + 1 /\ Len(c) \in Nat /\ w[Len(c) + 1] = p BY <1>3, AppendIs
  <2>3. w # <<>> BY <2>2
  <2> QED BY <1>3, <2>1, <2>2, <2>3, AppendOnce
<1> HIDE DEF w
<1>6. /\ O \in Seq(Exec) /\ O # <<>> /\ Head(O) = p /\ Tail(O) \in Seq(Exec) /\ Once(Tail(O))
      /\ Els(Tail(O)) = Els(c) \cup Els(j.pool)
  <2> DEFINE r == Backwards(w)
  <2>1. r \in Seq(Exec) /\ Els(r) = Els(w) /\ Len(r) = Len(w) /\ Once(r) /\ r[1] = p BY <1>5, BackwardsOnce
  <2>2. Len(w) \in Nat /\ Len(w) # 0 BY <1>5
  <2> HIDE DEF r
  <2>3. O \in Seq(Exec) /\ Els(O) = Els(w) \cup Els(j.pool) /\ Once(O) BY <1>1, <1>5, <2>1, CatOnce DEF r
  <2>4. O # <<>> /\ Head(O) = p
    <3>1. Len(r) > 0 /\ Len(r) \in Nat BY <2>1, <2>2
    <3>2. O = r \o j.pool BY DEF r
    <3> HIDE DEF O
    <3> QED BY <1>1, <2>1, <3>1, <3>2
  <2> HIDE DEF O
  <2>5. p \notin Els(j.pool) BY <1>5
  <2> QED BY <1>5, <2>3, <2>4, <2>5, TailOnce
<1> HIDE DEF O
<1> DEFINE q1 == [j.blk[b] EXCEPT !.chunks = <<>>, !.buffer = None, !.points = {}]
           B1 == [j.blk EXCEPT ![b] = q1]
           g == [j EXCEPT !.pool = O, !.blk = B1]
           q == [j.blk[b] EXCEPT !.chunks = <<>>, !.buffer = p, !.points = {}, !.keep = TRUE]
           B == [j.blk EXCEPT ![b] = q]
           h == [j EXCEPT !.pool = Tail(O), !.blk = B]
<1>7. [PC!free_code_chunks(j, b) EXCEPT !.blk[b].points = {}] = g
  <2>1. PC!free_code_chunks(j, b) = [j EXCEPT !.pool = O, !.blk[b].chunks = <<>>, !.blk[b].buffer = None]
    <3>1. PC!free_code_chunks(j, b) =
            [j EXCEPT !.pool = Backwards(PC!Owned(j, b)) \o @, !.blk[b].chunks = <<>>, !.blk[b].buffer = None]
      BY DEF PC!free_code_chunks, PC!exec_page_free, PC!Reverse, Backwards
    <3> QED BY <1>1, <1>4, <3>1 DEF O
  <2> DEFINE f == [j EXCEPT !.pool = O, !.blk[b].chunks = <<>>, !.blk[b].buffer = None]
             q0 == [j.blk[b] EXCEPT !.chunks = <<>>, !.buffer = None]
             B0 == [j.blk EXCEPT ![b] = q0]
  <2>2. DOMAIN j = {"pool", "blk", "spare", "tcbs", "slot", "phys", "method"} /\ DOMAIN j.blk = Blocks
    BY <1>1 DEF PpcJit
  <2>3. f = [j EXCEPT !.pool = O, !.blk = B0] BY <1>1, <2>2
  <2>4. B0[b] = q0 /\ DOMAIN B0 = Blocks /\ [B0 EXCEPT ![b] = q1] = B1 BY <1>1, <2>2
  <2>5. [q0 EXCEPT !.points = {}] = q1 BY <1>1 DEF PpcBlock
  <2>6. [B0 EXCEPT ![b].points = {}] = B1 BY <2>4, <2>5
  <2> HIDE DEF B0, B1, f
  <2>7. f.blk = B0 /\ DOMAIN f = DOMAIN j BY <2>2, <2>3
  <2>8. [f EXCEPT !.blk[b].points = {}] = [f EXCEPT !.blk = B1] BY <2>2, <2>6, <2>7
  <2>9. [f EXCEPT !.blk = B1] = g BY <2>2, <2>3
  <2> QED BY <2>1, <2>8, <2>9 DEF f
<1>8. DOMAIN j = {"pool", "blk", "spare", "tcbs", "slot", "phys", "method"} /\ DOMAIN j.blk = Blocks
  BY <1>1 DEF PpcJit
<1>9. g.pool = O /\ g.blk = B1 /\ DOMAIN g = DOMAIN j
  <2> HIDE DEF B1
  <2> QED BY <1>8
<1>10. PC!exec_page_alloc(g) = [jit |-> [g EXCEPT !.pool = Tail(@)], page |-> p]
  <2> HIDE DEF g
  <2> QED BY <1>6, <1>9 DEF PC!exec_page_alloc, PC!Pop
<1> DEFINE x == [g EXCEPT !.pool = Tail(@)]
<1>11. x = [j EXCEPT !.pool = Tail(O), !.blk = B1]
  <2> HIDE DEF B1
  <2> QED BY <1>8
<1>12. [x EXCEPT !.blk[b].buffer = p, !.blk[b].keep = TRUE] = h
  <2>1. B1[b] = q1 /\ DOMAIN B1 = Blocks BY <1>1, <1>8
  <2>2. [q1 EXCEPT !.buffer = p, !.keep = TRUE] = q BY <1>1 DEF PpcBlock
  <2>3. [B1 EXCEPT ![b] = q] = B BY <1>1, <1>8
  <2> HIDE DEF q1, q
  <2>4. [B1 EXCEPT ![b].buffer = p, ![b].keep = TRUE] = B BY <1>1, <2>1, <2>2, <2>3
  <2> HIDE DEF B1, B, x
  <2>5. x.blk = B1 /\ DOMAIN x = DOMAIN j BY <1>8, <1>11
  <2>6. [x EXCEPT !.blk[b].buffer = p, !.blk[b].keep = TRUE]
          = [x EXCEPT !.blk = [B1 EXCEPT ![b].buffer = p, ![b].keep = TRUE]]
    BY <1>8, <2>5
  <2>7. [x EXCEPT !.blk = B] = h BY <1>8, <1>11
  <2> QED BY <2>4, <2>6, <2>7
<1>13. PC!tcb_recompile(j, b, o, n) = [PC!gen_page(h, b, o, n) EXCEPT !.blk[b].keep = FALSE, !.blk[b].undef = 0]
  <2> HIDE DEF g, h
  <2>1. PC!tcb_recompile(j, b, o, n) = PC!Renew([jit |-> x, page |-> p], b, o, n)
    BY <1>7, <1>10 DEF PC!tcb_recompile
  <2> HIDE DEF x
  <2> QED BY <1>3, <1>12, <2>1 DEF PC!Renew
<1>14. /\ q \in PpcBlock /\ q.chunks = <<>> /\ q.buffer = p /\ q.ptr = p /\ ~ q.over /\ q.pos = j.blk[b].pos
       /\ q.start = j.blk[b].start /\ q.phys = j.blk[b].phys /\ q.keep
  <2>1. <<>> \in Seq(Exec) /\ {} \in SUBSET Places OBVIOUS
  <2> HIDE DEF p
  <2>2. q \in PpcBlock BY <1>1, <1>3, <2>1 DEF PpcBlock
  <2>3. /\ q.chunks = <<>> /\ q.buffer = p /\ q.ptr = p /\ ~ q.over /\ q.pos = j.blk[b].pos
        /\ q.start = j.blk[b].start /\ q.phys = j.blk[b].phys /\ q.keep
    BY <1>1, <1>2, <1>3 DEF PpcBlock, PpcListed
  <2> QED BY <2>2, <2>3
<1>15. B \in [Blocks -> PpcBlock] /\ B[b] = q /\ \A d \in Blocks \ {b} : B[d] = j.blk[d] BY <1>1, <1>14
<1> HIDE DEF q, B
<1>16. /\ h \in PpcJit /\ h.pool = Tail(O) /\ h.blk = B /\ h.spare = j.spare /\ h.tcbs = j.tcbs
       /\ h.slot = j.slot /\ h.phys = j.phys
  BY <1>1, <1>6, <1>15 DEF PpcJit
<1> HIDE DEF h
<1>17. PC!Owned(h, b) = <<p>>
  <2>1. Append(<<>>, p) = <<p>> OBVIOUS
  <2> QED BY <1>3, <1>14, <1>15, <1>16, <2>1 DEF PC!Owned
<1>18. PpcPages(h)
  <2>0. Els(<<p>>) = {p} /\ Once(<<p>>) BY DEF Els, Once
  <2>1. \A d \in Blocks \ {b} : PC!Owned(h, d) = PC!Owned(j, d) BY <1>15, <1>16 DEF PC!Owned
  <2>2. \A d \in Blocks \ {b} : Els(PC!Owned(j, d)) \cap Els(w) = {} BY <1>1, <1>4 DEF PpcOK, PpcPages
  <2>3. \A d \in Blocks : Once(PC!Owned(h, d)) /\ Els(PC!Owned(h, d)) \cap Els(h.pool) = {}
    BY <1>1, <1>5, <1>6, <1>16, <1>17, <2>0, <2>1, <2>2 DEF PpcOK, PpcPages
  <2>4. ASSUME NEW d \in Blocks, NEW e \in Blocks, d # e PROVE Els(PC!Owned(h, d)) \cap Els(PC!Owned(h, e)) = {}
    BY <1>1, <1>5, <1>17, <2>0, <2>1, <2>2, <2>4 DEF PpcOK, PpcPages
  <2>5. ASSUME NEW y \in Exec PROVE y \in Els(h.pool) \/ \E d \in Blocks : y \in Els(PC!Owned(h, d))
    <3>1. y \in Els(j.pool) \/ \E d \in Blocks : y \in Els(PC!Owned(j, d)) BY <1>1 DEF PpcOK, PpcPages
    <3>2. CASE y \in Els(w) BY <1>1, <1>5, <1>6, <1>16, <1>17, <2>0, <3>2
    <3>3. CASE y \notin Els(w) BY <1>4, <1>6, <1>16, <2>1, <3>1, <3>3
    <3> QED BY <3>2, <3>3
  <2> QED BY <1>6, <1>16, <2>3, <2>4, <2>5 DEF PpcPages
<1>19. PpcLists(h, {}) BY <1>1, <1>15, <1>16 DEF PpcOK, PpcLists
<1>20. PpcLinks(h)
  <2>1. Els(j.tcbs) \subseteq Blocks BY <1>1, ElsAt
  <2>2. \A d \in Blocks : h.blk[d].start = j.blk[d].start /\ h.blk[d].phys = j.blk[d].phys
    BY <1>14, <1>15, <1>16
  <2>3. ASSUME NEW d \in Els(h.tcbs) PROVE PpcListed(h, d)
    <3>1. PpcListed(j, d) /\ d \in Blocks BY <1>1, <1>16, <2>1 DEF PpcOK, PpcLinks
    <3>2. CASE d = b BY <1>3, <1>14, <1>15, <1>16, <3>1, <3>2 DEF PpcListed
    <3>3. CASE d # b BY <1>15, <1>16, <3>1, <3>3 DEF PpcListed
    <3> QED BY <3>2, <3>3
  <2> QED BY <1>1, <1>16, <2>1, <2>2, <2>3 DEF PpcOK, PpcLinks
<1>21. PpcOK(h, {}) BY <1>16, <1>18, <1>19, <1>20 DEF PpcOK
<1>22. PpcWriting(h, b, {}) BY <1>1, <1>14, <1>15, <1>16 DEF PpcWriting, PpcRest
<1> DEFINE l == PC!gen_page(h, b, o, n)
<1>23. PpcOK(l, {}) /\ PpcAfter(h, l, b) /\ PpcMade(h.blk[b], l.blk[b], o)
  <2>1. h.blk[b] = q BY <1>15, <1>16
  <2>2. PpcGrown(h.blk[b], h.blk[b], 0)
    <3>1. Len(q.chunks) + 0 = Len(q.chunks) /\ q.pos + 0 = q.pos BY <1>14 DEF PpcBlock
    <3> QED BY <1>3, <1>14, <2>1, <3>1 DEF PpcGrown
  <2>3. h.blk[b].phys \in Phys /\ h.blk[b].chunks = <<>> /\ h.blk[b].pos + n <= MaxChunks
    BY <1>2, <1>14, <2>1 DEF PpcListed, PC!PpcCodeAssumption
  <2> QED BY <1>21, <1>22, <2>2, <2>3, PpcGen
<1> HIDE DEF l
<1> DEFINE r == [l.blk[b] EXCEPT !.keep = FALSE, !.undef = 0]
           C == [l.blk EXCEPT ![b] = r]
           k == [l EXCEPT !.blk = C]
<1>24. l \in PpcJit /\ l.blk \in [Blocks -> PpcBlock] /\ l.blk[b] \in PpcBlock BY <1>1, <1>23 DEF PpcOK, PpcJit
<1>25. PC!tcb_recompile(j, b, o, n) = k
  <2>1. PC!tcb_recompile(j, b, o, n) = [l EXCEPT !.blk[b].keep = FALSE, !.blk[b].undef = 0] BY <1>13 DEF l
  <2> QED BY <1>1, <1>24, <2>1
<1>26. /\ r \in PpcBlock /\ r.chunks = l.blk[b].chunks /\ r.buffer = l.blk[b].buffer /\ r.ptr = l.blk[b].ptr
       /\ r.over = l.blk[b].over /\ r.start = l.blk[b].start /\ r.phys = l.blk[b].phys /\ ~ r.keep
       /\ r.image = l.blk[b].image
  BY <1>24 DEF PpcBlock
<1>27. C \in [Blocks -> PpcBlock] /\ C[b] = r /\ \A d \in Blocks \ {b} : C[d] = l.blk[d] BY <1>1, <1>24, <1>26
<1> HIDE DEF r, C
<1>28. /\ k \in PpcJit /\ k.pool = l.pool /\ k.blk = C /\ k.spare = l.spare /\ k.tcbs = l.tcbs
       /\ k.slot = l.slot /\ k.phys = l.phys
  BY <1>24, <1>27 DEF PpcJit
<1> HIDE DEF k
<1>29. b \in Els(l.tcbs) BY <1>16, <1>23 DEF PpcAfter
<1>30. PpcOK(k, {})
  <2>1. b \in Els(l.tcbs) \cup {} BY <1>29
  <2>2. /\ k.blk[b].chunks = l.blk[b].chunks /\ k.blk[b].buffer = l.blk[b].buffer
        /\ k.blk[b].ptr = l.blk[b].ptr /\ k.blk[b].over = l.blk[b].over
        /\ k.blk[b].start = l.blk[b].start /\ k.blk[b].phys = l.blk[b].phys
        /\ \A d \in Blocks \ {b} : k.blk[d] = l.blk[d]
    BY <1>26, <1>27, <1>28
  <2> QED BY <1>1, <1>23, <1>28, <2>1, <2>2, PpcTouch
<1>31. \A d \in Blocks : ~ k.blk[d].keep
  <2>1. ~ PC!Idle.keep BY DEF PC!Idle
  <2>2. \A d \in Blocks \ {b} : ~ l.blk[d].keep BY <1>15, <1>16, <1>23, <2>1 DEF PpcAfter, PpcRest
  <2> QED BY <1>26, <1>27, <1>28, <2>2
<1>32. Keeps(j, k)
  <2>1. Els(j.tcbs) \subseteq Blocks BY <1>1, ElsAt
  <2>2. ASSUME NEW s \in Slot, k.slot[s] # None
        PROVE  SlotKept(j, k, s)
    <3>1. /\ k.slot[s] = j.slot[s] /\ j.slot[s] # None
          /\ j.slot[s] \notin Els(j.tcbs) \ Els(l.tcbs)
      BY <1>16, <1>23, <1>28, <2>2 DEF PpcAfter
    <3>2. j.slot[s] \in Els(j.tcbs) /\ j.slot[s] \in Blocks BY <1>1, <2>1, <3>1 DEF PpcOK, PpcLinks
    <3>3. CASE j.slot[s] = b
      <4>1. k.blk[b].start = j.blk[b].start /\ k.blk[b].image = mem[j.blk[b].phys]
        BY <1>14, <1>15, <1>16, <1>23, <1>26, <1>27, <1>28 DEF PpcMade
      <4>2. j.blk[b].phys = Map[j.blk[b].start] BY <1>2 DEF PpcListed
      <4> QED BY <3>1, <3>3, <4>1, <4>2 DEF SlotKept
    <3>4. CASE j.slot[s] # b
      <4>1. k.blk[j.slot[s]] = l.blk[j.slot[s]] BY <1>27, <1>28, <3>2, <3>4
      <4>2. l.blk[j.slot[s]] = h.blk[j.slot[s]] BY <1>16, <1>23, <3>1, <3>2, <3>4 DEF PpcAfter
      <4>3. h.blk[j.slot[s]] = j.blk[j.slot[s]] BY <1>15, <1>16, <3>2, <3>4
      <4> QED BY <3>1, <4>1, <4>2, <4>3 DEF SlotKept
    <3> QED BY <3>3, <3>4
  <2>3. SlotsKept(j, k) BY <2>2 DEF SlotsKept
  <2> QED BY <2>3, Kept
<1> QED BY <1>25, <1>28, <1>29, <1>30, <1>31, <1>32 DEF PpcRest

\* One more use of the block in its slot.
LEMMA PpcCountedOK ==
  ASSUME PC!PpcCodeAssumption, NEW j, PpcRest(j), NEW s \in Slot, j.slot[s] \in Els(j.tcbs)
  PROVE  LET b == j.slot[s]
             k == PC!Count(j, s, b)
         IN  PpcRest(k) /\ b \in Els(k.tcbs) /\ k.blk[b].pos = j.blk[b].pos /\ Keeps(j, k)
<1> DEFINE b == j.slot[s]
           a == IF j.blk[b].acc > Threshold THEN j.blk[b].acc ELSE j.blk[b].acc + 1
           q == [j.blk[b] EXCEPT !.acc = a]
           B == [j.blk EXCEPT ![b] = q]
           k == [j EXCEPT !.blk = B]
<1>1. /\ PpcOK(j, {}) /\ j \in PpcJit /\ b \in Blocks /\ Els(j.tcbs) \subseteq Blocks
      /\ j.blk \in [Blocks -> PpcBlock] /\ j.blk[b] \in PpcBlock /\ j.slot \in [Slot -> Blocks \cup {None}]
  <2>1. /\ PpcOK(j, {}) /\ j \in PpcJit /\ j.tcbs \in Seq(Blocks) /\ j.blk \in [Blocks -> PpcBlock]
        /\ j.slot \in [Slot -> Blocks \cup {None}]
    BY DEF PpcRest, PpcOK, PpcJit
  <2> QED BY <2>1, ElsAt
<1>2. PC!Count(j, s, b) = k
  <2>1. DOMAIN j = {"pool", "blk", "spare", "tcbs", "slot", "phys", "method"} /\ DOMAIN j.blk = Blocks
        /\ j \in [DOMAIN j -> {j[f] : f \in DOMAIN j}]
    BY <1>1 DEF PpcJit
  <2>2. [j.slot EXCEPT ![s] = b] = j.slot BY <1>1
  <2>3. PC!Count(j, s, b) = [j EXCEPT !.slot[s] = b, !.blk[b].acc = a] BY <1>1, <2>1 DEF PC!Count
  <2>4. [j EXCEPT !.slot[s] = b, !.blk[b].acc = a] = [j EXCEPT !.slot = [j.slot EXCEPT ![s] = b], !.blk = B]
    <3> HIDE DEF a, b
    <3> QED BY <2>1
  <2>5. [j EXCEPT !.slot = j.slot, !.blk = B] = k
    <3> HIDE DEF B
    <3> QED BY <2>1
  <2> HIDE DEF B
  <2> QED BY <2>2, <2>3, <2>4, <2>5
<1>3. a \in Nat BY <1>1 DEF PpcBlock
<1>4. /\ q \in PpcBlock /\ q.chunks = j.blk[b].chunks /\ q.buffer = j.blk[b].buffer /\ q.ptr = j.blk[b].ptr
      /\ q.over = j.blk[b].over /\ q.start = j.blk[b].start /\ q.phys = j.blk[b].phys
      /\ q.keep = j.blk[b].keep /\ q.pos = j.blk[b].pos /\ q.image = j.blk[b].image
  <2> HIDE DEF a, b
  <2> QED BY <1>1, <1>3 DEF PpcBlock
<1>5. B \in [Blocks -> PpcBlock] /\ B[b] = q /\ \A d \in Blocks \ {b} : B[d] = j.blk[d]
  <2> HIDE DEF q, b
  <2> QED BY <1>1, <1>4
<1> HIDE DEF q, B, b
<1>6. /\ k \in PpcJit /\ k.pool = j.pool /\ k.blk = B /\ k.spare = j.spare /\ k.tcbs = j.tcbs
      /\ k.slot = j.slot /\ k.phys = j.phys
  BY <1>1, <1>5 DEF PpcJit
<1> HIDE DEF k
<1>7. PpcOK(k, {})
  <2>1. /\ k.blk[b].chunks = j.blk[b].chunks /\ k.blk[b].buffer = j.blk[b].buffer
        /\ k.blk[b].ptr = j.blk[b].ptr /\ k.blk[b].over = j.blk[b].over
        /\ k.blk[b].start = j.blk[b].start /\ k.blk[b].phys = j.blk[b].phys
        /\ \A d \in Blocks \ {b} : k.blk[d] = j.blk[d]
    BY <1>4, <1>5, <1>6
  <2>2. b \in Els(j.tcbs) \cup {} BY DEF b
  <2> QED BY <1>1, <1>6, <2>1, <2>2, PpcTouch
<1>8. \A d \in Blocks : k.blk[d].keep = j.blk[d].keep BY <1>4, <1>5, <1>6
<1>9. k.blk[b].pos = j.blk[b].pos /\ b \in Els(k.tcbs) BY <1>4, <1>5, <1>6 DEF b
<1>10. PC!Count(j, s, b) = k BY <1>2 DEF b
<1>11. Keeps(j, k)
  <2>1. \A d \in Blocks : k.blk[d].start = j.blk[d].start /\ k.blk[d].image = j.blk[d].image
    BY <1>4, <1>5, <1>6
  <2>2. \A t \in Slot : k.slot[t] # None => k.slot[t] = j.slot[t] /\ j.slot[t] \in Blocks
    BY <1>1, <1>6
  <2>3. SlotsKept(j, k) BY <2>1, <2>2 DEF SlotsKept, SlotKept
  <2> QED BY <2>3, Kept
<1> QED BY <1>7, <1>8, <1>9, <1>10, <1>11 DEF PpcRest, b

\* The CPU enters a block: the code that runs from now on is in pages of its own.
LEMMA PpcEntered ==
  ASSUME PC!PpcCodeAssumption, mem \in [Phys -> Images], NEW j, PpcRest(j), NEW b \in Els(j.tcbs),
         Keeps(jit, j),
         NEW o \in Places, NEW n \in 0 .. MaxFill, PC!Enter(j, b, o, n),
         o \in j.blk[b].points \/ j.blk[b].pos = jit.blk[b].pos
  PROVE  PpcRest(jit') /\ PpcRuns(jit', running') /\ Keeps(jit, jit') /\ Answer
<1>1. /\ PpcOK(j, {}) /\ j \in PpcJit /\ b \in Blocks /\ Els(j.tcbs) \subseteq Blocks
      /\ j.blk \in [Blocks -> PpcBlock] /\ j.blk[b] \in PpcBlock
  <2>1. PpcOK(j, {}) /\ j \in PpcJit /\ j.tcbs \in Seq(Blocks) /\ j.blk \in [Blocks -> PpcBlock]
    BY DEF PpcRest, PpcOK, PpcJit
  <2> QED BY <2>1, ElsAt
<1>2. ASSUME NEW k, PpcRest(k), b \in Els(k.tcbs) PROVE PpcRuns(k, [block |-> b, pages |-> PC!Pages(k, b)])
  <2>1. PpcOK(k, {}) /\ k \in PpcJit /\ k.tcbs \in Seq(Blocks) BY <1>2 DEF PpcRest, PpcOK, PpcJit
  <2>2. \A c \in Els(k.tcbs) : c \in Blocks /\ PC!Pages(k, c) = Els(PC!Owned(k, c))
    <3>1. ASSUME NEW c \in Els(k.tcbs) PROVE c \in Blocks /\ PC!Pages(k, c) = Els(PC!Owned(k, c))
      <4>1. c \in Blocks /\ k.blk[c].buffer # None BY <2>1, ElsAt DEF PpcOK, PpcLinks, PpcListed
      <4>2. Els(PC!Owned(k, c)) = Els(k.blk[c].chunks) \cup {k.blk[c].buffer} BY <2>1, <4>1, PpcOwned
      <4> QED BY <4>1, <4>2 DEF PC!Pages, PC!ToSet, Els
    <3> QED BY <3>1
  <2>3. \A c \in Els(k.tcbs) : c # b => PC!Pages(k, c) \cap PC!Pages(k, b) = {}
    BY <1>2, <2>1, <2>2 DEF PpcOK, PpcPages
  <2> QED BY <2>3 DEF PpcRuns
<1>a. ASSUME NEW k, PpcRest(k), b \in Els(k.tcbs), Keeps(jit, k),
             said' = [op |-> "use", key |-> k.blk[b].start, value |-> k.blk[b].image]
      PROVE  Answer
  <2>1. PpcListed(k, b) BY <1>a DEF PpcRest, PpcOK, PpcLinks
  <2> DEFINE v == k.blk[b].start
  <2>2. v \in CodePage /\ k.slot[SlotOf[v]] = b /\ b # None
    BY <1>1, <2>1, PpcIdle DEF PpcListed
  <2>3. CodeOf(k, v) = {k.blk[b].image} BY <2>2 DEF CodeOf
  <2>4. k.blk[b].image = mem[Map[v]] \/ k.blk[b].image \in CodeOf(jit, v) BY <1>a, <2>2, <2>3 DEF Keeps
  <2> QED BY <1>a, <2>2, <2>4 DEF Answer
<1> DEFINE q == [j.blk[b] EXCEPT !.targets = @ \cup {o}, !.undef = @ + 1]
           B == [j.blk EXCEPT ![b] = q]
           k == [j EXCEPT !.blk = B]
           again == PC!tcb_recompile(k, b, o, n)
<1>3. [j EXCEPT !.blk[b].targets = @ \cup {o}, !.blk[b].undef = @ + 1] = k
  <2>1. DOMAIN j = {"pool", "blk", "spare", "tcbs", "slot", "phys", "method"} /\ DOMAIN j.blk = Blocks
    BY <1>1 DEF PpcJit
  <2> QED BY <1>1, <2>1
<1>4. \/ /\ o \in j.blk[b].points /\ jit' = j /\ running' = [block |-> b, pages |-> PC!Pages(j, b)]
         /\ said' = [op |-> "use", key |-> j.blk[b].start, value |-> j.blk[b].image]
      \/ /\ PC!Full(b, n) /\ jit' = again /\ running' = [block |-> b, pages |-> PC!Pages(again, b)]
         /\ o \notin j.blk[b].points
         /\ said' = [op |-> "use", key |-> again.blk[b].start, value |-> again.blk[b].image]
      \/ /\ jit' = k /\ running' = PC!Interpreting /\ o \notin j.blk[b].points
         /\ said' = [op |-> "use", key |-> j.blk[b].start, value |-> mem[j.blk[b].phys]]
  <2> HIDE DEF k
  <2> QED BY <1>3 DEF PC!Enter
<1>5. /\ q \in PpcBlock /\ q.chunks = j.blk[b].chunks /\ q.buffer = j.blk[b].buffer /\ q.ptr = j.blk[b].ptr
      /\ q.over = j.blk[b].over /\ q.start = j.blk[b].start /\ q.phys = j.blk[b].phys
      /\ q.keep = j.blk[b].keep /\ q.pos = j.blk[b].pos /\ q.image = j.blk[b].image
  <2>1. j.blk[b].targets \cup {o} \in SUBSET Places /\ j.blk[b].undef + 1 \in Nat BY <1>1 DEF PpcBlock
  <2> QED BY <1>1, <2>1 DEF PpcBlock
<1>6. B \in [Blocks -> PpcBlock] /\ B[b] = q /\ \A d \in Blocks \ {b} : B[d] = j.blk[d] BY <1>1, <1>5
<1> HIDE DEF q, B
<1>7. /\ k \in PpcJit /\ k.pool = j.pool /\ k.blk = B /\ k.spare = j.spare /\ k.tcbs = j.tcbs
      /\ k.slot = j.slot /\ k.phys = j.phys
  BY <1>1, <1>6 DEF PpcJit
<1> HIDE DEF k
<1>8. PpcRest(k) /\ b \in Els(k.tcbs)
  <2>1. /\ k.blk[b].chunks = j.blk[b].chunks /\ k.blk[b].buffer = j.blk[b].buffer
        /\ k.blk[b].ptr = j.blk[b].ptr /\ k.blk[b].over = j.blk[b].over
        /\ k.blk[b].start = j.blk[b].start /\ k.blk[b].phys = j.blk[b].phys
        /\ \A d \in Blocks \ {b} : k.blk[d] = j.blk[d]
    BY <1>5, <1>6, <1>7
  <2>2. b \in Els(j.tcbs) \cup {} OBVIOUS
  <2>3. PpcOK(k, {}) BY <1>1, <1>7, <2>1, <2>2, PpcTouch
  <2>4. \A d \in Blocks : k.blk[d].keep = j.blk[d].keep BY <1>5, <1>6, <1>7
  <2> QED BY <1>7, <2>3, <2>4 DEF PpcRest
<1>b. Keeps(jit, k)
  <2>1. \A d \in Blocks : k.blk[d].start = j.blk[d].start /\ k.blk[d].image = j.blk[d].image
    BY <1>5, <1>6, <1>7
  <2>2. \A t \in Slot : k.slot[t] # None => k.slot[t] = j.slot[t] /\ j.slot[t] \in Blocks
    <3>1. j.slot \in [Slot -> Blocks \cup {None}] BY <1>1 DEF PpcJit
    <3> QED BY <1>7, <3>1
  <2>a. SlotsKept(j, k) BY <2>1, <2>2 DEF SlotsKept, SlotKept
  <2>3. Keeps(j, k) BY <2>a, Kept
  <2> QED BY <2>3, KeepsTwice
<1>9. CASE /\ o \in j.blk[b].points /\ jit' = j /\ running' = [block |-> b, pages |-> PC!Pages(j, b)]
           /\ said' = [op |-> "use", key |-> j.blk[b].start, value |-> j.blk[b].image]
  <2>1. PpcRuns(j, [block |-> b, pages |-> PC!Pages(j, b)]) BY <1>2
  <2>2. Answer BY <1>9, <1>a
  <2> QED BY <1>9, <2>1, <2>2
<1>10. CASE /\ PC!Full(b, n) /\ jit' = again /\ running' = [block |-> b, pages |-> PC!Pages(again, b)]
            /\ o \notin j.blk[b].points
            /\ said' = [op |-> "use", key |-> again.blk[b].start, value |-> again.blk[b].image]
  <2>1. k.blk[b].pos + n <= MaxChunks BY <1>5, <1>6, <1>7, <1>10 DEF PC!Full
  <2>2. PpcRest(again) /\ b \in Els(again.tcbs) /\ Keeps(k, again) BY <1>8, <2>1, PpcRecompiled
  <2> HIDE DEF again
  <2>3. PpcRuns(again, [block |-> b, pages |-> PC!Pages(again, b)]) BY <1>2, <2>2
  <2>4. Keeps(jit, again) BY <1>b, <2>2, KeepsTwice
  <2>5. Answer BY <1>10, <1>a, <2>2, <2>4
  <2> QED BY <1>10, <2>2, <2>3, <2>4, <2>5
<1>11. CASE /\ jit' = k /\ running' = PC!Interpreting
            /\ said' = [op |-> "use", key |-> j.blk[b].start, value |-> mem[j.blk[b].phys]]
  <2>1. PpcRuns(k, PC!Interpreting) BY DEF PpcRuns, PC!Interpreting
  <2>2. j.blk[b].start \in CodePage /\ j.blk[b].phys = Map[j.blk[b].start]
    BY <1>1 DEF PpcOK, PpcLinks, PpcListed
  <2>3. Answer BY <1>11, <2>2 DEF Answer
  <2> QED BY <1>8, <1>11, <1>b, <2>1, <2>3
<1> QED BY <1>4, <1>9, <1>10, <1>11

\* At first every page is free.
LEMMA PpcCodeInvInit == ASSUME PC!PpcCodeAssumption, PC!CodeInit PROVE PpcCodeInv
<1>1. ExecPage \in Seq(Exec) /\ Once(ExecPage)
  BY DEF PC!PpcCodeAssumption, PC!ToSet, PC!IsInjective, Exec, Els, Once
<1> DEFINE w == Backwards(ExecPage)
           B == [b \in Blocks |-> PC!Idle]
           S == [s \in Slot |-> None]
           P == [s \in Slot |-> <<>>]
<1>2. w \in Seq(Exec) /\ Once(w) /\ Els(w) = Exec
  <2>1. w \in Seq(Exec) /\ Once(w) /\ Els(w) = Els(ExecPage) BY <1>1, BackwardsOnce
  <2> QED BY <2>1 DEF Exec
<1>3. jit = [ pool |-> w, blk |-> B, spare |-> <<>>, tcbs |-> <<>>, slot |-> S, phys |-> P, method |-> 0 ]
  BY DEF PC!CodeInit, PC!jit_init, PC!Reverse, Backwards, Blocks
<1>4. PC!Idle \in PpcBlock /\ ~ PC!Idle.keep BY PpcIdle DEF PC!Idle
<1>5. /\ B \in [Blocks -> PpcBlock] /\ S \in [Slot -> Blocks \cup {None}] /\ P \in [Slot -> Seq(Blocks)]
      /\ <<>> \in Seq(Blocks) /\ (\A b \in Blocks : B[b] = PC!Idle) /\ (\A s \in Slot : S[s] = None /\ P[s] = <<>>)
  <2>1. <<>> \in Seq(Blocks) OBVIOUS
  <2> QED BY <1>4, <2>1
<1> HIDE DEF w, B, S, P
<1>6. /\ jit \in PpcJit /\ jit.pool = w /\ jit.blk = B /\ jit.spare = <<>> /\ jit.tcbs = <<>>
      /\ jit.slot = S /\ jit.phys = P
  BY <1>2, <1>3, <1>5 DEF PpcJit
<1>7. Els(<<>>) = {} /\ Once(<<>>) BY DEF Els, Once
<1>8. \A b \in Blocks : PC!Owned(jit, b) = <<>> BY <1>5, <1>6, PpcIdleOwned
<1>9. PpcPages(jit) BY <1>2, <1>6, <1>7, <1>8 DEF PpcPages
<1>10. PpcLists(jit, {}) BY <1>5, <1>6, <1>7 DEF PpcLists
<1>11. PpcLinks(jit) BY <1>5, <1>6, <1>7 DEF PpcLinks
<1>12. PpcRest(jit) BY <1>4, <1>5, <1>6, <1>9, <1>10, <1>11 DEF PpcRest, PpcOK
<1>13. mem \in [Phys -> Images] /\ PpcRuns(jit, running) BY DEF PC!CodeInit, Images, PpcRuns
<1> QED BY <1>12, <1>13 DEF PpcCodeInv

\* One turn of the loop.
PpcTurn(v, o, n) ==
  LET s    == SlotOf[v]
      old  == jit.slot[s]
      hit  == old # None /\ jit.blk[old].start = v
      room == PC!Evict(jit, s)
      made == IF hit THEN [jit |-> jit, block |-> old] ELSE PC!tcb_compile(room, v, o, n)
  IN  /\ running = None
      /\ IF made.block = None THEN jit' = made.jit /\ said' = [op |-> "other"] /\ UNCHANGED running
         ELSE PC!Enter(PC!Count(made.jit, s, made.block), made.block, o, n)

\* It keeps the invariant, and enters the code of the page or of what it was
\* (ppc32_jit_run_cpu).
LEMMA PpcDispatch ==
  ASSUME PC!PpcCodeAssumption, PpcCodeInv, PC!Dispatch
  PROVE  PpcCodeInv' /\ mem' = mem /\ Keeps(jit, jit') /\ (said' = [op |-> "other"] \/ Answer)
<1>1. PpcRest(jit) /\ mem \in [Phys -> Images] BY DEF PpcCodeInv
<1>2. PICK v \in CodePage : \E o \in Offset[v] : \E n \in 0 .. MaxFill : PpcTurn(v, o, n)
  BY Zenon DEF PC!Dispatch, PpcTurn
<1>a. PICK o \in Offset[v] : \E n \in 0 .. MaxFill : PpcTurn(v, o, n) BY <1>2
<1>b. PICK n \in 0 .. MaxFill : PpcTurn(v, o, n) BY <1>a
<1>3. mem' = mem BY DEF PC!Dispatch
<1> DEFINE s    == SlotOf[v]
           old  == jit.slot[s]
           hit  == old # None /\ jit.blk[old].start = v
           room == PC!Evict(jit, s)
<1>4. s \in Slot /\ o \in Places BY DEF PC!PpcCodeAssumption, Places
<1>5. /\ PpcRest(jit') /\ PpcRuns(jit', running') /\ Keeps(jit, jit')
      /\ said' = [op |-> "other"] \/ Answer
  <2>1. CASE hit
    <3> DEFINE k == PC!Count(jit, s, old)
    <3>1. PC!Enter(k, old, o, n)
      <4>1. LET made == [jit |-> jit, block |-> old]
            IN  IF made.block = None THEN jit' = made.jit /\ said' = [op |-> "other"] /\ UNCHANGED running
                ELSE PC!Enter(PC!Count(made.jit, s, made.block), made.block, o, n)
        BY <1>b, <2>1 DEF PpcTurn
      <4> QED BY <2>1, <4>1
    <3>2. old \in Els(jit.tcbs) BY <1>1, <1>4, <2>1 DEF PpcRest, PpcOK, PpcLinks
    <3>3. PpcRest(k) /\ old \in Els(k.tcbs) /\ k.blk[old].pos = jit.blk[old].pos /\ Keeps(jit, k)
      BY <1>1, <1>4, <3>2, PpcCountedOK
    <3> HIDE DEF k
    <3> QED BY <1>1, <1>4, <3>1, <3>3, PpcEntered
  <2>2. CASE ~ hit
    <3> DEFINE made == PC!tcb_compile(room, v, o, n)
    <3>1. /\ running = None
          /\ IF made.block = None THEN jit' = made.jit /\ said' = [op |-> "other"] /\ UNCHANGED running
             ELSE PC!Enter(PC!Count(made.jit, s, made.block), made.block, o, n)
      BY <1>b, <2>2 DEF PpcTurn
    <3>2. PpcRest(room) /\ room.slot[s] = None /\ Keeps(jit, room) BY <1>1, <1>4, PpcEvict
    <3> HIDE DEF room
    <3> DEFINE c == PC!Count(made.jit, s, made.block)
    <3>3. /\ made.block = None => PpcRest(made.jit) /\ Keeps(room, made.jit)
          /\ made.block # None => /\ PpcRest(c) /\ made.block \in Els(c.tcbs) /\ o \in c.blk[made.block].points
                                  /\ Keeps(room, c)
      BY <1>1, <1>4, <3>2, PpcCompiled
    <3> HIDE DEF made
    <3>4. CASE made.block = None BY <3>1, <3>2, <3>3, <3>4, KeepsTwice DEF PpcRuns
    <3>5. CASE made.block # None
      <4> HIDE DEF c
      <4>1. PC!Enter(c, made.block, o, n) BY <3>1, <3>5 DEF c
      <4>2. Keeps(jit, c) BY <3>2, <3>3, <3>5, KeepsTwice
      <4> QED BY <1>1, <1>4, <3>3, <3>5, <4>1, <4>2, PpcEntered
    <3> QED BY <3>4, <3>5
  <2> QED BY <2>1, <2>2
<1> QED BY <1>1, <1>3, <1>5 DEF PpcCodeInv

\* The code that runs keeps its pages when a block is freed, be it its own.
LEMMA PpcDropRuns ==
  ASSUME PC!PpcCodeAssumption, NEW j, PpcRest(j), NEW r, PpcRuns(j, r), NEW b \in Els(j.tcbs)
  PROVE  PpcRuns(PC!Drop(j, b), r)
<1> DEFINE k == PC!Drop(j, b)
<1>1. PpcOK(j, {}) BY DEF PpcRest
<1>2. Els(k.tcbs) = Els(j.tcbs) \ {b} /\ k.blk = [j.blk EXCEPT ![b] = PC!Idle] BY <1>1, PpcDropOK
<1> HIDE DEF k
<1>3. j.tcbs \in Seq(Blocks) /\ j.blk \in [Blocks -> PpcBlock] BY <1>1 DEF PpcOK, PpcJit
<1>4. Els(j.tcbs) \subseteq Blocks BY <1>3, ElsAt
<1>5. \A c \in Els(k.tcbs) : c \in Els(j.tcbs) /\ k.blk[c] = j.blk[c] BY <1>2, <1>3, <1>4
<1>6. \A c \in Els(k.tcbs) : PC!Pages(k, c) = PC!Pages(j, c) BY <1>5 DEF PC!Pages
<1> QED BY <1>5, <1>6 DEF PpcRuns, k

\* A store to a page: the block that was made from it is freed, or none is.
LEMMA PpcStore ==
  ASSUME PC!PpcCodeAssumption, PpcCodeInv, PC!Store
  PROVE  PpcCodeInv' /\ Keeps(jit, jit') /\ said' = [op |-> "change"]
<1>0. said' = [op |-> "change"] BY DEF PC!Store
<1>1. PpcRest(jit) /\ PpcOK(jit, {}) /\ mem \in [Phys -> Images] /\ PpcRuns(jit, running)
  BY DEF PpcCodeInv, PpcRest
<1>2. PICK v \in DataPage, x \in Content :
        /\ mem' = [mem EXCEPT ![Map[v]] = x]
        /\ \/ jit' = jit
           \/ jit' = PC!Drop(jit, PC!find_by_phys_page(jit, Map[v])) /\ PC!find_by_phys_page(jit, Map[v]) # None
        /\ UNCHANGED running
  BY DEF PC!Store
<1>3. mem' \in [Phys -> Images] BY <1>1, <1>2 DEF Images
<1>4. Map[v] \in Phys BY DEF PC!PpcCodeAssumption
<1>5. CASE jit' = jit BY <1>0, <1>1, <1>2, <1>3, <1>5, KeepsSelf DEF PpcCodeInv
<1>6. CASE jit' = PC!Drop(jit, PC!find_by_phys_page(jit, Map[v])) /\ PC!find_by_phys_page(jit, Map[v]) # None
  <2> DEFINE b == PC!find_by_phys_page(jit, Map[v])
  <2>1. b \in Els(jit.tcbs) BY <1>1, <1>4, <1>6, PpcFindByPhys
  <2> HIDE DEF b
  <2>2. PpcRest(PC!Drop(jit, b)) /\ PpcRuns(PC!Drop(jit, b), running)
    BY <1>1, <2>1, PpcRestDrop, PpcDropRuns
  <2>3. Keeps(jit, PC!Drop(jit, b)) BY <1>1, <2>1, PpcDropKeeps
  <2> QED BY <1>0, <1>2, <1>3, <1>6, <2>2, <2>3 DEF PpcCodeInv, b
<1> QED BY <1>2, <1>5, <1>6

\* ICBI: the page has no code afterwards (ppc32_icbi).
LEMMA PpcIcbi ==
  ASSUME PC!PpcCodeAssumption, PpcCodeInv, PC!Icbi
  PROVE  /\ PpcCodeInv' /\ Keeps(jit, jit')
         /\ \E v \in CodePage : said' = [op |-> "forget", keys |-> {v}] /\ CodeOf(jit', v) = {}
<1>1. PpcRest(jit) /\ PpcOK(jit, {}) /\ mem \in [Phys -> Images] /\ PpcRuns(jit, running)
  BY DEF PpcCodeInv, PpcRest
<1>2. PICK v \in CodePage :
        LET b == PC!find_by_phys_page(jit, Map[v])
        IN  /\ jit' = IF b # None /\ jit.blk[b].start = v
                      THEN [PC!tcb_free(jit, b, TRUE) EXCEPT !.slot[SlotOf[v]] = None] ELSE jit
            /\ said' = [op |-> "forget", keys |-> {v}]
  BY DEF PC!Icbi
<1>3. mem' = mem /\ running' = running BY DEF PC!Icbi
<1> DEFINE b == PC!find_by_phys_page(jit, Map[v])
<1>4. (b # None => b \in Els(jit.tcbs)) /\ \A c \in Els(jit.tcbs) : jit.blk[c].phys = Map[v] => b = c
  <2>1. Map[v] \in Phys BY DEF PC!PpcCodeAssumption
  <2> QED BY <1>1, <2>1, PpcFindByPhys
<1> HIDE DEF b
<1>5. CASE b # None /\ jit.blk[b].start = v
  <2>1. jit' = [PC!tcb_free(jit, b, TRUE) EXCEPT !.slot[SlotOf[v]] = None] BY <1>2, <1>5 DEF b
  <2>2. jit' = PC!Drop(jit, b) BY <1>1, <1>4, <1>5, <2>1, PpcFreeing
  <2>3. PpcRest(PC!Drop(jit, b)) /\ PpcRuns(PC!Drop(jit, b), running)
    BY <1>1, <1>4, <1>5, PpcRestDrop, PpcDropRuns
  <2>4. Keeps(jit, PC!Drop(jit, b)) BY <1>1, <1>4, <1>5, PpcDropKeeps
  <2>5. CodeOf(PC!Drop(jit, b), v) = {}
    <3>1. SlotOf[v] \in Slot BY DEF PC!PpcCodeAssumption
    <3>2. jit.slot[SlotOf[v]] = b BY <1>1, <1>4, <1>5 DEF PpcOK, PpcLinks, PpcListed
    <3>a. \A s \in Slot : PC!Drop(jit, b).slot[s] = IF jit.slot[s] = b THEN None ELSE jit.slot[s]
      <4>1. b \in Els(jit.tcbs) BY <1>4, <1>5
      <4> DEFINE k == PC!Drop(jit, b)
      <4>2. \A s \in Slot : k.slot[s] = IF jit.slot[s] = b THEN None ELSE jit.slot[s] BY <1>1, <4>1, PpcDropOK
      <4> QED BY <4>2
    <3>3. PC!Drop(jit, b).slot[SlotOf[v]] = None BY <3>1, <3>2, <3>a
    <3> QED BY <3>3 DEF CodeOf
  <2> QED BY <1>1, <1>2, <1>3, <2>2, <2>3, <2>4, <2>5 DEF PpcCodeInv
<1>6. CASE ~ (b # None /\ jit.blk[b].start = v)
  <2>1. jit' = jit BY <1>2, <1>6 DEF b
  <2>2. CodeOf(jit, v) = {}
    <3> DEFINE c == jit.slot[SlotOf[v]]
    <3> SUFFICES ASSUME c # None, jit.blk[c].start = v PROVE FALSE BY DEF CodeOf
    <3>1. SlotOf[v] \in Slot BY DEF PC!PpcCodeAssumption
    <3>2. c \in Els(jit.tcbs) BY <1>1, <3>1 DEF PpcOK, PpcLinks
    <3>3. jit.blk[c].phys = Map[v] BY <1>1, <3>2 DEF PpcOK, PpcLinks, PpcListed
    <3>4. b = c BY <1>4, <3>2, <3>3
    <3> QED BY <1>6, <3>4
  <2> QED BY <1>1, <1>2, <1>3, <2>1, <2>2, KeepsSelf DEF PpcCodeInv
<1> QED BY <1>5, <1>6

\* A reset: no page has code afterwards (ppc32_jit_flush).
LEMMA PpcReset ==
  ASSUME PC!PpcCodeAssumption, PpcCodeInv, PC!Reset
  PROVE  /\ PpcCodeInv' /\ Keeps(jit, jit') /\ said' = [op |-> "forget", keys |-> CodePage]
         /\ \A v \in CodePage : CodeOf(jit', v) = {}
<1>1. PpcRest(jit) /\ PpcOK(jit, {}) /\ mem \in [Phys -> Images] BY DEF PpcCodeInv, PpcRest
<1> DEFINE k == PC!jit_flush(jit, 0)
<1>2. PpcOK(k, {}) /\ PpcLess(jit, k) /\ \A c \in Els(k.tcbs) : jit.blk[c].keep BY <1>1, PpcFlushOK
<1>3. jit' = k /\ running' = None /\ mem' = mem /\ said' = [op |-> "forget", keys |-> CodePage] BY DEF PC!Reset
<1> HIDE DEF k
<1>4. ~ PC!Idle.keep BY DEF PC!Idle
<1>5. PpcRest(k) BY <1>1, <1>2, <1>4 DEF PpcRest, PpcLess
<1>6. PpcRuns(k, None) BY DEF PpcRuns
<1>7. \A s \in Slot : k.slot[s] = None
  <2>1. k.tcbs \in Seq(Blocks) BY <1>2 DEF PpcOK, PpcJit
  <2>2. Els(k.tcbs) \subseteq Blocks BY <2>1, ElsAt
  <2>3. Els(k.tcbs) = {} BY <1>1, <1>2, <2>2 DEF PpcRest
  <2> QED BY <1>2, <2>3 DEF PpcOK, PpcLinks
<1>8. ASSUME NEW v \in CodePage PROVE CodeOf(k, v) = {}
  <2>1. SlotOf[v] \in Slot BY DEF PC!PpcCodeAssumption
  <2> QED BY <1>7, <2>1 DEF CodeOf
<1>9. Keeps(jit, k) BY <1>8 DEF Keeps
<1> QED BY <1>1, <1>3, <1>5, <1>6, <1>8, <1>9 DEF PpcCodeInv

\* Whatever the CPU does, and in whatever order, the invariant stays, and the
\* cache does what a stale cache may do.
LEMMA PpcCodeInvNext ==
  ASSUME PC!PpcCodeAssumption, PpcCodeInv, PC!CodeNext, CodeTurn
  PROVE  PpcCodeInv' /\ Code!Next
<1>1. CASE PC!Dispatch BY <1>1, PpcDispatch, CodeAnswers
<1>2. CASE PC!Return \/ PC!Load \/ PC!mem_invalidate_cache
  <2>1. mem' = mem /\ jit' = jit /\ said' = [op |-> "other"] /\ (running' = running \/ running' = None)
    BY <1>2 DEF PC!Return, PC!Load, PC!mem_invalidate_cache
  <2>2. PpcCodeInv' BY <2>1 DEF PpcCodeInv, PpcRuns
  <2>3. Keeps(jit, jit') BY <2>1, KeepsSelf
  <2> QED BY <2>1, <2>2, <2>3, CodeAnswers
<1>3. CASE PC!Store BY <1>3, PpcStore, CodeChanges
<1>4. CASE PC!Icbi
  <2>1. PpcCodeInv' /\ Keeps(jit, jit') BY <1>4, PpcIcbi
  <2>2. PICK v \in CodePage : said' = [op |-> "forget", keys |-> {v}] /\ CodeOf(jit', v) = {} BY <1>4, PpcIcbi
  <2>3. \A w \in {v} \cap CodePage : CodeOf(jit', w) = {} BY <2>2
  <2>4. Code!Next BY <2>1, <2>2, <2>3, CodeForgets
  <2> QED BY <2>1, <2>4
<1>5. CASE PC!Reset
  <2>1. /\ PpcCodeInv' /\ Keeps(jit, jit') /\ said' = [op |-> "forget", keys |-> CodePage]
        /\ \A v \in CodePage \cap CodePage : CodeOf(jit', v) = {}
    BY <1>5, PpcReset
  <2>2. Code!Next BY <2>1, CodeForgets
  <2> QED BY <2>1, <2>2
<1> QED BY <1>1, <1>2, <1>3, <1>4, <1>5 DEF PC!CodeNext

\* What that says of pages and of blocks.
LEMMA PpcPagesOwned == ASSUME PC!PpcCodeAssumption, PpcCodeInv PROVE PC!PagesOwned
<1>1. /\ PpcOK(jit, {}) /\ jit \in PpcJit /\ jit.tcbs \in Seq(Blocks) /\ jit.pool \in Seq(Exec)
      /\ PpcRuns(jit, running)
  BY DEF PpcCodeInv, PpcRest, PpcOK, PpcJit
<1> DEFINE live == PC!ToSet(jit.tcbs)
<1>2. live = Els(jit.tcbs) /\ PC!ToSet(jit.pool) = Els(jit.pool) /\ PC!ToSet(ExecPage) = Exec
  BY DEF PC!ToSet, Els, Exec
<1>3. ASSUME NEW b \in live
      PROVE  /\ b \in Blocks /\ PC!Pages(jit, b) = Els(PC!Owned(jit, b))
             /\ Append(jit.blk[b].chunks, jit.blk[b].buffer) = PC!Owned(jit, b)
             /\ jit.blk[b].ptr = jit.blk[b].buffer /\ ~ jit.blk[b].over
             /\ Els(PC!Owned(jit, b)) \subseteq Exec
  <2>1. b \in Blocks /\ PpcListed(jit, b) BY <1>1, <1>2, ElsAt DEF PpcOK, PpcLinks
  <2>2. PC!Owned(jit, b) \in Seq(Exec) /\ Els(PC!Owned(jit, b)) = Els(jit.blk[b].chunks) \cup {jit.blk[b].buffer}
    BY <1>1, <2>1, PpcOwned DEF PpcListed
  <2>3. PC!Pages(jit, b) = Els(PC!Owned(jit, b)) BY <2>2 DEF PC!Pages, PC!ToSet, Els
  <2>4. Append(jit.blk[b].chunks, jit.blk[b].buffer) = PC!Owned(jit, b) BY <2>1 DEF PC!Owned, PpcListed
  <2>5. Els(PC!Owned(jit, b)) \subseteq Exec BY <2>2, ElsAt
  <2> QED BY <2>1, <2>3, <2>4, <2>5 DEF PpcListed
<1> HIDE DEF live
<1>4. \A b \in Blocks \ live : Els(PC!Owned(jit, b)) = {}
  <2>1. \A b \in Blocks \ live : jit.blk[b] = PC!Idle BY <1>1, <1>2 DEF PpcOK, PpcLists
  <2>2. Els(<<>>) = {} BY DEF Els
  <2> QED BY <2>1, <2>2, PpcIdleOwned
<1>5. PC!IsInjective(jit.pool) BY <1>1 DEF PC!IsInjective, PpcOK, PpcPages, Once
<1>6. PC!ToSet(jit.pool) \cup UNION {PC!Pages(jit, b) : b \in live} = PC!ToSet(ExecPage)
  <2>1. Els(jit.pool) \subseteq Exec BY <1>1, ElsAt
  <2>2. \A p \in Exec : p \in Els(jit.pool) \/ \E b \in live : p \in PC!Pages(jit, b)
    BY <1>1, <1>3, <1>4 DEF PpcOK, PpcPages
  <2>3. \A b \in live : PC!Pages(jit, b) \subseteq Exec BY <1>3
  <2> QED BY <1>2, <2>1, <2>2, <2>3
<1>7. ASSUME NEW b \in live
      PROVE  /\ PC!IsInjective(Append(jit.blk[b].chunks, jit.blk[b].buffer))
             /\ PC!Pages(jit, b) \cap PC!ToSet(jit.pool) = {}
             /\ \A c \in live \ {b} : PC!Pages(jit, b) \cap PC!Pages(jit, c) = {}
             /\ jit.blk[b].ptr = jit.blk[b].buffer /\ ~ jit.blk[b].over
             /\ running # None /\ running.block # b => PC!Pages(jit, b) \cap running.pages = {}
  <2>1. Once(PC!Owned(jit, b)) BY <1>1, <1>3 DEF PpcOK, PpcPages
  <2>2. PC!IsInjective(Append(jit.blk[b].chunks, jit.blk[b].buffer)) BY <1>3, <2>1 DEF PC!IsInjective, Once
  <2>3. PC!Pages(jit, b) \cap PC!ToSet(jit.pool) = {} BY <1>1, <1>2, <1>3 DEF PpcOK, PpcPages
  <2>4. \A c \in live \ {b} : PC!Pages(jit, b) \cap PC!Pages(jit, c) = {}
    BY <1>1, <1>3 DEF PpcOK, PpcPages
  <2>5. running # None /\ running.block # b => PC!Pages(jit, b) \cap running.pages = {}
    BY <1>1, <1>2 DEF PpcRuns
  <2> QED BY <1>3, <2>2, <2>3, <2>4, <2>5
<1> QED BY <1>5, <1>6, <1>7 DEF PC!PagesOwned, live

\* Every listed block is found by the lists that name it, and no other.
LEMMA PpcBlocksFound == ASSUME PC!PpcCodeAssumption, PpcCodeInv PROVE PC!BlocksFound
<1>1. /\ PpcOK(jit, {}) /\ jit \in PpcJit /\ jit.tcbs \in Seq(Blocks) /\ jit.slot \in [Slot -> Blocks \cup {None}]
      /\ jit.phys \in [Slot -> Seq(Blocks)]
  BY DEF PpcCodeInv, PpcRest, PpcOK, PpcJit
<1> DEFINE live == PC!ToSet(jit.tcbs)
<1>2. live = Els(jit.tcbs) /\ PC!ToSet(jit.spare) = Els(jit.spare)
      /\ \A s \in Slot : PC!ToSet(jit.phys[s]) = Els(jit.phys[s])
  BY DEF PC!ToSet, Els
<1> HIDE DEF live
<1>3. PC!IsInjective(jit.tcbs) /\ live \cap PC!ToSet(jit.spare) = {}
  BY <1>1, <1>2 DEF PC!IsInjective, Once, PpcOK, PpcLists
<1>4. ASSUME NEW b \in live
      PROVE  jit.slot[SlotOf[jit.blk[b].start]] = b /\ PC!find_by_phys_page(jit, jit.blk[b].phys) = b
  <2>1. PpcListed(jit, b) BY <1>1, <1>2 DEF PpcOK, PpcLinks
  <2>2. jit.blk[b].phys \in Phys BY <2>1 DEF PpcListed, PC!PpcCodeAssumption
  <2>3. PC!find_by_phys_page(jit, jit.blk[b].phys) = b BY <1>1, <1>2, <2>2, PpcFindByPhys
  <2> QED BY <2>1, <2>3 DEF PpcListed
<1>5. \A s \in Slot : jit.slot[s] # None => jit.slot[s] \in live BY <1>1, <1>2 DEF PpcOK, PpcLinks
<1>6. UNION {PC!ToSet(jit.phys[s]) : s \in Slot} \subseteq live BY <1>1, <1>2 DEF PpcOK, PpcLinks
<1> QED BY <1>3, <1>4, <1>5, <1>6 DEF PC!BlocksFound, live

\* The first place where something is.
LEMMA MipsRemoved ==
  ASSUME NEW S, NEW s \in Seq(S), Once(s), NEW b
  PROVE  /\ MC!RemoveFirst(s, b) \in Seq(S) /\ Once(MC!RemoveFirst(s, b))
         /\ Els(MC!RemoveFirst(s, b)) = Els(s) \ {b}
<1>1. CASE \E i \in 1 .. Len(s) : s[i] = b
  <2> DEFINE I == {i \in 1 .. Len(s) : s[i] = b}
  <2>1. I # {} /\ I \subseteq Nat BY <1>1
  <2>2. PICK x \in I : \A y \in I : x <= y BY <2>1, LeastNat
  <2>3. MC!Min(I) \in I BY <2>2 DEF MC!Min
  <2>4. MC!RemoveFirst(s, b) = Cut(s, MC!Min(I))
    BY <1>1, <2>1 DEF MC!RemoveFirst, MC!RemoveAt, MC!SelectInSeq, Cut
  <2>5. MC!Min(I) \in 1 .. Len(s) /\ s[MC!Min(I)] = b BY <2>3
  <2> HIDE DEF I
  <2> QED BY <2>4, <2>5, CutOnce
<1>2. CASE ~ \E i \in 1 .. Len(s) : s[i] = b
  <2>1. MC!RemoveFirst(s, b) = s BY <1>2 DEF MC!RemoveFirst
  <2>2. b \notin Els(s) BY <1>2, ElsAt
  <2> QED BY <2>1, <2>2
<1> QED BY <1>1, <1>2

-----------------------------------------------------------------------------
(* The code cache of a MIPS64 CPU: the same, without lists by physical     *)
(* page, and with no block that is compiled twice.                         *)
MipsBlock ==
  [ start : CodePage \cup {None}, buffer : Exec \cup {None}, ptr : Exec \cup {None}, chunks : Seq(Exec),
    over : BOOLEAN, acc : Nat, image : Images \cup {None} ]
MipsJit ==
  [ pool : Seq(Exec), blk : [Blocks -> MipsBlock], spare : Seq(Blocks), tcbs : Seq(Blocks),
    slot : [Slot -> Blocks \cup {None}], method : {0, 1} ]

\* Every page is free or belongs to a block, once.
MipsPages(j) ==
  /\ Once(j.pool)
  /\ \A b \in Blocks : Once(MC!Owned(j, b)) /\ Els(MC!Owned(j, b)) \cap Els(j.pool) = {}
  /\ \A b, c \in Blocks : b # c => Els(MC!Owned(j, b)) \cap Els(MC!Owned(j, c)) = {}
  /\ \A p \in Exec : p \in Els(j.pool) \/ \E b \in Blocks : p \in Els(MC!Owned(j, b))

\* A block is listed, or on the free list, or one of X, those being made, or
\* was never used.
MipsLists(j, X) ==
  /\ Once(j.tcbs) /\ Once(j.spare) /\ Els(j.tcbs) \cap Els(j.spare) = {}
  /\ X \subseteq Blocks /\ X \cap Els(j.tcbs) = {} /\ X \cap Els(j.spare) = {}
  /\ \A b \in Blocks : b \notin Els(j.tcbs) \cup X => j.blk[b] = MC!Idle

\* The blocks that are listed and the hash slots lead to each other.
MipsListed(j, b) ==
  /\ j.blk[b].buffer # None /\ j.blk[b].ptr = j.blk[b].buffer /\ ~j.blk[b].over
  /\ j.blk[b].start \in CodePage /\ j.slot[SlotOf[j.blk[b].start]] = b
MipsLinks(j) ==
  /\ \A b \in Els(j.tcbs) : MipsListed(j, b)
  /\ \A s \in Slot : j.slot[s] # None => j.slot[s] \in Els(j.tcbs) /\ SlotOf[j.blk[j.slot[s]].start] = s

MipsOK(j, X) == j \in MipsJit /\ MipsPages(j) /\ MipsLists(j, X) /\ MipsLinks(j)

\* The pages of a block.
LEMMA MipsOwned ==
  ASSUME NEW j \in MipsJit, NEW b \in Blocks
  PROVE  /\ MC!Owned(j, b) \in Seq(Exec)
         /\ Els(MC!Owned(j, b)) = Els(j.blk[b].chunks) \cup ({j.blk[b].buffer} \ {None})
         /\ Len(MC!Owned(j, b)) <= Len(j.blk[b].chunks) + 1
<1>1. j.blk[b].chunks \in Seq(Exec) /\ j.blk[b].buffer \in Exec \cup {None} BY DEF MipsJit, MipsBlock
<1>2. CASE j.blk[b].buffer = None BY <1>1, <1>2 DEF MC!Owned
<1>3. CASE j.blk[b].buffer # None BY <1>1, <1>3, AppendOnce DEF MC!Owned
<1> QED BY <1>2, <1>3

\* What a block that is freed leaves.
LEMMA MipsFreed ==
  ASSUME NEW j \in MipsJit, NEW b \in Blocks, NEW removal \in BOOLEAN, Once(j.tcbs), MC!Idle \in MipsBlock
  PROVE  LET k == MC!tcb_free(j, b, removal)
         IN  /\ k \in MipsJit
             /\ k.pool = Backwards(MC!Owned(j, b)) \o j.pool
             /\ k.blk = [j.blk EXCEPT ![b] = MC!Idle]
             /\ k.spare = <<b>> \o j.spare
             /\ k.tcbs = IF removal THEN MC!RemoveFirst(j.tcbs, b) ELSE j.tcbs
             /\ k.slot = j.slot /\ k.method = j.method
<1> DEFINE O == Backwards(MC!Owned(j, b)) \o j.pool
           T == IF removal THEN MC!RemoveFirst(j.tcbs, b) ELSE j.tcbs
           C == [j.blk EXCEPT ![b] = MC!Idle]
           F == <<b>> \o j.spare
           u == [j EXCEPT !.tcbs = T]
           x == [u EXCEPT !.pool = O, !.spare = F, !.blk = C]
<1>0. O \in Seq(Exec) /\ T \in Seq(Blocks) /\ F \in Seq(Blocks) /\ C \in [Blocks -> MipsBlock]
  <2>1. /\ j.pool \in Seq(Exec) /\ j.tcbs \in Seq(Blocks) /\ j.spare \in Seq(Blocks)
        /\ j.blk \in [Blocks -> MipsBlock]
    BY DEF MipsJit
  <2>2. O \in Seq(Exec) BY <2>1, MipsOwned, BackwardsOnce, CatOnce
  <2>3. T \in Seq(Blocks) BY <2>1, MipsRemoved
  <2>4. F \in Seq(Blocks) BY <2>1
  <2>5. C \in [Blocks -> MipsBlock] BY <2>1
  <2> QED BY <2>2, <2>3, <2>4, <2>5
<1>1. DOMAIN j = {"pool", "blk", "spare", "tcbs", "slot", "method"} /\ DOMAIN j.blk = Blocks
      /\ j \in [DOMAIN j -> {j[f] : f \in DOMAIN j}]
  BY DEF MipsJit
<1>2. u = IF removal THEN [j EXCEPT !.tcbs = MC!RemoveFirst(@, b)] ELSE j BY <1>1
<1>3. u.blk = j.blk /\ u.pool = j.pool /\ u.spare = j.spare /\ DOMAIN u = DOMAIN j BY <1>1
<1>4. MC!tcb_free(j, b, removal) =
        [u EXCEPT !.pool = Backwards(MC!Owned(j, b)) \o @, !.spare = <<b>> \o @, !.blk[b] = MC!Idle]
  <2> HIDE DEF u
  <2> QED BY <1>2 DEF MC!tcb_free, MC!exec_page_free, MC!Reverse, Backwards
<1>5. MC!tcb_free(j, b, removal) = x
  <2> HIDE DEF u
  <2> QED BY <1>1, <1>3, <1>4
<1> HIDE DEF O, T, C, F
<1>6. /\ x \in MipsJit
      /\ x.pool = O /\ x.blk = C /\ x.spare = F /\ x.tcbs = T /\ x.slot = j.slot /\ x.method = j.method
  BY <1>0 DEF MipsJit
<1> HIDE DEF x
<1> QED BY <1>5, <1>6 DEF O, T, C, F

\* A listed block that is freed, field by field (mips64_jit_tcb_free).
LEMMA MipsDropped ==
  ASSUME NEW j \in MipsJit, NEW b \in Blocks, Once(j.tcbs), MC!Idle \in MipsBlock
  PROVE  LET k == MC!Drop(j, b)
         IN  /\ k \in MipsJit
             /\ k.pool = Backwards(MC!Owned(j, b)) \o j.pool
             /\ k.blk = [j.blk EXCEPT ![b] = MC!Idle]
             /\ k.spare = <<b>> \o j.spare
             /\ k.tcbs = MC!RemoveFirst(j.tcbs, b)
             /\ k.slot = [j.slot EXCEPT ![SlotOf[j.blk[b].start]] = None] /\ k.method = j.method
<1> DEFINE S == [j.slot EXCEPT ![SlotOf[j.blk[b].start]] = None]
           u == [j EXCEPT !.slot = S]
<1>1. S \in [Slot -> Blocks \cup {None}] BY DEF MipsJit
<1> HIDE DEF S
<1>2. /\ u \in MipsJit /\ u.pool = j.pool /\ u.blk = j.blk /\ u.spare = j.spare /\ u.tcbs = j.tcbs
      /\ u.slot = S /\ u.method = j.method
  BY <1>1 DEF MipsJit
<1>3. MC!Drop(j, b) = MC!tcb_free(u, b, TRUE) BY DEF MC!Drop, S
<1> HIDE DEF u
<1>4. MC!Owned(u, b) = MC!Owned(j, b) BY <1>2 DEF MC!Owned
<1> DEFINE k == MC!tcb_free(u, b, TRUE)
<1>5. /\ k \in MipsJit
      /\ k.pool = Backwards(MC!Owned(u, b)) \o u.pool
      /\ k.blk = [u.blk EXCEPT ![b] = MC!Idle]
      /\ k.spare = <<b>> \o u.spare
      /\ k.tcbs = MC!RemoveFirst(u.tcbs, b)
      /\ k.slot = u.slot /\ k.method = u.method
  <2>1. Once(u.tcbs) /\ TRUE \in BOOLEAN BY <1>2
  <2> QED BY <1>2, <2>1, MipsFreed
<1> HIDE DEF k
<1> QED BY <1>2, <1>3, <1>4, <1>5 DEF k, S

\* The owners of pages are as before for a block that has not changed.
LEMMA MipsOwnedSame ==
  ASSUME NEW j, NEW k, NEW b, k.blk[b] = j.blk[b]
  PROVE  MC!Owned(k, b) = MC!Owned(j, b)
BY DEF MC!Owned

\* The record of a free block is that of a block, and None is no block, page or address.
LEMMA MipsIdle ==
  ASSUME MC!MipsCodeAssumption
  PROVE  /\ MC!Idle \in MipsBlock /\ Blocks = MC!BlockId
         /\ Blocks = 1 .. Len(ExecPage) + 1 /\ Len(ExecPage) \in Nat
         /\ None \notin Exec /\ None \notin Blocks /\ None \notin CodePage
<1>1. ExecPage \in Seq(Exec) /\ Exec = MC!ToSet(ExecPage) BY DEF MC!MipsCodeAssumption, MC!ToSet, Exec, Els
<1>2. Len(ExecPage) \in Nat BY <1>1
<1>3. <<>> \in Seq(Exec) OBVIOUS
<1> QED BY <1>1, <1>2, <1>3 DEF MC!Idle, MipsBlock, MC!MipsCodeAssumption, Blocks, PC!BlockId, MC!BlockId

\* A free block owns no page.
LEMMA MipsIdleOwned == ASSUME NEW k, NEW b, k.blk[b] = MC!Idle PROVE MC!Owned(k, b) = <<>>
BY DEF MC!Owned, MC!Idle

\* A listed block that is freed: nothing leads to it any more, its pages are
\* free, and nothing else changes.
LEMMA MipsDropOK ==
  ASSUME MC!MipsCodeAssumption, NEW j, NEW X, MipsOK(j, X), NEW b \in Els(j.tcbs)
  PROVE  LET k == MC!Drop(j, b)
         IN  /\ MipsOK(k, X)
             /\ Els(k.tcbs) = Els(j.tcbs) \ {b}
             /\ Els(k.spare) = Els(j.spare) \cup {b}
             /\ k.blk = [j.blk EXCEPT ![b] = MC!Idle]
             /\ \A s \in Slot : k.slot[s] = IF j.slot[s] = b THEN None ELSE j.slot[s]
             /\ k.method = j.method
             /\ Els(MC!Owned(j, b)) \subseteq Els(k.pool)
<1> DEFINE k == MC!Drop(j, b)
<1>1. /\ j \in MipsJit /\ j.pool \in Seq(Exec) /\ j.tcbs \in Seq(Blocks) /\ j.spare \in Seq(Blocks)
      /\ j.slot \in [Slot -> Blocks \cup {None}]
      /\ j.blk \in [Blocks -> MipsBlock]
  BY DEF MipsOK, MipsJit
<1>2. b \in Blocks /\ Els(j.tcbs) \subseteq Blocks BY <1>1, ElsAt
<1>3. /\ k \in MipsJit
      /\ k.pool = Backwards(MC!Owned(j, b)) \o j.pool
      /\ k.blk = [j.blk EXCEPT ![b] = MC!Idle]
      /\ k.spare = <<b>> \o j.spare
      /\ k.tcbs = MC!RemoveFirst(j.tcbs, b)
      /\ k.slot = [j.slot EXCEPT ![SlotOf[j.blk[b].start]] = None]
      /\ k.method = j.method
  BY <1>1, <1>2, MipsDropped, MipsIdle DEF MipsOK, MipsLists, MipsLinks
<1> HIDE DEF k
<1>4. Once(k.tcbs) /\ Els(k.tcbs) = Els(j.tcbs) \ {b} BY <1>1, <1>3, MipsRemoved DEF MipsOK, MipsLists
<1>5. Once(k.spare) /\ Els(k.spare) = Els(j.spare) \cup {b}
  BY <1>1, <1>2, <1>3, ConsOnce DEF MipsOK, MipsLists
<1>7. ASSUME NEW s \in Slot PROVE k.slot[s] = IF j.slot[s] = b THEN None ELSE j.slot[s]
  <2>1. /\ j.slot[SlotOf[j.blk[b].start]] = b /\ j.blk[b].start \in CodePage
        /\ j.slot[s] # None => SlotOf[j.blk[j.slot[s]].start] = s
    BY <1>2 DEF MipsOK, MipsLinks, MipsListed
  <2>2. b # None BY <1>2, MipsIdle
  <2> QED BY <1>1, <1>3, <2>1, <2>2
<1>8. \A c \in Blocks \ {b} : k.blk[c] = j.blk[c] /\ MC!Owned(k, c) = MC!Owned(j, c)
  BY <1>1, <1>3, MipsOwnedSame
<1>9. k.blk[b] = MC!Idle /\ MC!Owned(k, b) = <<>> BY <1>1, <1>2, <1>3, MipsIdleOwned
<1>10. Once(k.pool) /\ Els(k.pool) = Els(MC!Owned(j, b)) \cup Els(j.pool)
  <2> DEFINE o == MC!Owned(j, b)
  <2>1. o \in Seq(Exec) /\ Once(o) /\ Els(o) \cap Els(j.pool) = {} /\ Once(j.pool)
    BY <1>1, <1>2, MipsOwned DEF MipsOK, MipsPages
  <2> HIDE DEF o
  <2>2. Backwards(o) \in Seq(Exec) /\ Once(Backwards(o)) /\ Els(Backwards(o)) = Els(o) BY <2>1, BackwardsOnce
  <2> QED BY <1>1, <1>3, <2>1, <2>2, CatOnce DEF o
<1>11. MipsPages(k)
  <2>0. Els(<<>>) = {} /\ Once(<<>>) BY DEF Els, Once
  <2>1. \A c \in Blocks : Once(MC!Owned(k, c)) /\ Els(MC!Owned(k, c)) \cap Els(k.pool) = {}
    BY <1>2, <1>8, <1>9, <1>10, <2>0 DEF MipsOK, MipsPages
  <2>2. \A c, d \in Blocks : c # d => Els(MC!Owned(k, c)) \cap Els(MC!Owned(k, d)) = {}
    BY <1>8, <1>9, <2>0 DEF MipsOK, MipsPages
  <2>3. \A p \in Exec : p \in Els(k.pool) \/ \E c \in Blocks : p \in Els(MC!Owned(k, c))
    BY <1>8, <1>10 DEF MipsOK, MipsPages
  <2> QED BY <1>10, <2>1, <2>2, <2>3 DEF MipsPages
<1>12. MipsLists(k, X) BY <1>2, <1>4, <1>5, <1>8, <1>9 DEF MipsOK, MipsLists
<1>13. MipsLinks(k)
  <2>1. ASSUME NEW c \in Els(k.tcbs) PROVE MipsListed(k, c)
    <3>1. c \in Els(j.tcbs) /\ c # b /\ MipsListed(j, c) /\ k.blk[c] = j.blk[c]
      BY <1>2, <1>4, <1>8 DEF MipsOK, MipsLinks
    <3>2. SlotOf[j.blk[c].start] \in Slot
      BY <3>1 DEF MipsListed, MC!MipsCodeAssumption
    <3> QED BY <1>7, <3>1, <3>2 DEF MipsListed
  <2>2. ASSUME NEW s \in Slot, k.slot[s] # None
        PROVE  k.slot[s] \in Els(k.tcbs) /\ SlotOf[k.blk[k.slot[s]].start] = s
    <3>1. k.slot[s] = j.slot[s] /\ j.slot[s] # None /\ j.slot[s] # b BY <1>7, <2>2
    <3>2. j.slot[s] \in Els(j.tcbs) /\ SlotOf[j.blk[j.slot[s]].start] = s BY <3>1 DEF MipsOK, MipsLinks
    <3>3. k.blk[j.slot[s]] = j.blk[j.slot[s]] BY <1>2, <1>8, <3>1, <3>2
    <3> QED BY <1>4, <3>1, <3>2, <3>3
  <2> QED BY <2>1, <2>2 DEF MipsLinks
<1>14. MipsOK(k, X) BY <1>3, <1>11, <1>12, <1>13 DEF MipsOK
<1> QED BY <1>3, <1>4, <1>5, <1>7, <1>10, <1>14 DEF k

\* k is what flushes leave of j: blocks are gone, and so is what led to them.
MipsLess(j, k) ==
  /\ Els(k.tcbs) \subseteq Els(j.tcbs)
  /\ \A c \in Blocks : k.blk[c] = IF c \in Els(j.tcbs) \ Els(k.tcbs) THEN MC!Idle ELSE j.blk[c]
  /\ \A s \in Slot : k.slot[s] = IF j.slot[s] \in Els(j.tcbs) \ Els(k.tcbs) THEN None ELSE j.slot[s]

\* The flush, step by step.
MipsFlushOf(j, t, f) ==
  /\ MC!jit_flush(j, t) = f[Len(j.tcbs)] /\ f[0] = j
  /\ \A i \in 1 .. Len(j.tcbs) :
       f[i] = IF MC!Goes(f[i - 1], j.tcbs[i], t) THEN MC!Drop(f[i - 1], j.tcbs[i]) ELSE f[i - 1]

\* The steps exist for a list of any length.
LEMMA MipsFlushSteps ==
  ASSUME NEW j, NEW t, Len(j.tcbs) \in Nat
  PROVE  \E f : MipsFlushOf(j, t, f)
<1> DEFINE n == Len(j.tcbs)
           g(k, i) == IF MC!Goes(k, j.tcbs[i], t) THEN MC!Drop(k, j.tcbs[i]) ELSE k
           P(m) == \E f : f = [i \in 0 .. m |-> IF i = 0 THEN j ELSE g(f[i - 1], i)]
           S == {m \in Nat : P(m)}
<1>1. P(0)
  <2>1. [i \in 0 .. 0 |-> j] = [i \in 0 .. 0 |-> IF i = 0 THEN j ELSE g([k \in 0 .. 0 |-> j][i - 1], i)] OBVIOUS
  <2> QED BY <2>1
<1>2. ASSUME NEW m \in Nat, P(m) PROVE P(m + 1)
  <2> HIDE DEF g
  <2>1. PICK f : f = [i \in 0 .. m |-> IF i = 0 THEN j ELSE g(f[i - 1], i)] BY <1>2
  <2> DEFINE h == [i \in 0 .. m + 1 |-> IF i <= m THEN f[i] ELSE g(f[m], m + 1)]
             r == [i \in 0 .. m + 1 |-> IF i = 0 THEN j ELSE g(h[i - 1], i)]
  <2>2. ASSUME NEW i \in 0 .. m + 1 PROVE h[i] = r[i]
    <3>1. CASE i = 0 BY <2>1, <3>1
    <3>2. CASE i # 0 /\ i <= m
      <4>1. f[i] = g(f[i - 1], i) BY <2>1, <3>2
      <4>2. i - 1 \in 0 .. m /\ i - 1 <= m BY <3>2
      <4> QED BY <4>1, <4>2, <3>2
    <3>3. CASE i = m + 1 BY <3>3
    <3> QED BY <3>1, <3>2, <3>3
  <2>3. h = r BY <2>2
  <2> QED BY <2>3
<1>3. P(n)
  <2> HIDE DEF P
  <2>1. 0 \in S /\ \A i \in 0 .. n : i \in S /\ i < n => i + 1 \in S BY <1>1, <1>2
  <2>2. \A i \in 0 .. n : i \in S BY <2>1, UpTo
  <2> QED BY <2>2
<1> DEFINE left == CHOOSE f : f = [i \in 0 .. n |-> IF i = 0 THEN j ELSE g(f[i - 1], i)]
<1>4. left = [i \in 0 .. n |-> IF i = 0 THEN j ELSE g(left[i - 1], i)]
  <2> HIDE DEF g
  <2> QED BY <1>3
<1>5. MC!jit_flush(j, t) = left[n] BY DEF MC!jit_flush
<1>n. n \in Nat OBVIOUS
<1> HIDE DEF left, g, n
<1>6. left[0] = j /\ \A i \in 1 .. n : left[i] = g(left[i - 1], i)
  <2>1. 0 \in 0 .. n /\ \A i \in 1 .. n : i \in 0 .. n /\ i # 0 BY <1>n
  <2> QED BY <1>4, <2>1
<1> QED BY <1>5, <1>6 DEF g, n, MipsFlushOf

\* A flush keeps the invariant, and frees every block it may free
\* (mips64_jit_flush).
LEMMA MipsFlushOK ==
  ASSUME MC!MipsCodeAssumption, NEW j, NEW X, MipsOK(j, X), NEW t
  PROVE  LET k == MC!jit_flush(j, t)
         IN  /\ MipsOK(k, X) /\ MipsLess(j, k) /\ k.method = j.method
             /\ t = 0 => Els(k.tcbs) = {}
<1> DEFINE n == Len(j.tcbs)
           Q(k, i) ==
             /\ MipsOK(k, X) /\ MipsLess(j, k) /\ k.method = j.method
             /\ \A m \in (i + 1) .. n : j.tcbs[m] \in Els(k.tcbs)
             /\ t = 0 => \A m \in 1 .. i : j.tcbs[m] \notin Els(k.tcbs)
<1>1. /\ j.tcbs \in Seq(Blocks) /\ n \in Nat /\ Once(j.tcbs) /\ DOMAIN j.tcbs = 1 .. n
      /\ \A i \in 1 .. n : j.tcbs[i] \in Els(j.tcbs) /\ j.tcbs[i] \in Blocks
      /\ \A c \in Els(j.tcbs) : \E i \in 1 .. n : j.tcbs[i] = c
  BY ElsAt DEF MipsOK, MipsLists, MipsJit
<1>f. PICK f : MipsFlushOf(j, t, f)
  <2>1. Len(j.tcbs) \in Nat BY <1>1
  <2> QED BY <2>1, MipsFlushSteps
<1>2. /\ MC!jit_flush(j, t) = f[n] /\ f[0] = j
      /\ \A i \in 1 .. n :
           f[i] = IF MC!Goes(f[i - 1], j.tcbs[i], t) THEN MC!Drop(f[i - 1], j.tcbs[i]) ELSE f[i - 1]
  BY <1>f DEF MipsFlushOf
<1> HIDE DEF n
<1> DEFINE S == {i \in 0 .. n : Q(f[i], i)}
<1>3. Q(f[0], 0) BY <1>1, <1>2 DEF MipsLess
<1>4. ASSUME NEW i \in 0 .. n, Q(f[i], i), i < n PROVE Q(f[i + 1], i + 1)
  <2> DEFINE k == f[i]
             c == j.tcbs[i + 1]
  <2>1. i + 1 \in 1 .. n /\ (i + 1) - 1 = i BY <1>1, <1>4
  <2>2. f[i + 1] = IF MC!Goes(k, c, t) THEN MC!Drop(k, c) ELSE k BY <1>2, <2>1
  <2>3. /\ MipsOK(k, X) /\ MipsLess(j, k) /\ k.method = j.method
        /\ \A m \in (i + 1) .. n : j.tcbs[m] \in Els(k.tcbs)
        /\ t = 0 => \A m \in 1 .. i : j.tcbs[m] \notin Els(k.tcbs)
    BY <1>4
  <2>4. c \in Blocks /\ c \in Els(j.tcbs) /\ c \in Els(k.tcbs) BY <1>1, <2>1, <2>3
  <2>5. k.blk[c] = j.blk[c] BY <2>3, <2>4 DEF MipsLess
  <2>6. \A m \in 1 .. n : m # i + 1 => j.tcbs[m] # c BY <1>1, <2>1 DEF Once
  <2> HIDE DEF k, c
  <2>7. CASE MC!Goes(k, c, t)
    <3> DEFINE l == MC!Drop(k, c)
    <3>1. /\ MipsOK(l, X) /\ Els(l.tcbs) = Els(k.tcbs) \ {c} /\ l.blk = [k.blk EXCEPT ![c] = MC!Idle]
          /\ \A s \in Slot : l.slot[s] = IF k.slot[s] = c THEN None ELSE k.slot[s]
          /\ l.method = k.method
      BY <2>3, <2>4, MipsDropOK
    <3> HIDE DEF l
    <3>3. k.blk \in [Blocks -> MipsBlock] BY <2>3 DEF MipsOK, MipsJit
    <3>4. \A d \in Blocks : l.blk[d] = IF d = c THEN MC!Idle ELSE k.blk[d] BY <3>1, <3>3
    <3>5. \A s \in Slot : k.slot[s] = c => j.slot[s] = c
      BY <2>3, <2>4, MipsIdle DEF MipsLess
    <3>6. MipsLess(j, l)
      <4>1. Els(l.tcbs) \subseteq Els(j.tcbs) BY <2>3, <3>1 DEF MipsLess
      <4>3. ASSUME NEW d \in Blocks
            PROVE  l.blk[d] = IF d \in Els(j.tcbs) \ Els(l.tcbs) THEN MC!Idle ELSE j.blk[d]
        BY <2>3, <2>4, <3>1, <3>4 DEF MipsLess
      <4>4. ASSUME NEW s \in Slot
            PROVE  l.slot[s] = IF j.slot[s] \in Els(j.tcbs) \ Els(l.tcbs) THEN None ELSE j.slot[s]
        <5>1. CASE k.slot[s] = c BY <2>4, <3>1, <3>5, <5>1
        <5>2. CASE k.slot[s] # c
          <6>1. l.slot[s] = k.slot[s] BY <3>1, <5>2
          <6>2. k.slot[s] = IF j.slot[s] \in Els(j.tcbs) \ Els(k.tcbs) THEN None ELSE j.slot[s]
            BY <2>3 DEF MipsLess
          <6>3. j.slot[s] # c BY <2>4, <5>2, <6>2
          <6> QED BY <3>1, <6>1, <6>2, <6>3
        <5> QED BY <5>1, <5>2
      <4> QED BY <4>1, <4>3, <4>4 DEF MipsLess
    <3>7. \A m \in ((i + 1) + 1) .. n : j.tcbs[m] \in Els(l.tcbs)
      <4> TAKE m \in ((i + 1) + 1) .. n
      <4>1. m \in (i + 1) .. n /\ m \in 1 .. n /\ m # i + 1 BY <1>1
      <4> QED BY <2>3, <2>6, <3>1, <4>1
    <3>8. ASSUME t = 0, NEW m \in 1 .. (i + 1) PROVE j.tcbs[m] \notin Els(l.tcbs)
      <4>1. CASE m = i + 1 BY <3>1, <4>1 DEF c
      <4>2. CASE m # i + 1
        <5>1. m \in 1 .. i BY <1>1, <4>2
        <5> QED BY <2>3, <3>1, <3>8, <5>1
      <4> QED BY <4>1, <4>2
    <3> QED BY <2>2, <2>3, <2>7, <3>1, <3>6, <3>7, <3>8 DEF l, k
  <2>8. CASE ~ MC!Goes(k, c, t)
    <3>1. f[i + 1] = k BY <2>2, <2>8
    <3>2. t # 0 BY <2>8 DEF MC!Goes
    <3>3. \A m \in ((i + 1) + 1) .. n : j.tcbs[m] \in Els(k.tcbs)
      <4> TAKE m \in ((i + 1) + 1) .. n
      <4>1. m \in (i + 1) .. n BY <1>1
      <4> QED BY <2>3, <4>1
    <3> QED BY <2>3, <3>1, <3>2, <3>3
  <2> QED BY <2>7, <2>8
<1>5. \A i \in 0 .. n : i \in S
  <2> HIDE DEF Q
  <2>1. 0 \in S /\ \A i \in 0 .. n : i \in S /\ i < n => i + 1 \in S BY <1>1, <1>3, <1>4
  <2> QED BY <1>1, <2>1, UpTo
<1>6. Q(f[n], n)
  <2> HIDE DEF Q
  <2> QED BY <1>1, <1>5
<1>7. t = 0 => Els(f[n].tcbs) = {}
  <2> SUFFICES ASSUME t = 0, NEW c \in Els(f[n].tcbs) PROVE FALSE OBVIOUS
  <2>1. c \in Els(j.tcbs) BY <1>6 DEF MipsLess
  <2>2. PICK m \in 1 .. n : j.tcbs[m] = c BY <1>1, <2>1
  <2> QED BY <1>6, <2>2
<1>8. MipsOK(f[n], X) /\ MipsLess(j, f[n]) /\ f[n].method = j.method BY <1>6
<1> HIDE DEF Q
<1> QED BY <1>2, <1>7, <1>8

\* Room is made by a flush, and if no page is free then, all listed blocks are gone.
LEMMA MipsRoom ==
  ASSUME MC!MipsCodeAssumption, NEW j, NEW X, MipsOK(j, X)
  PROVE  LET k == MC!make_room(j)
         IN  /\ MipsOK(k, X) /\ MipsLess(j, k)
             /\ k.pool # <<>> \/ Els(k.tcbs) = {}
<1> DEFINE k == MC!Enough(j, MC!jit_flush(j, Threshold))
<1>1. /\ MipsOK(k, X) /\ MipsLess(j, k) /\ k.method = j.method
      /\ k.pool # <<>> \/ Els(k.tcbs) = {}
  BY MipsFlushOK DEF MC!Enough
<1> HIDE DEF k
<1> DEFINE l == [k EXCEPT !.method = 1 - @]
<1>2. MC!make_room(j) = l BY DEF MC!make_room, k
<1>3. /\ l \in MipsJit /\ l.pool = k.pool /\ l.blk = k.blk /\ l.spare = k.spare /\ l.tcbs = k.tcbs
      /\ l.slot = k.slot
  <2>1. k.method \in {0, 1} /\ 1 - k.method \in {0, 1} BY <1>1 DEF MipsOK, MipsJit
  <2> QED BY <1>1, <2>1 DEF MipsOK, MipsJit
<1> HIDE DEF l
<1>4. \A c \in Blocks : MC!Owned(l, c) = MC!Owned(k, c) BY <1>3 DEF MC!Owned
<1>5. MipsPages(l) BY <1>1, <1>3, <1>4 DEF MipsOK, MipsPages
<1>6. MipsLists(l, X) BY <1>1, <1>3 DEF MipsOK, MipsLists
<1>7. MipsLinks(l) BY <1>1, <1>3 DEF MipsOK, MipsLinks, MipsListed
<1> QED BY <1>1, <1>2, <1>3, <1>5, <1>6, <1>7 DEF MipsOK, MipsLess

\* k is j after blocks were freed; b, which is not listed, may be changed.
MipsAfter(j, k, b) ==
  /\ Els(k.tcbs) \subseteq Els(j.tcbs)
  /\ \A c \in Blocks \ {b} : k.blk[c] = IF c \in Els(j.tcbs) \ Els(k.tcbs) THEN MC!Idle ELSE j.blk[c]
  /\ \A s \in Slot : k.slot[s] = IF j.slot[s] \in Els(j.tcbs) \ Els(k.tcbs) THEN None ELSE j.slot[s]

\* Nothing freed,
LEMMA MipsAfterSelf == ASSUME NEW j, NEW b PROVE MipsAfter(j, j, b) BY DEF MipsAfter

\* and frees that follow each other.
LEMMA MipsAfterTwice ==
  ASSUME MC!MipsCodeAssumption, NEW j, NEW k, NEW l, NEW b, MipsAfter(j, k, b), MipsAfter(k, l, b),
         Els(j.tcbs) \subseteq Blocks
  PROVE  MipsAfter(j, l, b)
<1>1. None \notin Blocks BY MipsIdle
<1>2. ASSUME NEW c \in Blocks \ {b}
      PROVE  l.blk[c] = IF c \in Els(j.tcbs) \ Els(l.tcbs) THEN MC!Idle ELSE j.blk[c]
  BY DEF MipsAfter
<1>3. ASSUME NEW s \in Slot
      PROVE  l.slot[s] = IF j.slot[s] \in Els(j.tcbs) \ Els(l.tcbs) THEN None ELSE j.slot[s]
  <2>1. /\ k.slot[s] = IF j.slot[s] \in Els(j.tcbs) \ Els(k.tcbs) THEN None ELSE j.slot[s]
        /\ l.slot[s] = IF k.slot[s] \in Els(k.tcbs) \ Els(l.tcbs) THEN None ELSE k.slot[s]
        /\ Els(l.tcbs) \subseteq Els(k.tcbs) /\ Els(k.tcbs) \subseteq Els(j.tcbs)
    BY DEF MipsAfter
  <2>2. None \notin Els(j.tcbs) BY <1>1
  <2> QED BY <2>1, <2>2
<1> QED BY <1>2, <1>3 DEF MipsAfter

\* A flush meanwhile leaves the block that is being written alone,
LEMMA MipsLessAfter ==
  ASSUME NEW j, NEW k, NEW b \in Blocks, NEW X, b \in X, MipsOK(j, X), MipsLess(j, k)
  PROVE  MipsAfter(j, k, b) /\ k.blk[b] = j.blk[b] /\ MC!Owned(k, b) = MC!Owned(j, b)
<1>1. b \notin Els(j.tcbs) BY DEF MipsOK, MipsLists
<1>2. k.blk[b] = j.blk[b] BY <1>1 DEF MipsLess
<1> QED BY <1>1, <1>2, MipsOwnedSame DEF MipsLess, MipsAfter

\* A page is found for it: one that was free, or that a flush has freed.
LEMMA MipsAlloc ==
  ASSUME MC!MipsCodeAssumption, NEW j, NEW X, MipsOK(j, X), NEW b \in Blocks, X = {b},
         Len(MC!Owned(j, b)) <= MaxFill
  PROVE  \E k : /\ MipsOK(k, X) /\ MipsLess(j, k) /\ k.pool # <<>>
                /\ MC!exec_page_alloc(j) = [jit |-> [k EXCEPT !.pool = Tail(@)], page |-> Head(k.pool)]
<1> DEFINE k == IF j.pool = <<>> THEN MC!make_room(j) ELSE j
<1>1. /\ MipsOK(k, X) /\ MipsLess(j, k)
      /\ k.pool # <<>> \/ Els(k.tcbs) = {}
  <2>1. CASE j.pool = <<>> BY <2>1, MipsRoom
  <2>2. CASE j.pool # <<>> BY <2>2 DEF MipsLess
  <2> QED BY <2>1, <2>2
<1>2. MC!exec_page_alloc(j) = MC!Pop(k) BY DEF MC!exec_page_alloc
<1> HIDE DEF k
<1>3. k.pool # <<>>
  <2> SUFFICES ASSUME k.pool = <<>> PROVE FALSE OBVIOUS
  <2>1. /\ b \in Blocks /\ k \in MipsJit /\ k.tcbs \in Seq(Blocks) /\ Els(k.tcbs) \subseteq Blocks
        /\ MC!Owned(k, b) = MC!Owned(j, b)
    <3>1. b \in Blocks /\ k \in MipsJit /\ k.tcbs \in Seq(Blocks) BY <1>1 DEF MipsOK, MipsJit
    <3>2. Els(k.tcbs) \subseteq Blocks BY <3>1, ElsAt
    <3> QED BY <1>1, <3>1, <3>2, MipsLessAfter
  <2>2. ASSUME NEW c \in Blocks, c # b PROVE Els(MC!Owned(k, c)) = {}
    <3>1. c \notin Els(k.tcbs) BY <1>1
    <3>2. k.blk[c] = MC!Idle BY <1>1, <2>2, <3>1 DEF MipsOK, MipsLists
    <3> QED BY <3>2, MipsIdleOwned DEF Els
  <2>3. Els(k.pool) = {} BY DEF Els
  <2>4. Exec \subseteq Els(MC!Owned(k, b)) BY <1>1, <2>2, <2>3 DEF MipsOK, MipsPages
  <2>5. MC!Owned(k, b) \in Seq(Exec) BY <2>1, MipsOwned
  <2>6. Exec = Els(MC!Owned(k, b)) BY <2>4, <2>5, ElsAt
  <2>7. Cardinality(Exec) <= Len(MC!Owned(k, b)) BY <2>5, <2>6, ElsCount
  <2>8. ExecPage \in Seq(Exec) /\ Once(ExecPage)
    BY DEF MC!MipsCodeAssumption, MC!ToSet, MC!IsInjective, Exec, Els, Once
  <2>9. Cardinality(Exec) = Len(ExecPage) BY <2>8, OnceCount DEF Exec
  <2>10. MaxFill < Len(ExecPage) /\ MaxFill \in Nat BY DEF MC!MipsCodeAssumption
  <2>11. Len(ExecPage) \in Nat /\ Len(MC!Owned(k, b)) \in Nat BY <2>5, <2>8
  <2> QED BY <2>1, <2>7, <2>9, <2>10, <2>11
<1>4. MC!Pop(k) = [jit |-> [k EXCEPT !.pool = Tail(@)], page |-> Head(k.pool)] BY <1>3 DEF MC!Pop
<1> QED BY <1>1, <1>2, <1>3, <1>4

\* The first free page goes to a block, whose record becomes another one.
LEMMA MipsTake ==
  ASSUME MC!MipsCodeAssumption, NEW k, NEW X, MipsOK(k, X), k.pool # <<>>,
         NEW b \in Blocks, b \in X, NEW l \in MipsJit,
         l.pool = Tail(k.pool), l.spare = k.spare, l.tcbs = k.tcbs, l.slot = k.slot,
         \A c \in Blocks \ {b} : l.blk[c] = k.blk[c],
         Once(MC!Owned(l, b)), Els(MC!Owned(l, b)) = Els(MC!Owned(k, b)) \cup {Head(k.pool)}
  PROVE  MipsOK(l, X)
<1>1. k.pool \in Seq(Exec) /\ Once(k.pool) /\ k.tcbs \in Seq(Blocks) BY DEF MipsOK, MipsJit, MipsPages
<1> DEFINE p == Head(k.pool)
<1>2. p \in Els(k.pool) /\ Once(l.pool) /\ Els(l.pool) = Els(k.pool) \ {p} BY <1>1, TailOnce
<1> HIDE DEF p
<1>3. \A c \in Blocks \ {b} : MC!Owned(l, c) = MC!Owned(k, c) BY MipsOwnedSame
<1>4. Els(MC!Owned(l, b)) = Els(MC!Owned(k, b)) \cup {p} BY DEF p
<1>5. MipsPages(l)
  <2>1. ASSUME NEW c \in Blocks PROVE Once(MC!Owned(l, c)) /\ Els(MC!Owned(l, c)) \cap Els(l.pool) = {}
    BY <1>2, <1>3, <1>4 DEF MipsOK, MipsPages
  <2>2. ASSUME NEW c \in Blocks, NEW d \in Blocks, c # d
        PROVE  Els(MC!Owned(l, c)) \cap Els(MC!Owned(l, d)) = {}
    <3>1. \A e \in Blocks : p \notin Els(MC!Owned(k, e)) BY <1>2 DEF MipsOK, MipsPages
    <3>2. Els(MC!Owned(k, c)) \cap Els(MC!Owned(k, d)) = {} BY <2>2 DEF MipsOK, MipsPages
    <3>3. CASE c = b BY <1>3, <1>4, <2>2, <3>1, <3>2, <3>3
    <3>4. CASE d = b BY <1>3, <1>4, <2>2, <3>1, <3>2, <3>4
    <3>5. CASE c # b /\ d # b BY <1>3, <3>2, <3>5
    <3> QED BY <3>3, <3>4, <3>5
  <2>3. ASSUME NEW q \in Exec PROVE q \in Els(l.pool) \/ \E c \in Blocks : q \in Els(MC!Owned(l, c))
    <3>1. q \in Els(k.pool) \/ \E c \in Blocks : q \in Els(MC!Owned(k, c)) BY DEF MipsOK, MipsPages
    <3>2. CASE q = p BY <1>4, <3>2
    <3>3. CASE q # p BY <1>2, <1>3, <1>4, <3>1, <3>3
    <3> QED BY <3>2, <3>3
  <2> QED BY <1>2, <2>1, <2>2, <2>3 DEF MipsPages
<1>6. MipsLists(l, X) BY DEF MipsOK, MipsLists
<1>7. MipsLinks(l)
  <2>1. Els(k.tcbs) \subseteq Blocks BY <1>1, ElsAt
  <2>2. \A c \in Els(k.tcbs) : l.blk[c] = k.blk[c] BY <2>1 DEF MipsOK, MipsLists
  <2>3. \A c \in Els(k.tcbs) : MipsListed(k, c) => MipsListed(l, c) BY <2>2 DEF MipsListed
  <2> QED BY <2>2, <2>3 DEF MipsOK, MipsLinks
<1> QED BY <1>5, <1>6, <1>7 DEF MipsOK

\* The record of a block whose code has filled n more pages.
MipsGrown(r, q, n) ==
  /\ q \in MipsBlock
  /\ Len(q.chunks) = Len(r.chunks) + n
  /\ q.buffer # None /\ q.ptr = q.buffer /\ ~ q.over
  /\ q.start = r.start /\ q.acc = r.acc /\ q.image = r.image

\* Pages filled one after another add up.
LEMMA MipsGrownMore ==
  ASSUME NEW r \in MipsBlock, NEW q, NEW o, NEW n \in Nat, NEW m \in Nat, MipsGrown(r, q, n), MipsGrown(q, o, m)
  PROVE  MipsGrown(r, o, n + m)
<1>1. Len(r.chunks) \in Nat BY DEF MipsBlock
<1>2. Len(q.chunks) = Len(r.chunks) + n /\ Len(o.chunks) = Len(q.chunks) + m
  BY DEF MipsGrown
<1>3. Len(o.chunks) = Len(r.chunks) + (n + m)
  <2>1. \A a \in Nat : (a + n) + m = a + (n + m) OBVIOUS
  <2> QED BY <1>1, <1>2, <2>1
<1> QED BY <1>3 DEF MipsGrown

\* A page that is full of code is kept, and the code goes on in another one.
LEMMA MipsAdjust ==
  ASSUME MC!MipsCodeAssumption, NEW j, NEW X, MipsOK(j, X), NEW b \in Blocks, X = {b},
         MipsGrown(j.blk[b], j.blk[b], 0),
         Len(j.blk[b].chunks) < MaxFill
  PROVE  LET l == MC!adjust_buffer(j, b)
         IN  MipsOK(l, X) /\ MipsAfter(j, l, b) /\ MipsGrown(j.blk[b], l.blk[b], 1)
<1>1. j \in MipsJit /\ b \in Blocks /\ j.blk[b] \in MipsBlock /\ Len(j.blk[b].chunks) \in Nat
  BY DEF MipsOK, MipsJit, MipsBlock
<1>2. Len(MC!Owned(j, b)) <= MaxFill
  <2>1. MC!Owned(j, b) \in Seq(Exec) /\ Len(MC!Owned(j, b)) <= Len(j.blk[b].chunks) + 1 BY <1>1, MipsOwned
  <2>2. MaxFill \in Nat /\ Len(MC!Owned(j, b)) \in Nat BY <2>1 DEF MC!MipsCodeAssumption
  <2> QED BY <1>1, <2>1, <2>2
<1>3. PICK k : /\ MipsOK(k, X) /\ MipsLess(j, k) /\ k.pool # <<>>
               /\ MC!exec_page_alloc(j) = [jit |-> [k EXCEPT !.pool = Tail(@)], page |-> Head(k.pool)]
  BY <1>2, MipsAlloc
<1>4. MipsAfter(j, k, b) /\ k.blk[b] = j.blk[b] /\ MC!Owned(k, b) = MC!Owned(j, b) BY <1>3, MipsLessAfter
<1>5. k \in MipsJit /\ k.pool \in Seq(Exec) /\ Once(k.pool) BY <1>3 DEF MipsOK, MipsJit, MipsPages
<1> DEFINE m == [k EXCEPT !.pool = Tail(@)]
           p == Head(k.pool)
           l == [m EXCEPT !.blk[b].chunks = Append(@, m.blk[b].buffer),
                          !.blk[b].buffer = p, !.blk[b].ptr = p]
<1>6. p \in Els(k.pool) /\ p \in Exec /\ Tail(k.pool) \in Seq(Exec) BY <1>3, <1>5, TailOnce
<1>7. MC!adjust_buffer(j, b) = l
  <2>1. p # None BY <1>6, MipsIdle
  <2>2. ~ Len(j.blk[b].chunks) >= MaxChunks BY <1>1 DEF MC!MipsCodeAssumption
  <2>3. MC!adjust_buffer(j, b) = MC!GoOn([jit |-> m, page |-> p], b) BY <1>3, <2>2 DEF MC!adjust_buffer
  <2> HIDE DEF m, p
  <2> QED BY <2>1, <2>3 DEF MC!GoOn
<1>8. /\ m \in MipsJit /\ m.pool = Tail(k.pool) /\ m.spare = k.spare /\ m.tcbs = k.tcbs /\ m.slot = k.slot /\ m.blk = k.blk
  BY <1>5, <1>6 DEF MipsJit
<1> HIDE DEF m
<1>9. m.blk \in [Blocks -> MipsBlock] BY <1>8 DEF MipsJit
<1> DEFINE r == m.blk[b]
           q == [r EXCEPT !.chunks = Append(@, r.buffer), !.buffer = p, !.ptr = p]
           B == [m.blk EXCEPT ![b] = q]
<1>10. r \in MipsBlock /\ r = j.blk[b] /\ r.buffer \in Exec
  <2>1. r \in MipsBlock /\ r = j.blk[b] BY <1>1, <1>4, <1>8, <1>9
  <2>2. r.buffer # None BY <2>1 DEF MipsGrown
  <2> QED BY <2>1, <2>2 DEF MipsBlock
<1>11. /\ q \in MipsBlock /\ q.chunks = Append(r.chunks, r.buffer)
       /\ q.buffer = p /\ q.ptr = p /\ q.over = r.over
       /\ q.start = r.start /\ q.acc = r.acc /\ q.image = r.image
  <2>1. Append(r.chunks, r.buffer) \in Seq(Exec) BY <1>10 DEF MipsBlock
  <2> HIDE DEF r, p
  <2> QED BY <1>6, <1>10, <2>1 DEF MipsBlock
<1>12. l = [m EXCEPT !.blk = B] BY <1>1, <1>9
<1>13. B \in [Blocks -> MipsBlock] /\ B[b] = q /\ \A c \in Blocks \ {b} : B[c] = m.blk[c] BY <1>1, <1>9, <1>11
<1> HIDE DEF q, B, r, l, p
<1>14. /\ l \in MipsJit /\ l.pool = m.pool /\ l.spare = m.spare /\ l.tcbs = m.tcbs /\ l.slot = m.slot /\ l.blk = B
  BY <1>8, <1>12, <1>13 DEF MipsJit
<1>15. MC!Owned(l, b) = Append(Append(r.chunks, r.buffer), p) /\ MC!Owned(k, b) = Append(r.chunks, r.buffer)
  <2>1. p # None /\ r.buffer # None BY <1>6, <1>10, MipsIdle
  <2> QED BY <1>8, <1>11, <1>13, <1>14, <2>1 DEF MC!Owned, r
<1>16. Once(MC!Owned(l, b)) /\ Els(MC!Owned(l, b)) = Els(MC!Owned(k, b)) \cup {p}
  <2>1. MC!Owned(k, b) \in Seq(Exec) BY <1>1, <1>5, MipsOwned
  <2>2. Once(MC!Owned(k, b)) /\ p \notin Els(MC!Owned(k, b)) BY <1>1, <1>3, <1>6 DEF MipsOK, MipsPages
  <2> DEFINE o == MC!Owned(k, b)
  <2>3. MC!Owned(l, b) = Append(o, p) BY <1>15
  <2> HIDE DEF o
  <2> QED BY <1>6, <2>1, <2>2, <2>3, AppendOnce DEF o
<1>17. MipsOK(l, X)
  <2>1. \A c \in Blocks \ {b} : l.blk[c] = k.blk[c] BY <1>8, <1>13, <1>14
  <2>2. l.pool = Tail(k.pool) /\ l.spare = k.spare /\ l.tcbs = k.tcbs /\ l.slot = k.slot BY <1>8, <1>14
  <2>3. Els(MC!Owned(l, b)) = Els(MC!Owned(k, b)) \cup {Head(k.pool)} BY <1>16 DEF p
  <2> QED BY <1>1, <1>3, <1>14, <1>16, <2>1, <2>2, <2>3, MipsTake
<1>18. MipsAfter(j, l, b)
  <2>1. \A c \in Blocks \ {b} : l.blk[c] = k.blk[c] BY <1>8, <1>13, <1>14
  <2> QED BY <1>4, <1>8, <1>14, <2>1 DEF MipsAfter
<1>19. MipsGrown(j.blk[b], l.blk[b], 1)
  <2>1. l.blk[b] = q /\ p # None BY <1>6, <1>13, <1>14, MipsIdle
  <2>2. Len(q.chunks) = Len(r.chunks) + 1 BY <1>10, <1>11, AppendOnce DEF MipsBlock
  <2> QED BY <1>10, <1>11, <2>1, <2>2 DEF MipsGrown
<1> QED BY <1>7, <1>17, <1>18, <1>19

\* The code of a page, buffer by buffer.
MipsGenOf(made, v, n, f) ==
  /\ MC!Finish(made, v, n) = IF made.block = None THEN made
                             ELSE [ jit |-> [f[n] EXCEPT !.blk[made.block].image = mem[Map[v]],
                                                         !.tcbs = <<made.block>> \o @],
                                    block |-> made.block ]
  /\ f[0] = made.jit
  /\ \A i \in 1 .. n : f[i] = MC!adjust_buffer(f[i - 1], made.block)

\* The buffers exist for every number of pages.
LEMMA MipsGenSteps ==
  ASSUME NEW made, NEW v, NEW n \in Nat
  PROVE  \E f : MipsGenOf(made, v, n, f)
<1> DEFINE j == made.jit
           b == made.block
<1> HIDE DEF j, b
<1> DEFINE g(k) == MC!adjust_buffer(k, b)
           P(m) == \E f : f = [i \in 0 .. m |-> IF i = 0 THEN j ELSE g(f[i - 1])]
           S == {m \in Nat : P(m)}
<1>1. P(0)
  <2>1. [i \in 0 .. 0 |-> j] = [i \in 0 .. 0 |-> IF i = 0 THEN j ELSE g([k \in 0 .. 0 |-> j][i - 1])] OBVIOUS
  <2> QED BY <2>1
<1>2. ASSUME NEW m \in Nat, P(m) PROVE P(m + 1)
  <2> HIDE DEF g
  <2>1. PICK f : f = [i \in 0 .. m |-> IF i = 0 THEN j ELSE g(f[i - 1])] BY <1>2
  <2> DEFINE h == [i \in 0 .. m + 1 |-> IF i <= m THEN f[i] ELSE g(f[m])]
             r == [i \in 0 .. m + 1 |-> IF i = 0 THEN j ELSE g(h[i - 1])]
  <2>2. ASSUME NEW i \in 0 .. m + 1 PROVE h[i] = r[i]
    <3>1. CASE i = 0 BY <2>1, <3>1
    <3>2. CASE i # 0 /\ i <= m
      <4>1. f[i] = g(f[i - 1]) BY <2>1, <3>2
      <4>2. i - 1 \in 0 .. m /\ i - 1 <= m BY <3>2
      <4> QED BY <4>1, <4>2, <3>2
    <3>3. CASE i = m + 1 BY <3>3
    <3> QED BY <3>1, <3>2, <3>3
  <2>3. h = r BY <2>2
  <2> QED BY <2>3
<1>3. P(n)
  <2> HIDE DEF P
  <2>1. 0 \in S /\ \A i \in 0 .. n : i \in S /\ i < n => i + 1 \in S BY <1>1, <1>2
  <2>2. \A i \in 0 .. n : i \in S BY <2>1, UpTo
  <2> QED BY <2>2
<1> DEFINE filled == CHOOSE f : f = [i \in 0 .. n |-> IF i = 0 THEN j ELSE g(f[i - 1])]
<1>4. filled = [i \in 0 .. n |-> IF i = 0 THEN j ELSE g(filled[i - 1])]
  <2> HIDE DEF g
  <2> QED BY <1>3
<1>5. MC!Finish(made, v, n) = IF b = None THEN made
                              ELSE [ jit |-> [filled[n] EXCEPT !.blk[b].image = mem[Map[v]],
                                                               !.tcbs = <<b>> \o @],
                                     block |-> b ]
  BY DEF MC!Finish, j, b
<1> HIDE DEF filled, g
<1>6. filled[0] = j /\ \A i \in 1 .. n : filled[i] = g(filled[i - 1])
  <2>1. 0 \in 0 .. n /\ \A i \in 1 .. n : i \in 0 .. n /\ i # 0 OBVIOUS
  <2> QED BY <1>4, <2>1
<1> QED BY <1>5, <1>6 DEF g, j, b, MipsGenOf

\* The pages a block fills are its own (mips64_jit_tcb_compile).
LEMMA MipsGrow ==
  ASSUME MC!MipsCodeAssumption, NEW j, NEW b \in Blocks, MipsOK(j, {b}), MipsGrown(j.blk[b], j.blk[b], 0),
         j.blk[b].chunks = <<>>, NEW n \in 0 .. MaxFill, NEW f, f[0] = j,
         \A i \in 1 .. n : f[i] = MC!adjust_buffer(f[i - 1], b)
  PROVE  MipsOK(f[n], {b}) /\ MipsAfter(j, f[n], b) /\ MipsGrown(j.blk[b], f[n].blk[b], n)
<1>1. j \in MipsJit /\ j.blk[b] \in MipsBlock /\ n \in Nat /\ MaxFill \in Nat
  BY DEF MipsOK, MipsJit, MipsBlock, MC!MipsCodeAssumption
<1> DEFINE X == {b}
           Q(k, i) == MipsOK(k, X) /\ MipsAfter(j, k, b) /\ MipsGrown(j.blk[b], k.blk[b], i)
           S == {i \in 0 .. n : Q(f[i], i)}
<1>3. Q(f[0], 0) BY MipsAfterSelf
<1>4. ASSUME NEW i \in 0 .. n, Q(f[i], i), i < n PROVE Q(f[i + 1], i + 1)
  <2> DEFINE k == f[i]
  <2>1. f[i + 1] = MC!adjust_buffer(k, b)
    <3>1. i + 1 \in 1 .. n /\ (i + 1) - 1 = i BY <1>1, <1>4
    <3> QED BY <3>1
  <2>2. MipsOK(k, X) /\ MipsAfter(j, k, b) /\ MipsGrown(j.blk[b], k.blk[b], i) BY <1>4
  <2> HIDE DEF k
  <2>4. MipsGrown(k.blk[b], k.blk[b], 0)
    <3>1. k.blk[b] \in MipsBlock /\ Len(k.blk[b].chunks) \in Nat BY <2>2 DEF MipsGrown, MipsBlock
    <3> QED BY <2>2, <3>1 DEF MipsGrown
  <2>5. Len(k.blk[b].chunks) < MaxFill
    <3>1. Len(k.blk[b].chunks) = 0 + i BY <2>2 DEF MipsGrown
    <3> QED BY <1>1, <1>4, <3>1
  <2> DEFINE l == MC!adjust_buffer(k, b)
  <2>6. MipsOK(l, X) /\ MipsAfter(k, l, b) /\ MipsGrown(k.blk[b], l.blk[b], 1)
    BY <2>2, <2>4, <2>5, MipsAdjust
  <2> HIDE DEF l
  <2>7. Els(j.tcbs) \subseteq Blocks BY <1>1, ElsAt DEF MipsJit
  <2>8. MipsAfter(j, l, b) BY <2>2, <2>6, <2>7, MipsAfterTwice
  <2>9. MipsGrown(j.blk[b], l.blk[b], i + 1) BY <1>1, <2>2, <2>6, MipsGrownMore
  <2> QED BY <2>1, <2>6, <2>8, <2>9 DEF l
<1>5. Q(f[n], n)
  <2> HIDE DEF Q
  <2>1. 0 \in S /\ \A i \in 0 .. n : i \in S /\ i < n => i + 1 \in S BY <1>1, <1>3, <1>4
  <2>2. \A i \in 0 .. n : i \in S BY <1>1, <2>1, UpTo
  <2> QED BY <1>1, <2>2
<1> QED BY <1>5

\* A block that is neither listed nor on the free list: from the free list, or,
\* if that is empty, one that was never used.  There is one, for every listed
\* block owns a page.
LEMMA MipsTcbAlloc ==
  ASSUME MC!MipsCodeAssumption, NEW j, MipsOK(j, {})
  PROVE  LET got == MC!tcb_alloc(j)
             k   == got.jit
             b   == got.block
         IN  /\ MipsOK(k, {b})
             /\ b \in Blocks /\ b \notin Els(j.tcbs)
             /\ k.blk = j.blk /\ k.tcbs = j.tcbs /\ k.slot = j.slot /\ k.blk[b] = MC!Idle
<1>0. /\ j \in MipsJit /\ j.tcbs \in Seq(Blocks) /\ j.spare \in Seq(Blocks) /\ Els(j.tcbs) \subseteq Blocks
      /\ j.blk \in [Blocks -> MipsBlock]
  <2>1. j \in MipsJit /\ j.tcbs \in Seq(Blocks) /\ j.spare \in Seq(Blocks) /\ j.blk \in [Blocks -> MipsBlock]
    BY DEF MipsOK, MipsJit
  <2> QED BY <2>1, ElsAt
<1>1. CASE j.spare # <<>>
  <2> DEFINE b == Head(j.spare)
             k == [j EXCEPT !.spare = Tail(@)]
  <2>1. b \in Els(j.spare) /\ b \in Blocks /\ Tail(j.spare) \in Seq(Blocks) /\ Once(Tail(j.spare))
        /\ Els(Tail(j.spare)) = Els(j.spare) \ {b}
    BY <1>0, <1>1, TailOnce DEF MipsOK, MipsLists
  <2>2. b \notin Els(j.tcbs) BY <2>1 DEF MipsOK, MipsLists
  <2>3. j.blk[b] = MC!Idle BY <2>1, <2>2 DEF MipsOK, MipsLists
  <2>5. MC!tcb_alloc(j) = [jit |-> k, block |-> b] BY <1>1 DEF MC!tcb_alloc
  <2>6. /\ k \in MipsJit /\ k.pool = j.pool /\ k.blk = j.blk /\ k.tcbs = j.tcbs /\ k.slot = j.slot
        /\ k.spare = Tail(j.spare)
    BY <1>0, <2>1 DEF MipsJit
  <2> HIDE DEF k, b
  <2>7. MipsPages(k)
    <3>1. \A c : MC!Owned(k, c) = MC!Owned(j, c) BY <2>6 DEF MC!Owned
    <3> QED BY <2>6, <3>1 DEF MipsOK, MipsPages
  <2>8. MipsLists(k, {b}) BY <2>1, <2>2, <2>6 DEF MipsOK, MipsLists
  <2>9. MipsLinks(k)
    <3>1. \A c : MipsListed(j, c) => MipsListed(k, c) BY <2>6 DEF MipsListed
    <3> QED BY <2>6, <3>1 DEF MipsOK, MipsLinks
  <2> QED BY <2>1, <2>2, <2>3, <2>5, <2>6, <2>7, <2>8, <2>9 DEF MipsOK
<1>2. CASE j.spare = <<>>
  <2> DEFINE n == Len(ExecPage)
  <2>1. Blocks = 1 .. n + 1 /\ n \in Nat BY MipsIdle
  <2> HIDE DEF n
  <2>2. \E b \in Blocks : b \notin Els(j.tcbs)
    <3> SUFFICES ASSUME Blocks \subseteq Els(j.tcbs) PROVE FALSE OBVIOUS
    <3> DEFINE s == [i \in 1 .. n + 1 |-> j.blk[i].buffer]
    <3>1. ASSUME NEW i \in Blocks
          PROVE  j.blk[i].buffer \in Exec /\ j.blk[i].buffer \in Els(MC!Owned(j, i))
      <4>1. j.blk[i].buffer # None /\ j.blk[i].buffer \in Exec \cup {None}
        BY <1>0 DEF MipsOK, MipsLinks, MipsListed, MipsBlock
      <4> QED BY <1>0, <4>1, MipsOwned
    <3>2. s \in Seq(Exec) /\ Len(s) = n + 1 BY <2>1, <3>1
    <3>3. Once(s) BY <2>1, <3>1 DEF Once, MipsOK, MipsPages
    <3>4. Cardinality(Els(s)) = n + 1 BY <3>2, <3>3, OnceCount
    <3>5. Els(s) \subseteq Exec
      <4> HIDE DEF s
      <4> QED BY <3>2, ElsAt
    <3>6. ExecPage \in Seq(Exec) /\ Once(ExecPage)
      BY DEF MC!MipsCodeAssumption, MC!ToSet, MC!IsInjective, Exec, Els, Once
    <3>7. Cardinality(Exec) = n /\ IsFiniteSet(Exec) BY <3>6, OnceCount DEF Exec, n
    <3>8. Cardinality(Els(s)) <= Cardinality(Exec) BY <3>5, <3>7, FS_Subset
    <3> QED BY <2>1, <3>4, <3>7, <3>8
  <2> DEFINE b == CHOOSE b \in MC!BlockId : b \notin MC!ToSet(j.tcbs)
  <2>3. b \in Blocks /\ b \notin Els(j.tcbs) BY <2>2, MipsIdle DEF MC!ToSet, Els
  <2>4. MC!tcb_alloc(j) = [jit |-> j, block |-> b] BY <1>2 DEF MC!tcb_alloc
  <2> HIDE DEF b
  <2>5. Els(j.spare) = {} BY <1>2 DEF Els
  <2>6. j.blk[b] = MC!Idle BY <2>3 DEF MipsOK, MipsLists
  <2>7. MipsOK(j, {b}) BY <2>3, <2>5 DEF MipsOK, MipsLists
  <2> QED BY <2>3, <2>4, <2>6, <2>7
<1> QED BY <1>1, <1>2

\* What is in the record of a block that is not listed.
LEMMA MipsTouchNew ==
  ASSUME NEW k, NEW X, MipsOK(k, X), NEW b \in Blocks, b \in X, NEW l \in MipsJit,
         l.pool = k.pool, l.spare = k.spare, l.tcbs = k.tcbs, l.slot = k.slot,
         \A c \in Blocks \ {b} : l.blk[c] = k.blk[c],
         l.blk[b].chunks = k.blk[b].chunks, l.blk[b].buffer = k.blk[b].buffer
  PROVE  MipsOK(l, X)
<1>1. \A c \in Blocks : MC!Owned(l, c) = MC!Owned(k, c) BY DEF MC!Owned
<1>2. MipsPages(l) BY <1>1 DEF MipsOK, MipsPages
<1>3. MipsLists(l, X) BY DEF MipsOK, MipsLists
<1>4. MipsLinks(l)
  <2>1. k.tcbs \in Seq(Blocks) /\ Els(k.tcbs) \subseteq Blocks BY ElsAt DEF MipsOK, MipsJit
  <2>2. \A c \in Els(k.tcbs) : l.blk[c] = k.blk[c] BY <2>1 DEF MipsOK, MipsLists
  <2>3. \A c \in Els(k.tcbs) : MipsListed(k, c) => MipsListed(l, c) BY <2>2 DEF MipsListed
  <2> QED BY <2>2, <2>3 DEF MipsOK, MipsLinks
<1> QED BY <1>2, <1>3, <1>4 DEF MipsOK

\* A block that was being made is given up.
LEMMA MipsGiveUp ==
  ASSUME MC!MipsCodeAssumption, NEW j, NEW b \in Blocks, MipsOK(j, {b})
  PROVE  LET k == MC!tcb_free(j, b, FALSE)
         IN  /\ MipsOK(k, {})
             /\ k.blk = [j.blk EXCEPT ![b] = MC!Idle] /\ k.tcbs = j.tcbs /\ k.slot = j.slot
<1> DEFINE x == MC!tcb_free(j, b, FALSE)
           o == MC!Owned(j, b)
<1>1. /\ j \in MipsJit /\ j.pool \in Seq(Exec) /\ j.tcbs \in Seq(Blocks) /\ j.spare \in Seq(Blocks)
      /\ j.blk \in [Blocks -> MipsBlock] /\ Once(j.tcbs)
  BY DEF MipsOK, MipsJit, MipsLists
<1>2. /\ x \in MipsJit /\ x.pool = Backwards(o) \o j.pool /\ x.blk = [j.blk EXCEPT ![b] = MC!Idle]
      /\ x.spare = <<b>> \o j.spare /\ x.tcbs = j.tcbs /\ x.slot = j.slot
  <2>1. FALSE \in BOOLEAN /\ MC!Idle \in MipsBlock BY MipsIdle
  <2>2. /\ x \in MipsJit /\ x.pool = Backwards(o) \o j.pool /\ x.blk = [j.blk EXCEPT ![b] = MC!Idle]
        /\ x.spare = <<b>> \o j.spare /\ x.tcbs = (IF FALSE THEN MC!RemoveFirst(j.tcbs, b) ELSE j.tcbs)
        /\ x.slot = j.slot
    BY <1>1, <2>1, MipsFreed
  <2> HIDE DEF x
  <2> QED BY <2>2
<1> HIDE DEF x
<1>6. o \in Seq(Exec) /\ Once(o) /\ Els(o) \cap Els(j.pool) = {} /\ Once(j.pool)
  BY <1>1, MipsOwned DEF MipsOK, MipsPages
<1>7. Once(x.pool) /\ Els(x.pool) = Els(o) \cup Els(j.pool)
  <2> HIDE DEF o
  <2>1. Backwards(o) \in Seq(Exec) /\ Once(Backwards(o)) /\ Els(Backwards(o)) = Els(o) BY <1>6, BackwardsOnce
  <2> QED BY <1>1, <1>2, <1>6, <2>1, CatOnce
<1>8. Once(x.spare) /\ Els(x.spare) = Els(j.spare) \cup {b}
  BY <1>1, <1>2, ConsOnce DEF MipsOK, MipsLists
<1>9. x.tcbs = j.tcbs /\ x.slot = j.slot BY <1>2
<1>10. x.blk[b] = MC!Idle /\ \A c \in Blocks \ {b} : x.blk[c] = j.blk[c] BY <1>1, <1>2
<1>11. \A c \in Blocks \ {b} : MC!Owned(x, c) = MC!Owned(j, c) BY <1>9, <1>10 DEF MC!Owned
<1>12. MC!Owned(x, b) = <<>> BY <1>9, <1>10, MipsIdleOwned
<1>13. MipsPages(x)
  <2>0. Els(<<>>) = {} /\ Once(<<>>) BY DEF Els, Once
  <2>1. \A c \in Blocks : Once(MC!Owned(x, c)) /\ Els(MC!Owned(x, c)) \cap Els(x.pool) = {}
    BY <1>7, <1>9, <1>11, <1>12, <2>0 DEF MipsOK, MipsPages
  <2>2. \A c, d \in Blocks : c # d => Els(MC!Owned(x, c)) \cap Els(MC!Owned(x, d)) = {}
    BY <1>11, <1>12, <2>0 DEF MipsOK, MipsPages
  <2>3. \A p \in Exec : p \in Els(x.pool) \/ \E c \in Blocks : p \in Els(MC!Owned(x, c))
    BY <1>7, <1>9, <1>11 DEF MipsOK, MipsPages
  <2> QED BY <1>7, <1>9, <2>1, <2>2, <2>3 DEF MipsPages
<1>14. MipsLists(x, {}) BY <1>8, <1>9, <1>10 DEF MipsOK, MipsLists
<1>15. MipsLinks(x)
  <2>1. Els(j.tcbs) \subseteq Blocks BY <1>1, ElsAt
  <2>2. \A c \in Els(j.tcbs) : x.blk[c] = j.blk[c] BY <1>9, <1>10, <2>1 DEF MipsOK, MipsLists
  <2>3. \A c \in Els(j.tcbs) : MipsListed(j, c) => MipsListed(x, c) BY <1>9, <2>2 DEF MipsListed
  <2> QED BY <1>9, <2>2, <2>3 DEF MipsOK, MipsLinks
<1> QED BY <1>2, <1>13, <1>14, <1>15 DEF MipsOK, x

\* A new block, with its first page of the exec area; or none, for a page that
\* lies on a device.
MipsFoundOK(j, made, b, v) ==
  /\ MipsAfter(j, made.jit, b)
  /\ made.block = IF v \in OnDevice THEN None ELSE b
  /\ v \in OnDevice => MipsOK(made.jit, {}) /\ made.jit.blk[b] = MC!Idle
  /\ v \notin OnDevice =>
       /\ MipsOK(made.jit, {b}) /\ MipsGrown(made.jit.blk[b], made.jit.blk[b], 0)
       /\ made.jit.blk[b].start = v /\ made.jit.blk[b].chunks = <<>>

\* It exists, wherever its page of the exec area comes from
\* (mips64_jit_tcb_create).
LEMMA MipsMade ==
  ASSUME MC!MipsCodeAssumption, NEW j, MipsOK(j, {}), NEW v \in CodePage
  PROVE  \E b \in Blocks \ Els(j.tcbs) : MipsFoundOK(j, MC!Found(MC!tcb_alloc(j), v), b, v)
<1> DEFINE got == MC!tcb_alloc(j)
           a   == got.jit
           b   == got.block
<1>1. /\ MipsOK(a, {b}) /\ b \in Blocks /\ b \notin Els(j.tcbs)
      /\ a.blk = j.blk /\ a.tcbs = j.tcbs /\ a.slot = j.slot /\ a.blk[b] = MC!Idle
  BY MipsTcbAlloc
<1> DEFINE k1 == [a EXCEPT !.blk[b].start = v]
<1>2. MC!Found(got, v) = MC!Furnish(MC!exec_page_alloc(k1), b, v) BY DEF MC!Found
<1> HIDE DEF got, a, b
<1> DEFINE q1 == [MC!Idle EXCEPT !.start = v]
           B1 == [a.blk EXCEPT ![b] = q1]
<1>3. a \in MipsJit /\ a.blk \in [Blocks -> MipsBlock] /\ DOMAIN a.blk = Blocks BY <1>1 DEF MipsOK, MipsJit
<1>4. k1 = [a EXCEPT !.blk = B1] BY <1>1, <1>3
<1>5. /\ q1 \in MipsBlock /\ q1.start = v /\ q1.buffer = None /\ q1.chunks = <<>> /\ ~ q1.over
  <2>1. MC!Idle \in MipsBlock BY MipsIdle
  <2> QED BY <2>1 DEF MipsBlock, MC!Idle
<1>6. B1 \in [Blocks -> MipsBlock] /\ B1[b] = q1 /\ \A c \in Blocks \ {b} : B1[c] = a.blk[c] BY <1>1, <1>3, <1>5
<1> HIDE DEF q1, B1, k1
<1>7. /\ k1 \in MipsJit /\ k1.pool = a.pool /\ k1.spare = a.spare /\ k1.tcbs = a.tcbs /\ k1.slot = a.slot /\ k1.blk = B1
  BY <1>3, <1>4, <1>6 DEF MipsJit
<1>8. MipsOK(k1, {b})
  <2>1. a.blk[b].chunks = <<>> /\ a.blk[b].buffer = None BY <1>1 DEF MC!Idle
  <2>2. b \in {b} OBVIOUS
  <2> QED BY <1>1, <1>5, <1>6, <1>7, <2>1, <2>2, MipsTouchNew
<1>10. MC!Owned(k1, b) = <<>> /\ Len(MC!Owned(k1, b)) <= MaxFill
  BY <1>5, <1>6, <1>7 DEF MC!Owned, MC!MipsCodeAssumption
<1>11. PICK k : /\ MipsOK(k, {b}) /\ MipsLess(k1, k) /\ k.pool # <<>>
                /\ MC!exec_page_alloc(k1) = [jit |-> [k EXCEPT !.pool = Tail(@)], page |-> Head(k.pool)]
  BY <1>1, <1>8, <1>10, MipsAlloc
<1>12. MipsAfter(k1, k, b) /\ k.blk[b] = q1 /\ MC!Owned(k, b) = <<>>
  <2>1. MipsAfter(k1, k, b) /\ k.blk[b] = k1.blk[b] /\ MC!Owned(k, b) = MC!Owned(k1, b)
    BY <1>1, <1>8, <1>11, MipsLessAfter
  <2> QED BY <1>6, <1>7, <1>10, <2>1
<1> DEFINE m == [k EXCEPT !.pool = Tail(@)]
           p == Head(k.pool)
           l == [m EXCEPT !.blk[b].buffer = p, !.blk[b].ptr = p]
<1>13. k \in MipsJit /\ k.pool \in Seq(Exec) /\ Once(k.pool) BY <1>11 DEF MipsOK, MipsJit, MipsPages
<1>14. p \in Els(k.pool) /\ p \in Exec /\ Tail(k.pool) \in Seq(Exec) /\ p # None
  BY <1>11, <1>13, TailOnce, MipsIdle
<1>15. MC!Found(got, v) = IF v \in OnDevice THEN [jit |-> MC!tcb_free(l, b, FALSE), block |-> None]
                          ELSE [jit |-> l, block |-> b]
  <2> HIDE DEF m, p
  <2>1. MC!Found(got, v) = MC!Furnish([jit |-> m, page |-> p], b, v) BY <1>2, <1>11 DEF m, p
  <2> QED BY <1>14, <2>1 DEF MC!Furnish
<1>16. /\ m \in MipsJit /\ m.pool = Tail(k.pool) /\ m.spare = k.spare /\ m.tcbs = k.tcbs /\ m.slot = k.slot /\ m.blk = k.blk
  BY <1>13, <1>14 DEF MipsJit
<1> HIDE DEF m
<1> DEFINE q == [q1 EXCEPT !.buffer = p, !.ptr = p]
           B == [m.blk EXCEPT ![b] = q]
<1>17. m.blk \in [Blocks -> MipsBlock] /\ DOMAIN m.blk = Blocks /\ m.blk[b] = q1 BY <1>12, <1>16 DEF MipsJit
<1>18. q \in MipsBlock /\ q.buffer = p /\ q.ptr = p /\ q.start = v /\ q.chunks = <<>> /\ ~ q.over
  <2> HIDE DEF p
  <2> QED BY <1>5, <1>14 DEF MipsBlock
<1>19. l = [m EXCEPT !.blk = B] BY <1>1, <1>17
<1>20. B \in [Blocks -> MipsBlock] /\ B[b] = q /\ \A c \in Blocks \ {b} : B[c] = k.blk[c] BY <1>1, <1>16, <1>17, <1>18
<1> HIDE DEF q, B, l, p
<1>21. /\ l \in MipsJit /\ l.pool = Tail(k.pool) /\ l.spare = k.spare /\ l.tcbs = k.tcbs /\ l.slot = k.slot /\ l.blk = B
  BY <1>16, <1>19, <1>20 DEF MipsJit
<1>22. MC!Owned(l, b) = <<p>>
  <2>1. Append(<<>>, p) = <<p>> OBVIOUS
  <2> QED BY <1>14, <1>18, <1>20, <1>21, <2>1 DEF MC!Owned
<1>23. Once(MC!Owned(l, b)) /\ Els(MC!Owned(l, b)) = Els(MC!Owned(k, b)) \cup {p}
  BY <1>12, <1>22 DEF Once, Els
<1>24. MipsOK(l, {b})
  <2>1. \A c \in Blocks \ {b} : l.blk[c] = k.blk[c] BY <1>20, <1>21
  <2>2. b \in {b} OBVIOUS
  <2> QED BY <1>1, <1>11, <1>21, <1>23, <2>1, <2>2, MipsTake DEF p
<1>25. MipsAfter(j, l, b) BY <1>1, <1>6, <1>7, <1>12, <1>20, <1>21 DEF MipsAfter
<1>26. MipsGrown(l.blk[b], l.blk[b], 0)
  <2>1. l.blk[b] = q BY <1>20, <1>21
  <2>2. Len(q.chunks) + 0 = Len(q.chunks) BY <1>18
  <2> QED BY <1>14, <1>18, <2>1, <2>2 DEF MipsGrown
<1>27. CASE v \notin OnDevice
  <2>1. MC!Found(got, v) = [jit |-> l, block |-> b] BY <1>15, <1>27
  <2>2. l.blk[b] = q BY <1>20, <1>21
  <2>3. MipsFoundOK(j, MC!Found(got, v), b, v) BY <1>18, <1>24, <1>25, <1>26, <1>27, <2>1, <2>2 DEF MipsFoundOK
  <2> QED BY <1>1, <2>3 DEF got
<1>28. CASE v \in OnDevice
  <2> DEFINE x == MC!tcb_free(l, b, FALSE)
  <2>1. MC!Found(got, v) = [jit |-> x, block |-> None] BY <1>15, <1>28
  <2>2. MipsOK(x, {}) /\ x.blk = [l.blk EXCEPT ![b] = MC!Idle] /\ x.tcbs = l.tcbs /\ x.slot = l.slot
    BY <1>1, <1>24, MipsGiveUp
  <2> HIDE DEF x
  <2>3. x.blk[b] = MC!Idle /\ \A c \in Blocks \ {b} : x.blk[c] = l.blk[c]
    BY <1>1, <1>20, <1>21, <2>2
  <2>4. MipsAfter(j, x, b) BY <1>25, <2>2, <2>3 DEF MipsAfter
  <2> DEFINE made == MC!Found(got, v)
  <2>5. made.jit = x /\ made.block = None BY <2>1
  <2>a. MipsOK(x, {}) /\ x.blk[b] = MC!Idle BY <2>2, <2>3
  <2> HIDE DEF made
  <2>6. MipsFoundOK(j, made, b, v) BY <1>28, <2>a, <2>4, <2>5 DEF MipsFoundOK
  <2> QED BY <1>1, <2>6 DEF got, made
<1> QED BY <1>27, <1>28

\* What two code caches with the same parts are.
LEMMA MipsSame ==
  ASSUME NEW j \in MipsJit, NEW k \in MipsJit,
         j.pool = k.pool, j.blk = k.blk, j.spare = k.spare, j.tcbs = k.tcbs, j.slot = k.slot,
         j.method = k.method
  PROVE  j = k
<1> DEFINE r(x) == [ pool |-> x.pool, blk |-> x.blk, spare |-> x.spare, tcbs |-> x.tcbs, slot |-> x.slot,
                     method |-> x.method ]
<1>1. ASSUME NEW x \in MipsJit PROVE x = r(x) BY <1>1 DEF MipsJit
<1>2. j = r(j) BY <1>1
<1>3. k = r(k) BY <1>1
<1>4. r(j) = r(k) OBVIOUS
<1> QED BY <1>2, <1>3, <1>4

\* A listed block is freed and its hash slot is emptied, before or after.
LEMMA MipsFreeing ==
  ASSUME NEW j, NEW X, MipsOK(j, X), NEW b \in Els(j.tcbs), MC!Idle \in MipsBlock
  PROVE  [MC!tcb_free(j, b, TRUE) EXCEPT !.slot[SlotOf[j.blk[b].start]] = None] = MC!Drop(j, b)
<1> DEFINE x == MC!tcb_free(j, b, TRUE)
           s == SlotOf[j.blk[b].start]
           y == [x EXCEPT !.slot[s] = None]
           k == MC!Drop(j, b)
<1>1. j \in MipsJit /\ b \in Blocks /\ Once(j.tcbs) /\ j.slot \in [Slot -> Blocks \cup {None}]
  <2>1. j \in MipsJit /\ j.tcbs \in Seq(Blocks) /\ Once(j.tcbs) /\ j.slot \in [Slot -> Blocks \cup {None}]
    BY DEF MipsOK, MipsJit, MipsLists
  <2> QED BY <2>1, ElsAt
<1>2. /\ x \in MipsJit
      /\ x.pool = Backwards(MC!Owned(j, b)) \o j.pool
      /\ x.blk = [j.blk EXCEPT ![b] = MC!Idle]
      /\ x.spare = <<b>> \o j.spare
      /\ x.tcbs = MC!RemoveFirst(j.tcbs, b)
      /\ x.slot = j.slot /\ x.method = j.method
  <2>1. TRUE \in BOOLEAN OBVIOUS
  <2> QED BY <1>1, <2>1, MipsFreed
<1>3. /\ k \in MipsJit
      /\ k.pool = Backwards(MC!Owned(j, b)) \o j.pool
      /\ k.blk = [j.blk EXCEPT ![b] = MC!Idle]
      /\ k.spare = <<b>> \o j.spare
      /\ k.tcbs = MC!RemoveFirst(j.tcbs, b)
      /\ k.slot = [j.slot EXCEPT ![s] = None] /\ k.method = j.method
  BY <1>1, MipsDropped
<1> HIDE DEF x, k, s
<1>4. /\ y \in MipsJit /\ y.pool = x.pool /\ y.blk = x.blk /\ y.spare = x.spare /\ y.tcbs = x.tcbs
      /\ y.slot = [x.slot EXCEPT ![s] = None] /\ y.method = x.method
  <2>1. [x.slot EXCEPT ![s] = None] \in [Slot -> Blocks \cup {None}] BY <1>1, <1>2
  <2> QED BY <1>2, <2>1 DEF MipsJit
<1> HIDE DEF y
<1>5. y = k
  <2>1. /\ y \in MipsJit /\ k \in MipsJit /\ y.pool = k.pool /\ y.blk = k.blk /\ y.spare = k.spare
        /\ y.tcbs = k.tcbs /\ y.slot = k.slot /\ y.method = k.method
    BY <1>2, <1>3, <1>4
  <2> QED BY <2>1, MipsSame
<1> QED BY <1>5 DEF y, x, k, s

\* A block whose code is complete is listed, and its hash slot is filled.
MipsEnlists(l, x, b, v) ==
  /\ l.blk[b].buffer # None /\ l.blk[b].ptr = l.blk[b].buffer /\ ~ l.blk[b].over
  /\ l.blk[b].start = v /\ l.slot[SlotOf[v]] = None
  /\ x.pool = l.pool /\ x.spare = l.spare /\ x.tcbs = <<b>> \o l.tcbs
  /\ x.slot = [l.slot EXCEPT ![SlotOf[v]] = b]
  /\ \A c \in Blocks \ {b} : x.blk[c] = l.blk[c]
  /\ x.blk[b].chunks = l.blk[b].chunks /\ x.blk[b].buffer = l.blk[b].buffer
  /\ x.blk[b].ptr = l.blk[b].ptr /\ x.blk[b].over = l.blk[b].over
  /\ x.blk[b].start = l.blk[b].start

\* The block is found like the others then.
LEMMA MipsEnlisted ==
  ASSUME MC!MipsCodeAssumption, NEW l, NEW b \in Blocks, MipsOK(l, {b}), NEW v \in CodePage,
         NEW x \in MipsJit, MipsEnlists(l, x, b, v)
  PROVE  MipsOK(x, {})
<1>0. /\ l.blk[b].buffer # None /\ l.blk[b].ptr = l.blk[b].buffer /\ ~ l.blk[b].over
      /\ l.blk[b].start = v /\ l.slot[SlotOf[v]] = None
      /\ x.pool = l.pool /\ x.spare = l.spare /\ x.tcbs = <<b>> \o l.tcbs
          /\ x.slot = [l.slot EXCEPT ![SlotOf[v]] = b]
      /\ \A c \in Blocks \ {b} : x.blk[c] = l.blk[c]
      /\ x.blk[b].chunks = l.blk[b].chunks /\ x.blk[b].buffer = l.blk[b].buffer
      /\ x.blk[b].ptr = l.blk[b].ptr /\ x.blk[b].over = l.blk[b].over
      /\ x.blk[b].start = l.blk[b].start
  BY DEF MipsEnlists
<1> USE <1>0
<1>1. /\ l.tcbs \in Seq(Blocks) /\ Els(l.tcbs) \subseteq Blocks
      /\ l.slot \in [Slot -> Blocks \cup {None}]
  <2>1. l.tcbs \in Seq(Blocks) /\ l.slot \in [Slot -> Blocks \cup {None}]
    BY DEF MipsOK, MipsJit
  <2> QED BY <2>1, ElsAt
<1> DEFINE s == SlotOf[v]
<1>2. s \in Slot /\ None \notin Blocks BY MipsIdle DEF MC!MipsCodeAssumption
<1>3. b \notin Els(l.tcbs) /\ b \notin Els(l.spare) BY DEF MipsOK, MipsLists
<1>4. Once(x.tcbs) /\ Els(x.tcbs) = Els(l.tcbs) \cup {b} BY <1>1, <1>3, ConsOnce DEF MipsOK, MipsLists
<1>5. x.slot[s] = b /\ \A t \in Slot \ {s} : x.slot[t] = l.slot[t] BY <1>1, <1>2
<1> HIDE DEF s
<1>7. MipsPages(x)
  <2>1. \A c \in Blocks : MC!Owned(x, c) = MC!Owned(l, c) BY DEF MC!Owned
  <2> QED BY <2>1 DEF MipsOK, MipsPages
<1>8. MipsLists(x, {}) BY <1>3, <1>4 DEF MipsOK, MipsLists
<1>9. MipsLinks(x)
  <2>1. ASSUME NEW c \in Els(x.tcbs) PROVE MipsListed(x, c)
    <3>1. CASE c = b BY <1>5, <3>1 DEF MipsListed, s
    <3>2. CASE c # b
      <4>1. c \in Els(l.tcbs) /\ c \in Blocks /\ x.blk[c] = l.blk[c] BY <1>1, <1>4, <3>2
      <4>2. MipsListed(l, c) BY <4>1 DEF MipsOK, MipsLinks
      <4>3. SlotOf[l.blk[c].start] \in Slot /\ SlotOf[l.blk[c].start] # s
        BY <1>2, <4>1, <4>2 DEF MipsListed, MC!MipsCodeAssumption, s
      <4>6. x.slot[SlotOf[l.blk[c].start]] = c BY <1>5, <4>2, <4>3 DEF MipsListed
      <4>7. MipsListed(l, c) => MipsListed(x, c) BY ONLY <4>1, <4>6 DEF MipsListed
      <4> QED BY <4>2, <4>7
    <3> QED BY <3>1, <3>2
  <2>2. ASSUME NEW t \in Slot, x.slot[t] # None
        PROVE  x.slot[t] \in Els(x.tcbs) /\ SlotOf[x.blk[x.slot[t]].start] = t
    <3>1. CASE t = s BY <1>4, <1>5, <3>1 DEF s
    <3>2. CASE t # s
      <4>1. x.slot[t] = l.slot[t] /\ l.slot[t] # None BY <1>5, <2>2, <3>2
      <4>2. l.slot[t] \in Els(l.tcbs) /\ SlotOf[l.blk[l.slot[t]].start] = t BY <4>1 DEF MipsOK, MipsLinks
      <4>3. x.blk[l.slot[t]] = l.blk[l.slot[t]] BY <1>1, <1>3, <4>2
      <4> QED BY <1>4, <4>1, <4>2, <4>3
    <3> QED BY <3>1, <3>2
  <2> QED BY <2>1, <2>2 DEF MipsLinks
<1> QED BY <1>7, <1>8, <1>9 DEF MipsOK

\* No code comes about when blocks are flushed while one that is not listed is made,
LEMMA MipsAfterKeeps ==
  ASSUME MC!MipsCodeAssumption, NEW j, NEW X, MipsOK(j, X), NEW k, NEW b, MipsAfter(j, k, b), b \notin Els(j.tcbs)
  PROVE  Keeps(j, k)
<1>1. Els(j.tcbs) \subseteq Blocks
  <2>1. j.tcbs \in Seq(Blocks) BY DEF MipsOK, MipsJit
  <2> QED BY <2>1, ElsAt
<1>2. ASSUME NEW s \in Slot, k.slot[s] # None
      PROVE  k.slot[s] = j.slot[s] /\ k.blk[j.slot[s]] = j.blk[j.slot[s]]
  <2>1. k.slot[s] = j.slot[s] /\ j.slot[s] # None /\ j.slot[s] \notin Els(j.tcbs) \ Els(k.tcbs)
    BY <1>2 DEF MipsAfter
  <2>2. j.slot[s] \in Els(j.tcbs) BY <2>1 DEF MipsOK, MipsLinks
  <2> QED BY <1>1, <2>1, <2>2 DEF MipsAfter
<1>3. SlotsKept(j, k) BY <1>2 DEF SlotsKept, SlotKept
<1> QED BY <1>3, Kept

\* when a block is freed,
LEMMA MipsDropKeeps ==
  ASSUME MC!MipsCodeAssumption, NEW j, NEW X, MipsOK(j, X), NEW b \in Els(j.tcbs)
  PROVE  Keeps(j, MC!Drop(j, b))
<1> DEFINE k == MC!Drop(j, b)
<1>1. /\ k.blk = [j.blk EXCEPT ![b] = MC!Idle]
      /\ \A s \in Slot : k.slot[s] = IF j.slot[s] = b THEN None ELSE j.slot[s]
  BY MipsDropOK
<1> HIDE DEF k
<1>2. j.tcbs \in Seq(Blocks) /\ j.blk \in [Blocks -> MipsBlock] BY DEF MipsOK, MipsJit
<1>3. Els(j.tcbs) \subseteq Blocks BY <1>2, ElsAt
<1>4. ASSUME NEW s \in Slot, k.slot[s] # None
      PROVE  k.slot[s] = j.slot[s] /\ k.blk[j.slot[s]] = j.blk[j.slot[s]]
  <2>1. k.slot[s] = j.slot[s] /\ j.slot[s] # b /\ j.slot[s] # None BY <1>1, <1>4
  <2>2. j.slot[s] \in Els(j.tcbs) BY <2>1 DEF MipsOK, MipsLinks
  <2> QED BY <1>1, <1>2, <1>3, <2>1, <2>2
<1>5. SlotsKept(j, k) BY <1>4 DEF SlotsKept, SlotKept
<1>6. Keeps(j, k) BY <1>5, Kept
<1> QED BY <1>6 DEF k

\* and when one that was made is found from now on.
LEMMA MipsEnlistedKeeps ==
  ASSUME MC!MipsCodeAssumption, NEW l, NEW b \in Blocks, MipsOK(l, {b}), NEW v \in CodePage,
         NEW x \in MipsJit, MipsEnlists(l, x, b, v), x.blk[b].image = mem[Map[v]]
  PROVE  Keeps(l, x)
<1> SUFFICES ASSUME NEW w \in CodePage
             PROVE  CodeOf(x, w) \subseteq CodeOf(l, w) \cup {mem[Map[w]]}
  BY DEF Keeps
<1>1. /\ SlotOf[w] \in Slot /\ SlotOf[v] \in Slot /\ l.slot \in [Slot -> Blocks \cup {None}]
      /\ l.tcbs \in Seq(Blocks)
  BY DEF MC!MipsCodeAssumption, MipsOK, MipsJit
<1>2. /\ x.slot = [l.slot EXCEPT ![SlotOf[v]] = b] /\ x.blk[b].start = v
      /\ \A c \in Blocks \ {b} : x.blk[c] = l.blk[c]
  BY DEF MipsEnlists
<1>3. CASE SlotOf[w] = SlotOf[v]
  <2>1. x.slot[SlotOf[w]] = b BY <1>1, <1>2, <1>3
  <2> QED BY <1>2, <2>1 DEF CodeOf
<1>4. CASE SlotOf[w] # SlotOf[v]
  <2> DEFINE d == l.slot[SlotOf[w]]
  <2>1. x.slot[SlotOf[w]] = d BY <1>1, <1>2, <1>4
  <2>2. CASE d = None BY <2>1, <2>2 DEF CodeOf
  <2>3. CASE d # None
    <3>1. d \in Els(l.tcbs) BY <1>1, <2>3 DEF MipsOK, MipsLinks
    <3>2. d \in Blocks /\ d # b BY <1>1, <3>1, ElsAt DEF MipsOK, MipsLists
    <3>3. x.blk[d] = l.blk[d] BY <1>2, <3>2
    <3> QED BY <2>1, <3>3 DEF CodeOf
  <2> QED BY <2>2, <2>3
<1> QED BY <1>3, <1>4

\* Between two steps: nothing is being made, and the pages of the code that runs
\* belong to no other block.
MipsRuns(j, r) == r # None => \A c \in Els(j.tcbs) : c # r.block => MC!Pages(j, c) \cap r.pages = {}
MipsCodeInv == MipsOK(jit, {}) /\ mem \in [Phys -> Images] /\ MipsRuns(jit, running)

\* The slot of a page is emptied for its block.
LEMMA MipsEvict ==
  ASSUME MC!MipsCodeAssumption, NEW j, MipsOK(j, {}), NEW s \in Slot
  PROVE  MipsOK(MC!Evict(j, s), {}) /\ MC!Evict(j, s).slot[s] = None /\ Keeps(j, MC!Evict(j, s))
<1>1. CASE j.slot[s] = None BY <1>1, KeepsSelf DEF MC!Evict
<1>2. CASE j.slot[s] # None
  <2> DEFINE b == j.slot[s]
             k == MC!Drop(j, b)
  <2>1. b \in Els(j.tcbs) /\ SlotOf[j.blk[b].start] = s BY <1>2 DEF MipsOK, MipsLinks
  <2>2. MC!Evict(j, s) = k BY <1>2, <2>1, MipsFreeing, MipsIdle DEF MC!Evict
  <2> HIDE DEF b
  <2>3. MipsOK(k, {}) /\ \A t \in Slot : k.slot[t] = IF j.slot[t] = b THEN None ELSE j.slot[t]
    BY <2>1, MipsDropOK
  <2>4. k.slot[s] = None BY <2>3 DEF b
  <2>5. Keeps(j, k) BY <2>1, MipsDropKeeps DEF b
  <2> HIDE DEF k
  <2> QED BY <2>2, <2>3, <2>4, <2>5
<1> QED BY <1>1, <1>2

\* A page that has no block is compiled: its block is complete, listed and found.
LEMMA MipsCompiled ==
  ASSUME MC!MipsCodeAssumption, mem \in [Phys -> Images], NEW j, MipsOK(j, {}), NEW v \in CodePage,
         NEW n \in 0 .. MaxFill, j.slot[SlotOf[v]] = None
  PROVE  LET made == MC!tcb_compile(j, v, n)
             c    == MC!Count(made.jit, SlotOf[v], made.block)
         IN  /\ made.block = None => MipsOK(made.jit, {}) /\ Keeps(j, made.jit)
             /\ made.block # None => MipsOK(c, {}) /\ Keeps(j, c) /\ made.block \in Els(c.tcbs)
<1> DEFINE made == MC!tcb_compile(j, v, n)
           new == MC!Found(MC!tcb_alloc(j), v)
<1>1. made = MC!Finish(new, v, n) BY DEF MC!tcb_compile, MC!tcb_create
<1>2. PICK b \in Blocks \ Els(j.tcbs) : MipsFoundOK(j, new, b, v) BY MipsMade
<1>3. PICK f : MipsGenOf(new, v, n, f)
  <2>1. n \in Nat BY DEF MC!MipsCodeAssumption
  <2> QED BY <2>1, MipsGenSteps
<1> HIDE DEF new
<1>a. None \notin Blocks BY MipsIdle
<1>4. CASE v \in OnDevice
  <2>1. new.block = None /\ made = new BY <1>1, <1>2, <1>3, <1>4 DEF MipsFoundOK, MipsGenOf
  <2>2. MipsOK(new.jit, {}) /\ MipsAfter(j, new.jit, b) BY <1>2, <1>4 DEF MipsFoundOK
  <2>3. Keeps(j, new.jit) BY <2>2, MipsAfterKeeps
  <2> HIDE DEF made
  <2> QED BY <2>1, <2>2, <2>3 DEF made
<1>5. CASE v \notin OnDevice
  <2> DEFINE k == new.jit
             l == f[n]
  <2>1. /\ new.block = b /\ MipsAfter(j, k, b)
        /\ MipsOK(k, {b}) /\ MipsGrown(k.blk[b], k.blk[b], 0)
        /\ k.blk[b].start = v /\ k.blk[b].chunks = <<>>
    BY <1>2, <1>5 DEF MipsFoundOK
  <2>2. /\ made = [ jit |-> [l EXCEPT !.blk[b].image = mem[Map[v]], !.tcbs = <<b>> \o @], block |-> b ]
        /\ f[0] = k /\ \A i \in 1 .. n : f[i] = MC!adjust_buffer(f[i - 1], b)
    BY <1>a, <1>1, <1>2, <1>3, <2>1 DEF MipsGenOf
  <2> HIDE DEF k, made
  <2>3. MipsOK(l, {b}) /\ MipsAfter(k, l, b) /\ MipsGrown(k.blk[b], l.blk[b], n)
    BY <2>1, <2>2, MipsGrow
  <2> HIDE DEF l
  <2>4. /\ l \in MipsJit /\ l.tcbs \in Seq(Blocks) /\ l.slot \in [Slot -> Blocks \cup {None}]
        /\ l.blk \in [Blocks -> MipsBlock] /\ l.blk[b] \in MipsBlock
    BY <2>3 DEF MipsOK, MipsJit
  <2>5. mem[Map[v]] \in Images /\ SlotOf[v] \in Slot BY DEF MC!MipsCodeAssumption
  <2> DEFINE s == SlotOf[v]
             T == <<b>> \o l.tcbs
             S == [l.slot EXCEPT ![s] = b]
             a == IF l.blk[b].acc > Threshold THEN l.blk[b].acc ELSE l.blk[b].acc + 1
             q0 == [l.blk[b] EXCEPT !.image = mem[Map[v]]]
             B0 == [l.blk EXCEPT ![b] = q0]
             e == [l EXCEPT !.blk = B0, !.tcbs = T]
             q == [q0 EXCEPT !.acc = a]
             B == [B0 EXCEPT ![b] = q]
             x == [e EXCEPT !.slot = S, !.blk = B]
  <2>6. made = [jit |-> e, block |-> b]
    <3>1. [l EXCEPT !.blk[b].image = mem[Map[v]], !.tcbs = <<b>> \o @] = e BY <2>4 DEF MipsJit
    <3> QED BY <2>2, <3>1
  <2>7. a \in Nat BY <2>4 DEF MipsBlock
  <2>8. q0 \in MipsBlock /\ q0.acc = l.blk[b].acc /\ q0.image = mem[Map[v]] BY <2>4, <2>5 DEF MipsBlock
  <2>9. /\ q \in MipsBlock /\ q.chunks = l.blk[b].chunks /\ q.buffer = l.blk[b].buffer
        /\ q.ptr = l.blk[b].ptr /\ q.over = l.blk[b].over /\ q.start = l.blk[b].start
        /\ q.image = mem[Map[v]]
    <3> HIDE DEF a
    <3> QED BY <2>4, <2>5, <2>7 DEF MipsBlock
  <2>10. T \in Seq(Blocks) /\ S \in [Slot -> Blocks \cup {None}] BY <2>4, <2>5
  <2>11. B0 \in [Blocks -> MipsBlock] /\ B0[b] = q0 /\ \A c \in Blocks \ {b} : B0[c] = l.blk[c]
    <3> HIDE DEF q0
    <3> QED BY <2>4, <2>8
  <2> HIDE DEF B0, T, S
  <2>12. /\ e \in MipsJit /\ e.pool = l.pool /\ e.spare = l.spare /\ e.tcbs = T /\ e.slot = l.slot
         /\ e.blk = B0
    BY <2>4, <2>10, <2>11 DEF MipsJit
  <2> HIDE DEF e
  <2>13. MC!Count(e, s, b) = x
    <3>1. MC!Count(e, s, b) = [e EXCEPT !.slot[s] = b, !.blk[b].acc = a]
      <4> HIDE DEF q0
      <4> QED BY <2>8, <2>11, <2>12 DEF MC!Count
    <3> HIDE DEF a, q0
    <3>2. [e.slot EXCEPT ![s] = b] = S BY <2>12 DEF S
    <3>3. [e.blk EXCEPT ![b].acc = a] = B BY <2>11, <2>12
    <3>4. DOMAIN e = {"pool", "blk", "spare", "tcbs", "slot", "method"} BY <2>12 DEF MipsJit
    <3> HIDE DEF B
    <3> QED BY <3>1, <3>2, <3>3, <3>4
  <2> HIDE DEF a, q0
  <2>14. B \in [Blocks -> MipsBlock] /\ B[b] = q /\ \A c \in Blocks \ {b} : B[c] = l.blk[c]
    <3> HIDE DEF q
    <3> QED BY <2>9, <2>11
  <2> HIDE DEF q, B
  <2>15. /\ x \in MipsJit /\ x.pool = l.pool /\ x.spare = l.spare /\ x.tcbs = T /\ x.slot = S /\ x.blk = B
    BY <2>10, <2>12, <2>14 DEF MipsJit
  <2> HIDE DEF x
  <2>16. MipsOK(x, {}) /\ Keeps(l, x)
    <3>1. l.slot[SlotOf[v]] = None /\ l.blk[b].start = v BY <2>1, <2>3, <2>5 DEF MipsAfter, MipsGrown
    <3>2. l.blk[b].buffer # None /\ l.blk[b].ptr = l.blk[b].buffer /\ ~ l.blk[b].over BY <2>3 DEF MipsGrown
    <3>3. /\ x.blk[b].chunks = l.blk[b].chunks /\ x.blk[b].buffer = l.blk[b].buffer
          /\ x.blk[b].ptr = l.blk[b].ptr /\ x.blk[b].over = l.blk[b].over
          /\ x.blk[b].start = l.blk[b].start
          /\ \A c \in Blocks \ {b} : x.blk[c] = l.blk[c]
      BY <2>9, <2>14, <2>15
    <3>4. x.tcbs = <<b>> \o l.tcbs /\ x.slot = [l.slot EXCEPT ![SlotOf[v]] = b] BY <2>15 DEF T, S, s
    <3>5. b \in Blocks /\ x \in MipsJit /\ x.pool = l.pool /\ x.spare = l.spare BY <2>15
    <3>6. MipsEnlists(l, x, b, v) BY ONLY <3>1, <3>2, <3>3, <3>4, <3>5 DEF MipsEnlists
    <3>7. MipsOK(x, {}) BY <2>3, <3>5, <3>6, MipsEnlisted
    <3>8. x.blk[b].image = mem[Map[v]] BY <2>9, <2>14, <2>15
    <3>9. Keeps(l, x) BY <2>3, <3>5, <3>6, <3>8, MipsEnlistedKeeps
    <3> QED BY <3>7, <3>9
  <2>a. Keeps(j, x)
    <3>1. Keeps(j, k) BY <2>1, MipsAfterKeeps
    <3>2. b \notin Els(k.tcbs) BY <2>1 DEF MipsAfter
    <3>3. Keeps(k, l) BY <2>1, <2>3, <3>2, MipsAfterKeeps
    <3> QED BY <2>16, <3>1, <3>3, KeepsTwice
  <2>17. b \in Els(x.tcbs) BY <2>4, <2>15, ConsOnce DEF T
  <2>18. made.block = b /\ made.jit = e BY <2>6
  <2>19. MC!Count(made.jit, SlotOf[v], made.block) = x BY <2>13, <2>18 DEF s
  <2> QED BY <1>a, <2>16, <2>a, <2>17, <2>18, <2>19 DEF made
<1> QED BY <1>4, <1>5

\* What no link leads through may change in the record of a listed block.
LEMMA MipsTouch ==
  ASSUME NEW k, NEW X, MipsOK(k, X), NEW b \in Els(k.tcbs), NEW l \in MipsJit,
         l.pool = k.pool, l.spare = k.spare, l.tcbs = k.tcbs, l.slot = k.slot,
         \A c \in Blocks \ {b} : l.blk[c] = k.blk[c],
         l.blk[b].chunks = k.blk[b].chunks, l.blk[b].buffer = k.blk[b].buffer,
         l.blk[b].ptr = k.blk[b].ptr, l.blk[b].over = k.blk[b].over, l.blk[b].start = k.blk[b].start
  PROVE  MipsOK(l, X)
<1>1. \A c \in Blocks : MC!Owned(l, c) = MC!Owned(k, c) BY DEF MC!Owned
<1>2. MipsPages(l) BY <1>1 DEF MipsOK, MipsPages
<1>3. MipsLists(l, X) BY DEF MipsOK, MipsLists
<1>4. MipsLinks(l)
  <2>0. \A c \in Blocks : l.blk[c].start = k.blk[c].start
        /\ l.blk[c].buffer = k.blk[c].buffer /\ l.blk[c].ptr = k.blk[c].ptr /\ l.blk[c].over = k.blk[c].over
    OBVIOUS
  <2>a. k.tcbs \in Seq(Blocks) /\ Els(k.tcbs) \subseteq Blocks BY ElsAt DEF MipsOK, MipsJit
  <2>1. ASSUME NEW c \in Els(l.tcbs) PROVE MipsListed(l, c)
    <3>1. MipsListed(k, c) /\ c \in Blocks BY <2>a DEF MipsOK, MipsLinks
    <3> QED BY <2>0, <3>1 DEF MipsListed
  <2>2. ASSUME NEW s \in Slot, l.slot[s] # None
        PROVE  l.slot[s] \in Els(l.tcbs) /\ SlotOf[l.blk[l.slot[s]].start] = s
    BY <2>0, <2>a, <2>2 DEF MipsOK, MipsLinks
  <2> QED BY <2>1, <2>2 DEF MipsLinks
<1> QED BY <1>2, <1>3, <1>4 DEF MipsOK

\* One more use of the block in its slot.
LEMMA MipsCountedOK ==
  ASSUME MC!MipsCodeAssumption, NEW j, MipsOK(j, {}), NEW s \in Slot, j.slot[s] \in Els(j.tcbs)
  PROVE  LET b == j.slot[s]
             k == MC!Count(j, s, b)
         IN  MipsOK(k, {}) /\ b \in Els(k.tcbs) /\ Keeps(j, k)
<1> DEFINE b == j.slot[s]
           a == IF j.blk[b].acc > Threshold THEN j.blk[b].acc ELSE j.blk[b].acc + 1
           q == [j.blk[b] EXCEPT !.acc = a]
           B == [j.blk EXCEPT ![b] = q]
           k == [j EXCEPT !.blk = B]
<1>1. /\ j \in MipsJit /\ b \in Blocks /\ Els(j.tcbs) \subseteq Blocks
      /\ j.blk \in [Blocks -> MipsBlock] /\ j.blk[b] \in MipsBlock /\ j.slot \in [Slot -> Blocks \cup {None}]
  <2>1. /\ j \in MipsJit /\ j.tcbs \in Seq(Blocks) /\ j.blk \in [Blocks -> MipsBlock]
        /\ j.slot \in [Slot -> Blocks \cup {None}]
    BY DEF MipsOK, MipsJit
  <2> QED BY <2>1, ElsAt
<1>2. MC!Count(j, s, b) = k
  <2>1. DOMAIN j = {"pool", "blk", "spare", "tcbs", "slot", "method"} /\ DOMAIN j.blk = Blocks
        /\ j \in [DOMAIN j -> {j[f] : f \in DOMAIN j}]
    BY <1>1 DEF MipsJit
  <2>2. [j.slot EXCEPT ![s] = b] = j.slot BY <1>1
  <2>3. MC!Count(j, s, b) = [j EXCEPT !.slot[s] = b, !.blk[b].acc = a] BY <1>1, <2>1 DEF MC!Count
  <2>4. [j EXCEPT !.slot[s] = b, !.blk[b].acc = a] = [j EXCEPT !.slot = [j.slot EXCEPT ![s] = b], !.blk = B]
    <3> HIDE DEF a, b
    <3> QED BY <2>1
  <2>5. [j EXCEPT !.slot = j.slot, !.blk = B] = k
    <3> HIDE DEF B
    <3> QED BY <2>1
  <2> HIDE DEF B
  <2> QED BY <2>2, <2>3, <2>4, <2>5
<1>3. a \in Nat BY <1>1 DEF MipsBlock
<1>4. /\ q \in MipsBlock /\ q.chunks = j.blk[b].chunks /\ q.buffer = j.blk[b].buffer
      /\ q.ptr = j.blk[b].ptr /\ q.over = j.blk[b].over /\ q.start = j.blk[b].start
      /\ q.image = j.blk[b].image
  <2> HIDE DEF a, b
  <2> QED BY <1>1, <1>3 DEF MipsBlock
<1>5. B \in [Blocks -> MipsBlock] /\ B[b] = q /\ \A d \in Blocks \ {b} : B[d] = j.blk[d]
  <2> HIDE DEF q, b
  <2> QED BY <1>1, <1>4
<1> HIDE DEF q, B, b
<1>6. /\ k \in MipsJit /\ k.pool = j.pool /\ k.blk = B /\ k.spare = j.spare /\ k.tcbs = j.tcbs
      /\ k.slot = j.slot
  BY <1>1, <1>5 DEF MipsJit
<1> HIDE DEF k
<1>7. MipsOK(k, {})
  <2>1. /\ k.blk[b].chunks = j.blk[b].chunks /\ k.blk[b].buffer = j.blk[b].buffer
        /\ k.blk[b].ptr = j.blk[b].ptr /\ k.blk[b].over = j.blk[b].over
        /\ k.blk[b].start = j.blk[b].start
        /\ \A d \in Blocks \ {b} : k.blk[d] = j.blk[d]
    BY <1>4, <1>5, <1>6
  <2>2. b \in Els(j.tcbs) BY DEF b
  <2> QED BY <1>1, <1>6, <2>1, <2>2, MipsTouch
<1>9. b \in Els(k.tcbs) BY <1>6 DEF b
<1>10. MC!Count(j, s, b) = k BY <1>2 DEF b
<1>11. Keeps(j, k)
  <2>1. \A d \in Blocks : k.blk[d].start = j.blk[d].start /\ k.blk[d].image = j.blk[d].image
    BY <1>4, <1>5, <1>6
  <2>2. \A t \in Slot : k.slot[t] # None => k.slot[t] = j.slot[t] /\ j.slot[t] \in Blocks
    BY <1>1, <1>6
  <2>3. SlotsKept(j, k) BY <2>1, <2>2 DEF SlotsKept, SlotKept
  <2> QED BY <2>3, Kept
<1> QED BY <1>7, <1>9, <1>10, <1>11 DEF b

\* The CPU enters a block: the code that runs from now on is in pages of its own.
LEMMA MipsEntered ==
  ASSUME MC!MipsCodeAssumption, NEW j, MipsOK(j, {}), NEW b \in Els(j.tcbs), NEW o, MC!Enter(j, b, o),
         Keeps(jit, j)
  PROVE  MipsOK(jit', {}) /\ MipsRuns(jit', running') /\ Keeps(jit, jit') /\ Answer
<1>1. j \in MipsJit /\ j.tcbs \in Seq(Blocks) BY DEF MipsOK, MipsJit
<1>2. MipsRuns(j, [block |-> b, pages |-> MC!Pages(j, b)])
  <2>1. ASSUME NEW c \in Els(j.tcbs) PROVE c \in Blocks /\ MC!Pages(j, c) = Els(MC!Owned(j, c))
    <3>1. c \in Blocks /\ j.blk[c].buffer # None BY <1>1, ElsAt DEF MipsOK, MipsLinks, MipsListed
    <3>2. Els(MC!Owned(j, c)) = Els(j.blk[c].chunks) \cup {j.blk[c].buffer} BY <1>1, <3>1, MipsOwned
    <3> QED BY <3>1, <3>2 DEF MC!Pages, MC!ToSet, Els
  <2>2. \A c \in Els(j.tcbs) : c # b => MC!Pages(j, c) \cap MC!Pages(j, b) = {}
    BY <2>1 DEF MipsOK, MipsPages
  <2> QED BY <2>2 DEF MipsRuns
<1>3. MipsRuns(j, MC!Stepping) BY DEF MipsRuns, MC!Stepping
<1> DEFINE v == j.blk[b].start
<1>4. /\ jit' = j /\ (running' = [block |-> b, pages |-> MC!Pages(j, b)] \/ running' = MC!Stepping)
      /\ \/ said' = [op |-> "use", key |-> v, value |-> j.blk[b].image]
         \/ said' = [op |-> "use", key |-> v, value |-> mem[Map[v]]]
  BY DEF MC!Enter
<1>5. v \in CodePage /\ j.slot[SlotOf[v]] = b /\ b # None
  <2>1. b \in Blocks BY <1>1, ElsAt
  <2> QED BY <2>1, MipsIdle DEF MipsOK, MipsLinks, MipsListed
<1>6. j.blk[b].image \in {mem[Map[v]]} \cup CodeOf(jit, v)
  <2>1. CodeOf(j, v) = {j.blk[b].image} BY <1>5 DEF CodeOf
  <2> QED BY <1>5, <2>1 DEF Keeps
<1>7. Answer BY <1>4, <1>5, <1>6 DEF Answer
<1> QED BY <1>2, <1>3, <1>4, <1>7

\* At first every page is free.
LEMMA MipsCodeInvInit == ASSUME MC!MipsCodeAssumption, MC!CodeInit PROVE MipsCodeInv
<1>1. ExecPage \in Seq(Exec) /\ Once(ExecPage)
  BY DEF MC!MipsCodeAssumption, MC!ToSet, MC!IsInjective, Exec, Els, Once
<1> DEFINE w == Backwards(ExecPage)
           B == [b \in Blocks |-> MC!Idle]
           S == [s \in Slot |-> None]
<1>2. w \in Seq(Exec) /\ Once(w) /\ Els(w) = Exec
  <2>1. w \in Seq(Exec) /\ Once(w) /\ Els(w) = Els(ExecPage) BY <1>1, BackwardsOnce
  <2> QED BY <2>1 DEF Exec
<1>3. jit = [ pool |-> w, blk |-> B, spare |-> <<>>, tcbs |-> <<>>, slot |-> S, method |-> 0 ]
  BY MipsIdle DEF MC!CodeInit, MC!jit_init, MC!Reverse, Backwards
<1>4. MC!Idle \in MipsBlock BY MipsIdle
<1>5. /\ B \in [Blocks -> MipsBlock] /\ S \in [Slot -> Blocks \cup {None}]
      /\ <<>> \in Seq(Blocks) /\ (\A b \in Blocks : B[b] = MC!Idle) /\ (\A s \in Slot : S[s] = None)
  <2>1. <<>> \in Seq(Blocks) OBVIOUS
  <2> QED BY <1>4, <2>1
<1> HIDE DEF w, B, S
<1>6. /\ jit \in MipsJit /\ jit.pool = w /\ jit.blk = B /\ jit.spare = <<>> /\ jit.tcbs = <<>> /\ jit.slot = S
  BY <1>2, <1>3, <1>5 DEF MipsJit
<1>7. Els(<<>>) = {} /\ Once(<<>>) BY DEF Els, Once
<1>8. \A b \in Blocks : MC!Owned(jit, b) = <<>> BY <1>5, <1>6, MipsIdleOwned
<1>9. MipsPages(jit) BY <1>2, <1>6, <1>7, <1>8 DEF MipsPages
<1>10. MipsLists(jit, {}) BY <1>5, <1>6, <1>7 DEF MipsLists
<1>11. MipsLinks(jit) BY <1>5, <1>6, <1>7 DEF MipsLinks
<1>12. mem \in [Phys -> Images] /\ MipsRuns(jit, running) BY DEF MC!CodeInit, Images, MipsRuns
<1> QED BY <1>6, <1>9, <1>10, <1>11, <1>12 DEF MipsCodeInv, MipsOK

\* One turn of the loop.
MipsTurn(v, o, n) ==
  LET s    == SlotOf[v]
      old  == jit.slot[s]
      hit  == old # None /\ jit.blk[old].start = v
      made == IF hit THEN [jit |-> jit, block |-> old] ELSE MC!tcb_compile(MC!Evict(jit, s), v, n)
  IN  /\ running = None
      /\ IF made.block = None THEN jit' = made.jit /\ said' = [op |-> "other"] /\ UNCHANGED running
         ELSE MC!Enter(MC!Count(made.jit, s, made.block), made.block, o)

\* It keeps the invariant, and enters the code of the page or of what it was
\* (mips64_jit_run_cpu).
LEMMA MipsDispatch ==
  ASSUME MC!MipsCodeAssumption, MipsCodeInv, MC!Dispatch
  PROVE  MipsCodeInv' /\ mem' = mem /\ Keeps(jit, jit') /\ (said' = [op |-> "other"] \/ Answer)
<1>1. MipsOK(jit, {}) /\ mem \in [Phys -> Images] BY DEF MipsCodeInv
<1>2. PICK v \in CodePage : \E o \in Offset[v] : \E n \in 0 .. MaxFill : MipsTurn(v, o, n)
  BY Zenon DEF MC!Dispatch, MipsTurn
<1>a. PICK o \in Offset[v] : \E n \in 0 .. MaxFill : MipsTurn(v, o, n) BY <1>2
<1>b. PICK n \in 0 .. MaxFill : MipsTurn(v, o, n) BY <1>a
<1>3. mem' = mem BY DEF MC!Dispatch
<1> DEFINE s    == SlotOf[v]
           old  == jit.slot[s]
           hit  == old # None /\ jit.blk[old].start = v
           room == MC!Evict(jit, s)
<1>4. s \in Slot BY DEF MC!MipsCodeAssumption
<1>5. /\ MipsOK(jit', {}) /\ MipsRuns(jit', running') /\ Keeps(jit, jit')
      /\ said' = [op |-> "other"] \/ Answer
  <2>1. CASE hit
    <3> DEFINE k == MC!Count(jit, s, old)
    <3>1. MC!Enter(k, old, o)
      <4>1. LET made == [jit |-> jit, block |-> old]
            IN  IF made.block = None THEN jit' = made.jit /\ said' = [op |-> "other"] /\ UNCHANGED running
                ELSE MC!Enter(MC!Count(made.jit, s, made.block), made.block, o)
        BY <1>b, <2>1 DEF MipsTurn
      <4> QED BY <2>1, <4>1
    <3>2. old \in Els(jit.tcbs) BY <1>1, <1>4, <2>1 DEF MipsOK, MipsLinks
    <3>3. MipsOK(k, {}) /\ old \in Els(k.tcbs) /\ Keeps(jit, k) BY <1>1, <1>4, <3>2, MipsCountedOK
    <3> HIDE DEF k
    <3> QED BY <3>1, <3>3, MipsEntered
  <2>2. CASE ~ hit
    <3> DEFINE made == MC!tcb_compile(room, v, n)
    <3>1. /\ running = None
          /\ IF made.block = None THEN jit' = made.jit /\ said' = [op |-> "other"] /\ UNCHANGED running
             ELSE MC!Enter(MC!Count(made.jit, s, made.block), made.block, o)
      BY <1>b, <2>2 DEF MipsTurn
    <3>2. MipsOK(room, {}) /\ room.slot[s] = None /\ Keeps(jit, room) BY <1>1, <1>4, MipsEvict
    <3> HIDE DEF room
    <3> DEFINE c == MC!Count(made.jit, s, made.block)
    <3>3. /\ made.block = None => MipsOK(made.jit, {}) /\ Keeps(room, made.jit)
          /\ made.block # None => MipsOK(c, {}) /\ made.block \in Els(c.tcbs) /\ Keeps(room, c)
      BY <1>1, <1>4, <3>2, MipsCompiled
    <3> HIDE DEF made
    <3>4. CASE made.block = None BY <3>1, <3>2, <3>3, <3>4, KeepsTwice DEF MipsRuns
    <3>5. CASE made.block # None
      <4> HIDE DEF c
      <4>1. MC!Enter(c, made.block, o) BY <3>1, <3>5 DEF c
      <4>2. Keeps(jit, c) BY <3>2, <3>3, <3>5, KeepsTwice
      <4> QED BY <3>3, <3>5, <4>1, <4>2, MipsEntered
    <3> QED BY <3>4, <3>5
  <2> QED BY <2>1, <2>2
<1> QED BY <1>1, <1>3, <1>5 DEF MipsCodeInv

\* The code that runs keeps its pages when a block is freed, be it its own.
LEMMA MipsDropRuns ==
  ASSUME MC!MipsCodeAssumption, NEW j, MipsOK(j, {}), NEW r, MipsRuns(j, r), NEW b \in Els(j.tcbs)
  PROVE  MipsRuns(MC!Drop(j, b), r)
<1> DEFINE k == MC!Drop(j, b)
<1>2. Els(k.tcbs) = Els(j.tcbs) \ {b} /\ k.blk = [j.blk EXCEPT ![b] = MC!Idle] BY MipsDropOK
<1> HIDE DEF k
<1>3. j.tcbs \in Seq(Blocks) /\ j.blk \in [Blocks -> MipsBlock] BY DEF MipsOK, MipsJit
<1>4. Els(j.tcbs) \subseteq Blocks BY <1>3, ElsAt
<1>5. \A c \in Els(k.tcbs) : c \in Els(j.tcbs) /\ k.blk[c] = j.blk[c] BY <1>2, <1>3, <1>4
<1>6. \A c \in Els(k.tcbs) : MC!Pages(k, c) = MC!Pages(j, c) BY <1>5 DEF MC!Pages
<1> QED BY <1>5, <1>6 DEF MipsRuns, k

\* A store to a page changes no block: nothing looks for code there.
LEMMA MipsStore ==
  ASSUME MC!MipsCodeAssumption, MipsCodeInv, MC!Store
  PROVE  MipsCodeInv' /\ Keeps(jit, jit') /\ said' = [op |-> "change"]
<1>1. PICK v \in DataPage, x \in Content :
        mem' = [mem EXCEPT ![Map[v]] = x] /\ UNCHANGED <<jit, running>> /\ said' = [op |-> "change"]
  BY DEF MC!Store
<1>2. mem' \in [Phys -> Images] BY <1>1 DEF Images, MipsCodeInv
<1> QED BY <1>1, <1>2, KeepsSelf DEF MipsCodeInv

\* CACHE: the page has no code afterwards (mips64_exec_CACHE).
LEMMA MipsCacheOp ==
  ASSUME MC!MipsCodeAssumption, MipsCodeInv, MC!CacheOp
  PROVE  /\ MipsCodeInv' /\ Keeps(jit, jit')
         /\ \E v \in CodePage : said' = [op |-> "forget", keys |-> {v}] /\ CodeOf(jit', v) = {}
<1>1. MipsOK(jit, {}) /\ mem \in [Phys -> Images] /\ MipsRuns(jit, running) BY DEF MipsCodeInv
<1>2. PICK v \in CodePage :
        LET s == SlotOf[v]
            b == jit.slot[s]
        IN  /\ jit' = IF b # None /\ jit.blk[b].start = v
                      THEN MC!tcb_free([jit EXCEPT !.slot[s] = None], b, TRUE) ELSE jit
            /\ said' = [op |-> "forget", keys |-> {v}]
  BY DEF MC!CacheOp
<1>3. mem' = mem /\ running' = running BY DEF MC!CacheOp
<1> DEFINE s == SlotOf[v]
           b == jit.slot[s]
<1>4. s \in Slot BY DEF MC!MipsCodeAssumption
<1>5. CASE b # None /\ jit.blk[b].start = v
  <2>1. b \in Els(jit.tcbs) BY <1>1, <1>4, <1>5 DEF MipsOK, MipsLinks
  <2>2. jit' = MC!Drop(jit, b) BY <1>2, <1>5 DEF MC!Drop
  <2>3. CodeOf(MC!Drop(jit, b), v) = {}
    <3>1. \A t \in Slot : MC!Drop(jit, b).slot[t] = IF jit.slot[t] = b THEN None ELSE jit.slot[t]
      BY <1>1, <2>1, MipsDropOK
    <3>2. MC!Drop(jit, b).slot[SlotOf[v]] = None BY <1>4, <3>1
    <3> QED BY <3>2 DEF CodeOf
  <2> HIDE DEF b
  <2>4. MipsOK(MC!Drop(jit, b), {}) /\ MipsRuns(MC!Drop(jit, b), running) /\ Keeps(jit, MC!Drop(jit, b))
    BY <1>1, <2>1, MipsDropOK, MipsDropRuns, MipsDropKeeps
  <2> QED BY <1>1, <1>2, <1>3, <2>2, <2>3, <2>4 DEF MipsCodeInv
<1>6. CASE ~ (b # None /\ jit.blk[b].start = v)
  <2>1. jit' = jit BY <1>2, <1>6
  <2>2. CodeOf(jit, v) = {} BY <1>6 DEF CodeOf
  <2> QED BY <1>1, <1>2, <1>3, <2>1, <2>2, KeepsSelf DEF MipsCodeInv
<1> QED BY <1>5, <1>6

\* A reset: no page has code afterwards (mips64_jit_flush).
LEMMA MipsReset ==
  ASSUME MC!MipsCodeAssumption, MipsCodeInv, MC!Reset
  PROVE  /\ MipsCodeInv' /\ Keeps(jit, jit') /\ said' = [op |-> "forget", keys |-> CodePage]
         /\ \A v \in CodePage : CodeOf(jit', v) = {}
<1>1. MipsOK(jit, {}) /\ mem \in [Phys -> Images] BY DEF MipsCodeInv
<1> DEFINE k == MC!jit_flush(jit, 0)
<1>2. MipsOK(k, {}) /\ Els(k.tcbs) = {} BY <1>1, MipsFlushOK
<1>3. jit' = k /\ running' = None /\ mem' = mem /\ said' = [op |-> "forget", keys |-> CodePage] BY DEF MC!Reset
<1> HIDE DEF k
<1>4. MipsRuns(k, None) BY DEF MipsRuns
<1>5. \A s \in Slot : k.slot[s] = None BY <1>2 DEF MipsOK, MipsLinks
<1>6. ASSUME NEW v \in CodePage PROVE CodeOf(k, v) = {}
  <2>1. SlotOf[v] \in Slot BY DEF MC!MipsCodeAssumption
  <2> QED BY <1>5, <2>1 DEF CodeOf
<1>7. Keeps(jit, k) BY <1>6 DEF Keeps
<1> QED BY <1>1, <1>2, <1>3, <1>4, <1>6, <1>7 DEF MipsCodeInv

\* Whatever the CPU does, and in whatever order, the invariant stays, and the
\* cache does what a stale cache may do.
LEMMA MipsCodeInvNext ==
  ASSUME MC!MipsCodeAssumption, MipsCodeInv, MC!CodeNext, CodeTurn
  PROVE  MipsCodeInv' /\ Code!Next
<1>1. CASE MC!Dispatch BY <1>1, MipsDispatch, CodeAnswers
<1>2. CASE MC!Return
  <2>1. mem' = mem /\ jit' = jit /\ said' = [op |-> "other"] /\ running' = None BY <1>2 DEF MC!Return
  <2>2. MipsCodeInv' BY <2>1 DEF MipsCodeInv, MipsRuns
  <2>3. Keeps(jit, jit') BY <2>1, KeepsSelf
  <2> QED BY <2>1, <2>2, <2>3, CodeAnswers
<1>3. CASE MC!Store BY <1>3, MipsStore, CodeChanges
<1>4. CASE MC!CacheOp
  <2>1. MipsCodeInv' /\ Keeps(jit, jit') BY <1>4, MipsCacheOp
  <2>2. PICK v \in CodePage : said' = [op |-> "forget", keys |-> {v}] /\ CodeOf(jit', v) = {} BY <1>4, MipsCacheOp
  <2>3. \A w \in {v} \cap CodePage : CodeOf(jit', w) = {} BY <2>2
  <2>4. Code!Next BY <2>1, <2>2, <2>3, CodeForgets
  <2> QED BY <2>1, <2>4
<1>5. CASE MC!Reset
  <2>1. /\ MipsCodeInv' /\ Keeps(jit, jit') /\ said' = [op |-> "forget", keys |-> CodePage]
        /\ \A v \in CodePage \cap CodePage : CodeOf(jit', v) = {}
    BY <1>5, MipsReset
  <2>2. Code!Next BY <2>1, CodeForgets
  <2> QED BY <2>1, <2>2
<1> QED BY <1>1, <1>2, <1>3, <1>4, <1>5 DEF MC!CodeNext

\* What that says of pages and of blocks.
LEMMA MipsPagesOwned == ASSUME MC!MipsCodeAssumption, MipsCodeInv PROVE MC!PagesOwned
<1>1. /\ MipsOK(jit, {}) /\ jit \in MipsJit /\ jit.tcbs \in Seq(Blocks) /\ jit.pool \in Seq(Exec)
      /\ MipsRuns(jit, running)
  BY DEF MipsCodeInv, MipsOK, MipsJit
<1> DEFINE live == MC!ToSet(jit.tcbs)
<1>2. live = Els(jit.tcbs) /\ MC!ToSet(jit.pool) = Els(jit.pool) /\ MC!ToSet(ExecPage) = Exec
  BY DEF MC!ToSet, Els, Exec
<1>3. ASSUME NEW b \in live
      PROVE  /\ b \in Blocks /\ MC!Pages(jit, b) = Els(MC!Owned(jit, b))
             /\ Append(jit.blk[b].chunks, jit.blk[b].buffer) = MC!Owned(jit, b)
             /\ jit.blk[b].ptr = jit.blk[b].buffer /\ ~ jit.blk[b].over
             /\ Els(MC!Owned(jit, b)) \subseteq Exec
  <2>1. b \in Blocks /\ MipsListed(jit, b) BY <1>1, <1>2, ElsAt DEF MipsOK, MipsLinks
  <2>2. MC!Owned(jit, b) \in Seq(Exec) /\ Els(MC!Owned(jit, b)) = Els(jit.blk[b].chunks) \cup {jit.blk[b].buffer}
    BY <1>1, <2>1, MipsOwned DEF MipsListed
  <2>3. MC!Pages(jit, b) = Els(MC!Owned(jit, b)) BY <2>2 DEF MC!Pages, MC!ToSet, Els
  <2>4. Append(jit.blk[b].chunks, jit.blk[b].buffer) = MC!Owned(jit, b) BY <2>1 DEF MC!Owned, MipsListed
  <2>5. Els(MC!Owned(jit, b)) \subseteq Exec BY <2>2, ElsAt
  <2> QED BY <2>1, <2>3, <2>4, <2>5 DEF MipsListed
<1> HIDE DEF live
<1>4. \A b \in Blocks \ live : Els(MC!Owned(jit, b)) = {}
  <2>1. \A b \in Blocks \ live : jit.blk[b] = MC!Idle BY <1>1, <1>2 DEF MipsOK, MipsLists
  <2>2. Els(<<>>) = {} BY DEF Els
  <2> QED BY <2>1, <2>2, MipsIdleOwned
<1>5. MC!IsInjective(jit.pool) BY <1>1 DEF MC!IsInjective, MipsOK, MipsPages, Once
<1>6. MC!ToSet(jit.pool) \cup UNION {MC!Pages(jit, b) : b \in live} = MC!ToSet(ExecPage)
  <2>1. Els(jit.pool) \subseteq Exec BY <1>1, ElsAt
  <2>2. \A p \in Exec : p \in Els(jit.pool) \/ \E b \in live : p \in MC!Pages(jit, b)
    BY <1>1, <1>3, <1>4 DEF MipsOK, MipsPages
  <2>3. \A b \in live : MC!Pages(jit, b) \subseteq Exec BY <1>3
  <2> QED BY <1>2, <2>1, <2>2, <2>3
<1>7. ASSUME NEW b \in live
      PROVE  /\ MC!IsInjective(Append(jit.blk[b].chunks, jit.blk[b].buffer))
             /\ MC!Pages(jit, b) \cap MC!ToSet(jit.pool) = {}
             /\ \A c \in live \ {b} : MC!Pages(jit, b) \cap MC!Pages(jit, c) = {}
             /\ jit.blk[b].ptr = jit.blk[b].buffer /\ ~ jit.blk[b].over
             /\ running # None /\ running.block # b => MC!Pages(jit, b) \cap running.pages = {}
  <2>1. Once(MC!Owned(jit, b)) BY <1>1, <1>3 DEF MipsOK, MipsPages
  <2>2. MC!IsInjective(Append(jit.blk[b].chunks, jit.blk[b].buffer)) BY <1>3, <2>1 DEF MC!IsInjective, Once
  <2>3. MC!Pages(jit, b) \cap MC!ToSet(jit.pool) = {} BY <1>1, <1>2, <1>3 DEF MipsOK, MipsPages
  <2>4. \A c \in live \ {b} : MC!Pages(jit, b) \cap MC!Pages(jit, c) = {}
    BY <1>1, <1>3 DEF MipsOK, MipsPages
  <2>5. running # None /\ running.block # b => MC!Pages(jit, b) \cap running.pages = {}
    BY <1>1, <1>2 DEF MipsRuns
  <2> QED BY <1>3, <2>2, <2>3, <2>4, <2>5
<1> QED BY <1>5, <1>6, <1>7 DEF MC!PagesOwned, live

\* Every listed block is found by the lists that name it, and no other.
LEMMA MipsBlocksFound == ASSUME MC!MipsCodeAssumption, MipsCodeInv PROVE MC!BlocksFound
<1>1. MipsOK(jit, {}) BY DEF MipsCodeInv
<1>2. MC!ToSet(jit.tcbs) = Els(jit.tcbs) /\ MC!ToSet(jit.spare) = Els(jit.spare) BY DEF MC!ToSet, Els
<1>3. MC!IsInjective(jit.tcbs) /\ MC!ToSet(jit.tcbs) \cap MC!ToSet(jit.spare) = {}
  BY <1>1, <1>2 DEF MC!IsInjective, Once, MipsOK, MipsLists
<1>4. \A b \in MC!ToSet(jit.tcbs) : jit.slot[SlotOf[jit.blk[b].start]] = b
  BY <1>1, <1>2 DEF MipsOK, MipsLinks, MipsListed
<1>5. \A s \in Slot : jit.slot[s] # None => jit.slot[s] \in MC!ToSet(jit.tcbs)
  BY <1>1, <1>2 DEF MipsOK, MipsLinks
<1> QED BY <1>3, <1>4, <1>5 DEF MC!BlocksFound

-----------------------------------------------------------------------------
(* The code caches in the system.                                          *)

Parts == {"ppc code", "mips code", "ppc mmu", "mips mmu", "memory"}

CodeInv == (part = "ppc code" => PpcCodeInv) /\ (part = "mips code" => MipsCodeInv)

\* It holds at first,
LEMMA CodeInvInit == ASSUME ExecutionAssumption, ExecutionInit PROVE CodeInv
<1>1. part = "ppc code" => PC!CodeInit BY DEF ExecutionInit
<1>2. part = "mips code" => MC!CodeInit BY DEF ExecutionInit
<1>3. PC!PpcCodeAssumption /\ MC!MipsCodeAssumption BY DEF ExecutionAssumption
<1> QED BY <1>1, <1>2, <1>3, PpcCodeInvInit, MipsCodeInvInit DEF CodeInv

\* and every step of the system does, as a step of a stale cache too.
LEMMA CodeInvNext ==
  ASSUME ExecutionAssumption, CodeInv, part \in Parts,
         [ExecutionNext]_<<part, codeVars, mmuVars, memVars>>
  PROVE  CodeInv' /\ part' \in Parts /\ [Code!Next]_<<CodeNow, CodeKept, said>>
<1>1. PC!PpcCodeAssumption /\ MC!MipsCodeAssumption BY DEF ExecutionAssumption
<1>2. CASE PpcCodeStep
  <2>1. part = "ppc code" /\ part' = part /\ PC!CodeNext /\ CodeTurn BY <1>2 DEF PpcCodeStep, CodeTurn
  <2>2. PpcCodeInv BY <2>1 DEF CodeInv
  <2>3. PpcCodeInv' /\ Code!Next BY <1>1, <2>1, <2>2, PpcCodeInvNext
  <2> QED BY <2>1, <2>3 DEF CodeInv
<1>3. CASE MipsCodeStep
  <2>1. part = "mips code" /\ part' = part /\ MC!CodeNext /\ CodeTurn BY <1>3 DEF MipsCodeStep, CodeTurn
  <2>2. MipsCodeInv BY <2>1 DEF CodeInv
  <2>3. MipsCodeInv' /\ Code!Next BY <1>1, <2>1, <2>2, MipsCodeInvNext
  <2> QED BY <2>1, <2>3 DEF CodeInv
<1>4. CASE PpcMmuStep \/ MipsMmuStep \/ MemoryStep \/ UNCHANGED <<part, codeVars, mmuVars, memVars>>
  <2>1. UNCHANGED <<part, mem, jit, running, said>>
    BY <1>4 DEF PpcMmuStep, MipsMmuStep, MemoryStep, codeVars
  <2>2. PpcCodeInv => PpcCodeInv' BY <2>1 DEF PpcCodeInv
  <2>3. MipsCodeInv => MipsCodeInv' BY <2>1 DEF MipsCodeInv
  <2>4. UNCHANGED <<CodeNow, CodeKept, said>>
    <3>1. CASE part = "ppc code"
      <4>1. CodeNow = PC!Current /\ CodeKept = PC!Stale /\ CodeNow' = PC!Current' /\ CodeKept' = PC!Stale'
        BY <2>1, <3>1 DEF CodeNow, CodeKept
      <4>2. PC!Current' = PC!Current BY <2>1 DEF PC!Current
      <4>3. \A v \in CodePage : PC!Cached(v)' = PC!Cached(v) BY <2>1 DEF PC!Cached
      <4>4. PC!Stale' = PC!Stale BY <2>1, <4>3 DEF PC!Stale
      <4> QED BY <2>1, <4>1, <4>2, <4>4
    <3>2. CASE part = "mips code"
      <4>1. CodeNow = MC!Current /\ CodeKept = MC!Stale /\ CodeNow' = MC!Current' /\ CodeKept' = MC!Stale'
        BY <2>1, <3>2 DEF CodeNow, CodeKept
      <4>2. MC!Current' = MC!Current BY <2>1 DEF MC!Current
      <4>3. \A v \in CodePage : MC!Cached(v)' = MC!Cached(v) BY <2>1 DEF MC!Cached
      <4>4. MC!Stale' = MC!Stale BY <2>1, <4>3 DEF MC!Stale
      <4> QED BY <2>1, <4>1, <4>2, <4>4
    <3>3. CASE part # "ppc code" /\ part # "mips code"
      <4>1. CodeNow = Idle /\ CodeKept = Idle BY <3>3 DEF CodeNow, CodeKept
      <4>2. CodeNow' = Idle /\ CodeKept' = Idle BY <2>1, <3>3 DEF CodeNow, CodeKept, Idle
      <4> QED BY <2>1, <4>1, <4>2
    <3> QED BY <3>1, <3>2, <3>3
  <2> QED BY <2>1, <2>2, <2>3, <2>4 DEF CodeInv
<1>5. part' = part BY DEF ExecutionNext, PpcCodeStep, MipsCodeStep, PpcMmuStep, MipsMmuStep, MemoryStep
<1> QED BY <1>2, <1>3, <1>4, <1>5 DEF ExecutionNext

\* No code is kept at first.
LEMMA CodeStart == ExecutionInit => Code!Init
<1> SUFFICES ASSUME ExecutionInit PROVE Code!Init OBVIOUS
<1>0. said = [op |-> "start"] BY DEF ExecutionInit, PC!CodeInit, MC!CodeInit, NoCode
<1>a. said.op = "start" BY <1>0
<1>b. \A v \in CodePage : SlotOf[v] \in Slot BY ExecutionAssumption DEF ExecutionAssumption, PC!PpcCodeAssumption
<1>1. CASE part = "ppc code"
  <2>1. PC!CodeInit BY <1>1 DEF ExecutionInit
  <2>2. CodeNow = PC!Current /\ CodeKept = PC!Stale BY <1>1 DEF CodeNow, CodeKept
  <2>3. \A v \in CodePage : jit.slot[SlotOf[v]] = None BY <1>b, <2>1 DEF PC!CodeInit, PC!jit_init
  <2>4. \A v \in CodePage : PC!Cached(v) = {} BY <2>3 DEF PC!Cached
  <2>5. CodeKept = [v \in CodePage |-> {}] BY <2>2, <2>4 DEF PC!Stale
  <2>6. Code!Keys = CodePage BY <2>2 DEF Code!Keys, PC!Current
  <2> QED BY <1>a, <2>5, <2>6 DEF Code!Init
<1>2. CASE part = "mips code"
  <2>1. MC!CodeInit BY <1>2 DEF ExecutionInit
  <2>2. CodeNow = MC!Current /\ CodeKept = MC!Stale BY <1>2 DEF CodeNow, CodeKept
  <2>3. \A v \in CodePage : jit.slot[SlotOf[v]] = None BY <1>b, <2>1 DEF MC!CodeInit, MC!jit_init
  <2>4. \A v \in CodePage : MC!Cached(v) = {} BY <2>3 DEF MC!Cached
  <2>5. CodeKept = [v \in CodePage |-> {}] BY <2>2, <2>4 DEF MC!Stale
  <2>6. Code!Keys = CodePage BY <2>2 DEF Code!Keys, MC!Current
  <2> QED BY <1>a, <2>5, <2>6 DEF Code!Init
<1>3. CASE part # "ppc code" /\ part # "mips code"
  <2>1. CodeNow = <<>> /\ CodeKept = <<>> BY <1>3 DEF CodeNow, CodeKept, Idle
  <2>2. <<>> = [k \in {} |-> {}] OBVIOUS
  <2>3. DOMAIN <<>> = {} OBVIOUS
  <2>4. Code!Keys = {} BY <2>1, <2>3 DEF Code!Keys
  <2> QED BY <1>a, <2>1, <2>2, <2>4 DEF Code!Init
<1> QED BY <1>1, <1>2, <1>3

\* A run keeps the invariant, and all its steps are those of a stale cache.
LEMMA CodeRun ==
  /\ ExecutionSpec => []CodeInv
  /\ ExecutionSpec => Code!Init /\ [][Code!Next]_<<CodeNow, CodeKept, said>>
<1>1. ExecutionInit => CodeInv /\ part \in Parts /\ Code!Init
  <2>1. ExecutionInit => part \in Parts BY DEF ExecutionInit, Parts
  <2> QED BY <2>1, ExecutionAssumption, CodeInvInit, CodeStart
<1>2. CodeInv /\ part \in Parts /\ [ExecutionNext]_<<part, codeVars, mmuVars, memVars>>
      => CodeInv' /\ (part \in Parts)' /\ [Code!Next]_<<CodeNow, CodeKept, said>>
  BY ExecutionAssumption, CodeInvNext
<1> QED BY <1>1, <1>2, PTL DEF ExecutionSpec

\* Every page of the exec area is free or belongs to one block, once, and the code
\* that runs is in pages of its own, for an exec area of any size, however its
\* blocks share their hash slots and in whatever order they are compiled, compiled
\* again and flushed (exec_page_alloc, exec_page_free, ppc32_jit_tcb_recompile,
\* ppc32_jit_flush, mips64_jit_flush).
THEOREM ExecutionPagesOwned == ExecutionSpec => []PagesOwned
<1>1. PC!PpcCodeAssumption /\ MC!MipsCodeAssumption BY ExecutionAssumption DEF ExecutionAssumption
<1>2. CodeInv => PagesOwned BY <1>1, PpcPagesOwned, MipsPagesOwned DEF CodeInv, PagesOwned
<1> QED BY <1>2, CodeRun, PTL

\* A block that is listed is found, by its virtual page and on a PowerPC by its
\* physical page, and nothing leads to one that was freed (ppc32_jit_tcb_free,
\* ppc32_jit_find_by_phys_page, mips64_jit_tcb_free).
THEOREM ExecutionBlocksFound == ExecutionSpec => []BlocksFound
<1>1. PC!PpcCodeAssumption /\ MC!MipsCodeAssumption BY ExecutionAssumption DEF ExecutionAssumption
<1>2. CodeInv => BlocksFound BY <1>1, PpcBlocksFound, MipsBlocksFound DEF CodeInv, BlocksFound
<1> QED BY <1>2, CodeRun, PTL

\* The code caches implement a stale cache of the pages of code: what runs is a page
\* as it is now, or as it was at some time since the last ICBI, CACHE or reset that
\* had to make the CPU forget it (ppc32_jit_run_cpu, ppc32_icbi, mips64_jit_run_cpu,
\* mips64_exec_CACHE).
THEOREM ExecutionForgottenCode == ExecutionSpec => ForgottenCode
BY CodeRun, PTL DEF ForgottenCode, Code!Spec, Code!cacheVars
=============================================================================
