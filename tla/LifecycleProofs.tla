--------------------------- MODULE LifecycleProofs --------------------------
(***************************************************************************)
(* Proofs about how objects and VMs live and end.                          *)
(*                                                                         *)
(* The registry keeps its index, its reference counts and its stack of     *)
(* callbacks consistent, for any number of objects, clients and nested     *)
(* callbacks.  A VM changes only while its CPU threads are at rest, and a  *)
(* CPU is freed after its threads have ended, for any number of CPUs.      *)
(***************************************************************************)
EXTENDS Registry, VmCpu, FiniteSetTheorems, TLAPS

-----------------------------------------------------------------------------
\* A call entered: the new frame comes first and the others move up by one.
LEMMA PushSeq ==
  ASSUME NEW S, NEW s \in Seq(S), NEW e \in S
  PROVE  /\ <<e>> \o s \in Seq(S)
         /\ Len(<<e>> \o s) = Len(s) + 1
         /\ DOMAIN (<<e>> \o s) = 1 .. Len(s) + 1
         /\ (<<e>> \o s)[1] = e
         /\ \A i \in 1 .. Len(s) : (<<e>> \o s)[i + 1] = s[i]
         /\ \A i \in 2 .. Len(s) + 1 : (<<e>> \o s)[i] = s[i - 1]
  OBVIOUS

\* A call returned: the first frame goes and the others move down by one.
LEMMA TailSeq ==
  ASSUME NEW S, NEW s \in Seq(S), s # << >>
  PROVE  /\ Tail(s) \in Seq(S)
         /\ Len(Tail(s)) = Len(s) - 1
         /\ DOMAIN Tail(s) = 1 .. Len(s) - 1
         /\ Head(s) = s[1] /\ Head(s) \in S
         /\ 1 \in DOMAIN s
         /\ \A i \in 1 .. Len(s) - 1 : Tail(s)[i] = s[i + 1]
  OBVIOUS

\* What a concatenation has at each index.
LEMMA ConcatSeq ==
  ASSUME NEW S, NEW a \in Seq(S), NEW b \in Seq(S)
  PROVE  /\ a \o b \in Seq(S)
         /\ Len(a \o b) = Len(a) + Len(b)
         /\ DOMAIN (a \o b) = 1 .. Len(a) + Len(b)
         /\ \A i \in 1 .. Len(a) : (a \o b)[i] = a[i]
         /\ \A i \in Len(a) + 1 .. Len(a) + Len(b) :
               (a \o b)[i] = b[i - Len(a)]
  OBVIOUS

\* The elements of a sequence, and that none of them stands in it twice.
Elements(s) == {s[i] : i \in DOMAIN s}
Distinct(s) == \A i, j \in DOMAIN s : s[i] = s[j] => i = j

\* Erasing through a node's iterator takes out that node and nothing else.
LEMMA WithoutSeq ==
  ASSUME NEW S, NEW s \in Seq(S), NEW x, x \in Elements(s), Distinct(s)
  PROVE  /\ Without(s, x) \in Seq(S)
         /\ Elements(Without(s, x)) = Elements(s) \ {x}
         /\ Distinct(Without(s, x))
<1> DEFINE i == CHOOSE j \in DOMAIN s : s[j] = x
           w == Without(s, x)
<1>1. i \in 1 .. Len(s) /\ s[i] = x
  BY DEF Elements
<1>2. /\ SubSeq(s, 1, i - 1) \in Seq(S) /\ SubSeq(s, i + 1, Len(s)) \in Seq(S)
      /\ Len(SubSeq(s, 1, i - 1)) = i - 1
      /\ Len(SubSeq(s, i + 1, Len(s))) = Len(s) - i
      /\ \A j \in 1 .. i - 1 : SubSeq(s, 1, i - 1)[j] = s[j]
      /\ \A j \in 1 .. Len(s) - i : SubSeq(s, i + 1, Len(s))[j] = s[i + j]
  BY <1>1
<1>3. w = SubSeq(s, 1, i - 1) \o SubSeq(s, i + 1, Len(s))
  BY DEF Without
<1> HIDE DEF i, w
<1>4. /\ w \in Seq(S) /\ Len(w) = Len(s) - 1 /\ DOMAIN w = 1 .. Len(s) - 1
      /\ \A j \in 1 .. i - 1 : w[j] = s[j]
      /\ \A j \in i .. Len(s) - 1 : w[j] = s[j + 1]
  <2> DEFINE a == SubSeq(s, 1, i - 1)
             b == SubSeq(s, i + 1, Len(s))
  <2>1. a \in Seq(S) /\ b \in Seq(S) /\ w = a \o b
    BY <1>2, <1>3
  <2>2. /\ w \in Seq(S) /\ Len(w) = Len(a) + Len(b)
        /\ DOMAIN w = 1 .. Len(a) + Len(b)
        /\ \A j \in 1 .. Len(a) : w[j] = a[j]
        /\ \A j \in Len(a) + 1 .. Len(a) + Len(b) : w[j] = b[j - Len(a)]
    BY <2>1, ConcatSeq
  <2>3. Len(a) = i - 1 /\ Len(b) = Len(s) - i
    BY <1>2
  <2> HIDE DEF a, b
  <2>4. ASSUME NEW j \in i .. Len(s) - 1 PROVE w[j] = s[j + 1]
    <3>0. j \in Len(a) + 1 .. Len(a) + Len(b)
      BY <1>1, <2>3
    <3>1. w[j] = b[j - (i - 1)]
      BY <2>2, <2>3, <3>0
    <3>2. b[j - (i - 1)] = s[i + (j - (i - 1))]
      BY <1>1, <1>2 DEF b
    <3> QED
      BY <1>1, <3>1, <3>2
  <2>5. ASSUME NEW j \in 1 .. i - 1 PROVE w[j] = s[j]
    BY <1>1, <1>2, <2>2, <2>3 DEF a
  <2> QED
    BY <1>1, <2>2, <2>3, <2>4, <2>5
<1>5. Distinct(w)
  <2> SUFFICES ASSUME NEW j \in DOMAIN w, NEW k \in DOMAIN w, w[j] = w[k]
               PROVE  j = k
    BY DEF Distinct
  <2> DEFINE Old(m) == IF m < i THEN m ELSE m + 1
  <2>1. Old(j) \in DOMAIN s /\ Old(k) \in DOMAIN s
    BY <1>1, <1>4
  <2>2. w[j] = s[Old(j)] /\ w[k] = s[Old(k)]
    BY <1>1, <1>4
  <2>3. Old(j) = Old(k)
    BY <2>1, <2>2 DEF Distinct
  <2> QED
    BY <1>1, <1>4, <2>3
<1>6. ASSUME NEW y \in Elements(w) PROVE y \in Elements(s) \ {x}
  <2>1. PICK j \in 1 .. Len(s) - 1 : w[j] = y
    BY <1>4 DEF Elements
  <2>2. PICK k \in DOMAIN s : s[k] = y /\ k # i
    <3>1. CASE j < i
      BY <1>1, <1>4, <2>1, <3>1
    <3>2. CASE ~(j < i)
      <4>1. j + 1 \in DOMAIN s /\ s[j + 1] = y /\ j + 1 # i
        BY <1>1, <1>4, <2>1, <3>2
      <4> QED
        BY <4>1
    <3> QED
      BY <3>1, <3>2
  <2>3. y # x
    BY <1>1, <2>2 DEF Distinct
  <2> QED
    BY <2>2, <2>3 DEF Elements
<1>7. ASSUME NEW y \in Elements(s) \ {x} PROVE y \in Elements(w)
  <2>1. PICK j \in 1 .. Len(s) : s[j] = y /\ j # i
    BY <1>1, <1>7 DEF Elements
  <2>2. CASE j < i
    <3>1. j \in DOMAIN w /\ w[j] = y
      BY <1>1, <1>4, <2>1, <2>2
    <3> QED
      BY <3>1 DEF Elements
  <2>3. CASE j > i
    <3>1. j - 1 \in DOMAIN w /\ w[j - 1] = y
      BY <1>1, <1>4, <2>1, <2>3
    <3> QED
      BY <3>1 DEF Elements
  <2> QED
    BY <1>1, <2>1, <2>2, <2>3
<1> QED
  BY <1>4, <1>5, <1>6, <1>7 DEF w

\* Putting a new element first.
LEMMA PushElements ==
  ASSUME NEW S, NEW s \in Seq(S), NEW e \in S, e \notin Elements(s), Distinct(s)
  PROVE  /\ <<e>> \o s \in Seq(S)
         /\ Elements(<<e>> \o s) = Elements(s) \cup {e}
         /\ Distinct(<<e>> \o s)
<1> DEFINE w == <<e>> \o s
<1>1. /\ w \in Seq(S) /\ DOMAIN w = 1 .. Len(s) + 1 /\ w[1] = e
      /\ \A i \in 1 .. Len(s) : w[i + 1] = s[i]
      /\ \A i \in 2 .. Len(s) + 1 : w[i] = s[i - 1]
  BY PushSeq
<1> HIDE DEF w
<1>2. Distinct(w)
  <2> SUFFICES ASSUME NEW j \in DOMAIN w, NEW k \in DOMAIN w, w[j] = w[k]
               PROVE  j = k
    BY DEF Distinct
  <2>1. \A m \in DOMAIN w : m # 1 => m - 1 \in DOMAIN s /\ w[m] = s[m - 1]
    BY <1>1
  <2>2. \A m \in DOMAIN w : m # 1 => w[m] # e
    BY <2>1 DEF Elements
  <2>3. CASE j = 1 \/ k = 1
    BY <1>1, <2>2, <2>3
  <2>4. CASE j # 1 /\ k # 1
    <3>1. j - 1 = k - 1
      BY <2>1, <2>4 DEF Distinct
    <3> QED
      BY <1>1, <3>1
  <2> QED
    BY <2>3, <2>4
<1>3. ASSUME NEW y \in Elements(w) PROVE y \in Elements(s) \cup {e}
  <2>1. PICK i \in DOMAIN w : w[i] = y
    BY DEF Elements
  <2>2. CASE i = 1
    BY <1>1, <2>1, <2>2
  <2>3. CASE i # 1
    <3>1. i - 1 \in DOMAIN s /\ s[i - 1] = y
      BY <1>1, <2>1, <2>3
    <3> QED
      BY <3>1 DEF Elements
  <2> QED
    BY <2>2, <2>3
<1>4. ASSUME NEW y \in Elements(s) \cup {e} PROVE y \in Elements(w)
  <2>1. CASE y = e
    BY <1>1, <2>1 DEF Elements
  <2>2. CASE y \in Elements(s)
    <3>1. PICK i \in 1 .. Len(s) : s[i] = y
      BY <2>2 DEF Elements
    <3>2. i + 1 \in DOMAIN w /\ w[i + 1] = y
      BY <1>1, <3>1
    <3> QED
      BY <3>2 DEF Elements
  <2> QED
    BY <1>4, <2>1, <2>2
<1> QED
  BY <1>1, <1>2, <1>3, <1>4 DEF w

-----------------------------------------------------------------------------
(***************************************************************************)
(* The inductive invariant.  RegistryTypes alone is not inductive: that a  *)
(* count stays in 0 .. IntMax when it is decremented needs RefsCounted,    *)
(* which needs NoDangling, which needs to know that what a destructor's    *)
(* return unlinks is unreferenced (DestroyIdle) and what erase unlinks has *)
(* lost its last holder.  That newest stays a sequence needs               *)
(* OrderConsistent.                                                        *)
(***************************************************************************)
RegistryInv ==
  /\ RegistryTypes
  /\ IndexConsistent
  /\ OrderConsistent
  /\ RefsCounted
  /\ NoDangling
  /\ DestroyIdle
  /\ FramesSafe

\* The invariant at the start.
LEMMA RegistryInitInv == RegistryInit => RegistryInv
<1> SUFFICES ASSUME RegistryInit PROVE RegistryInv
  OBVIOUS
<1> USE RegistryAssumption
<1>1. RegistryTypes
  <2>1. initialized \in BOOLEAN /\ key \in [Node -> [type : Type, name : Name]]
    BY DEF RegistryInit
  <2>2. /\ names \in [Type -> [Name -> Node \cup {NoNode}]]
        /\ newest \in [Type -> Seq(Node)]
    BY DEF RegistryInit
  <2>3. linked \in SUBSET Node /\ acting \in SUBSET Node
    BY DEF RegistryInit
  <2>4. ref_count \in [Node -> 0 .. IntMax]
    BY DEF RegistryInit
  <2>5. frames \in Seq(Frame) /\ hold \in [Token -> Node \cup {NoNode}]
    BY DEF RegistryInit
  <2> QED
    BY <2>1, <2>2, <2>3, <2>4, <2>5 DEF RegistryTypes
<1>2. IndexConsistent /\ OrderConsistent
  BY DEF RegistryInit, IndexConsistent, OrderConsistent, Find
<1>3. RefsCounted /\ NoDangling /\ DestroyIdle /\ FramesSafe
  BY DEF RegistryInit, RefsCounted, NoDangling, DestroyIdle, FramesSafe
<1> QED
  BY <1>1, <1>2, <1>3 DEF RegistryInv

\* What unlinking a linked node does to the index and to the order.
LEMMA RemoveStep ==
  ASSUME RegistryTypes, IndexConsistent, OrderConsistent,
         NEW x \in linked, Remove(x), UNCHANGED key
  PROVE  /\ names' \in [Type -> [Name -> Node \cup {NoNode}]]
         /\ newest' \in [Type -> Seq(Node)]
         /\ linked' = linked \ {x}
         /\ IndexConsistent'
         /\ OrderConsistent'
<1> DEFINE t == key[x].type
           n == key[x].name
<1>1. /\ x \in Node /\ t \in Type /\ n \in Name
      /\ key[x] = [type |-> t, name |-> n] /\ Find(t, n) = x
  BY DEF RegistryTypes, IndexConsistent
<1>2. /\ linked' = linked \ {x}
      /\ names' \in [Type -> [Name -> Node \cup {NoNode}]]
      /\ \A s \in Type, m \in Name :
            names'[s][m] = IF s = t /\ m = n THEN NoNode ELSE names[s][m]
  BY <1>1 DEF Remove, RegistryTypes
<1>3. IndexConsistent'
  <2>1. ASSUME NEW s \in Type, NEW m \in Name, names'[s][m] # NoNode
        PROVE  /\ names'[s][m] \in linked'
               /\ key'[names'[s][m]] = [type |-> s, name |-> m]
    BY <1>1, <1>2, <2>1 DEF IndexConsistent, Find
  <2>2. ASSUME NEW y \in linked'
        PROVE  names'[key'[y].type][key'[y].name] = y
    <3>1. key[y].type \in Type /\ key[y].name \in Name
      BY <1>2 DEF RegistryTypes
    <3>2. Find(key[y].type, key[y].name) = y /\ y # x
      BY <1>2 DEF IndexConsistent
    <3> QED
      BY <1>1, <1>2, <3>1, <3>2 DEF Find
  <2> QED
    BY <2>1, <2>2 DEF IndexConsistent, Find
<1>4. /\ newest[t] \in Seq(Node) /\ Distinct(newest[t])
      /\ x \in Elements(newest[t])
  BY <1>1 DEF RegistryTypes, OrderConsistent, Elements, Distinct
<1>5. /\ Without(newest[t], x) \in Seq(Node)
      /\ Elements(Without(newest[t], x)) = Elements(newest[t]) \ {x}
      /\ Distinct(Without(newest[t], x))
  BY <1>4, WithoutSeq
<1>6. /\ newest' \in [Type -> Seq(Node)]
      /\ newest'[t] = Without(newest[t], x)
      /\ \A s \in Type : s # t => newest'[s] = newest[s]
  BY <1>1, <1>5 DEF Remove, RegistryTypes
<1>7. OrderConsistent'
  <2> SUFFICES ASSUME NEW s \in Type
               PROVE  /\ Elements(newest'[s]) =
                            {y \in linked' : key'[y].type = s}
                      /\ Distinct(newest'[s])
    BY DEF OrderConsistent, Elements, Distinct
  <2>1. Elements(newest[s]) = {y \in linked : key[y].type = s}
    BY DEF OrderConsistent, Elements
  <2>2. Distinct(newest[s])
    BY DEF OrderConsistent, Distinct
  <2>3. CASE s = t
    BY <1>2, <1>5, <1>6, <2>1, <2>3
  <2>4. CASE s # t
    BY <1>1, <1>2, <1>6, <2>1, <2>2, <2>4
  <2> QED
    BY <2>3, <2>4
<1> QED
  BY <1>2, <1>3, <1>6, <1>7

\* A pointer set to x adds itself to the holders of x and to nobody else's.
LEMMA HoldTaken ==
  ASSUME RegistryTypes, NEW k \in Token, NEW x \in Node, hold[k] = NoNode,
         hold' = [hold EXCEPT ![k] = x]
  PROVE  /\ Cardinality(Holders(x))' = Cardinality(Holders(x)) + 1
         /\ \A y \in Node : y # x =>
               Cardinality(Holders(y))' = Cardinality(Holders(y))
<1> USE RegistryAssumption
<1>1. IsFiniteSet(Token)
  BY DEF Token
<1>2. Holders(x)' = Holders(x) \cup {k} /\ k \notin Holders(x)
  BY DEF Holders, RegistryTypes
<1>3. IsFiniteSet(Holders(x))
  BY <1>1, FS_Subset DEF Holders
<1>4. Cardinality(Holders(x) \cup {k}) = Cardinality(Holders(x)) + 1
  BY <1>2, <1>3, FS_AddElement
<1>5. \A y \in Node : y # x => Holders(y)' = Holders(y)
  BY DEF Holders, RegistryTypes
<1> QED
  BY <1>2, <1>4, <1>5

\* A pointer given up leaves the holders of its object and nobody else's.
LEMMA HoldDropped ==
  ASSUME RegistryTypes, NEW k \in Token, NEW x \in Node, hold[k] = x,
         hold' = [hold EXCEPT ![k] = NoNode]
  PROVE  /\ Cardinality(Holders(x)) \in Nat \ {0}
         /\ Cardinality(Holders(x))' = Cardinality(Holders(x)) - 1
         /\ Cardinality(Holders(x)) = 1 => \A j \in Token : hold'[j] # x
         /\ \A y \in Node : y # x =>
               Cardinality(Holders(y))' = Cardinality(Holders(y))
<1> USE RegistryAssumption
<1>1. IsFiniteSet(Token)
  BY DEF Token
<1>2. IsFiniteSet(Holders(x)) /\ k \in Holders(x)
  BY <1>1, FS_Subset DEF Holders
<1>3. Holders(x)' = Holders(x) \ {k}
  BY <1>2 DEF Holders, RegistryTypes
<1>4. /\ Cardinality(Holders(x)) \in Nat
      /\ IsFiniteSet(Holders(x)') /\ Cardinality(Holders(x)') \in Nat
      /\ Cardinality(Holders(x)') = Cardinality(Holders(x)) - 1
  BY <1>2, <1>3, FS_RemoveElement, FS_CardinalityType
<1>5. Cardinality(Holders(x)) = 1 => \A j \in Token : hold'[j] # x
  <2>1. Cardinality(Holders(x)) = 1 => Holders(x)' = {}
    BY <1>4, FS_EmptySet
  <2> QED
    BY <2>1 DEF Holders
<1>6. \A y \in Node : y # x => Holders(y)' = Holders(y)
  BY DEF Holders, RegistryTypes
<1> QED
  BY <1>4, <1>5, <1>6

-----------------------------------------------------------------------------
\* registry_add keeps the invariant.
LEMMA AddStep ==
  ASSUME RegistryInv, NEW k \in Handle, NEW x \in Node, NEW t \in Type,
         NEW n \in Name, Add(k, x, t, n)
  PROVE  RegistryInv'
<1> USE RegistryAssumption
<1>0. RegistryTypes /\ k \in Token /\ hold[k] = NoNode
  BY DEF RegistryInv, Token, Add
<1>1. x \notin linked /\ \A j \in Token : hold[j] # x
  BY DEF Add, Unused
<1>2. /\ names' \in [Type -> [Name -> Node \cup {NoNode}]]
      /\ \A s \in Type, m \in Name :
            names'[s][m] = IF s = t /\ m = n THEN x ELSE names[s][m]
      /\ names[t][n] = NoNode
  BY <1>0 DEF Add, RegistryTypes, Find
<1>3. /\ key' \in [Node -> [type : Type, name : Name]]
      /\ key'[x] = [type |-> t, name |-> n]
      /\ \A y \in Node : y # x => key'[y] = key[y]
      /\ linked' = linked \cup {x} /\ linked \subseteq Node
  BY <1>0 DEF Add, RegistryTypes
<1>4. IndexConsistent'
  <2>1. ASSUME NEW s \in Type, NEW m \in Name, names'[s][m] # NoNode
        PROVE  /\ names'[s][m] \in linked'
               /\ key'[names'[s][m]] = [type |-> s, name |-> m]
    <3>1. CASE s = t /\ m = n
      BY <1>2, <1>3, <3>1
    <3>2. CASE ~(s = t /\ m = n)
      BY <1>1, <1>2, <1>3, <2>1, <3>2 DEF RegistryInv, IndexConsistent, Find
    <3> QED
      BY <3>1, <3>2
  <2>2. ASSUME NEW y \in linked'
        PROVE  names'[key'[y].type][key'[y].name] = y
    <3>1. CASE y = x
      BY <1>2, <1>3, <3>1
    <3>2. CASE y # x
      <4>1. y \in linked /\ key'[y] = key[y] /\ key[y] \in [type : Type, name : Name]
        BY <1>0, <1>3, <3>2 DEF RegistryTypes
      <4>2. names[key[y].type][key[y].name] = y /\ y # NoNode
        BY <1>3, <4>1 DEF RegistryInv, IndexConsistent, Find
      <4> QED
        BY <1>2, <4>1, <4>2
    <3> QED
      BY <3>1, <3>2
  <2> QED
    BY <2>1, <2>2 DEF IndexConsistent, Find
<1>5. newest' \in [Type -> Seq(Node)] /\ OrderConsistent'
  <2>1. /\ newest[t] \in Seq(Node) /\ x \notin Elements(newest[t])
        /\ Distinct(newest[t])
    BY <1>0, <1>1 DEF RegistryInv, RegistryTypes, OrderConsistent, Elements, Distinct
  <2>2. /\ <<x>> \o newest[t] \in Seq(Node)
        /\ Elements(<<x>> \o newest[t]) = Elements(newest[t]) \cup {x}
        /\ Distinct(<<x>> \o newest[t])
    BY <2>1, PushElements
  <2>3. /\ newest' \in [Type -> Seq(Node)]
        /\ newest'[t] = <<x>> \o newest[t]
        /\ \A s \in Type : s # t => newest'[s] = newest[s]
    BY <1>0, <2>2 DEF Add, RegistryTypes
  <2> SUFFICES ASSUME NEW s \in Type
               PROVE  /\ Elements(newest'[s]) =
                            {y \in linked' : key'[y].type = s}
                      /\ Distinct(newest'[s])
    BY <2>3 DEF OrderConsistent, Elements, Distinct
  <2>4. Elements(newest[s]) = {y \in linked : key[y].type = s}
    BY DEF RegistryInv, OrderConsistent, Elements
  <2>5. Distinct(newest[s])
    BY DEF RegistryInv, OrderConsistent, Distinct
  <2>6. CASE s = t
    <3>1. {y \in linked' : key'[y].type = t} =
             {y \in linked : key[y].type = t} \cup {x}
      BY <1>1, <1>3
    <3> QED
      BY <2>2, <2>3, <2>4, <2>6, <3>1
  <2>7. CASE s # t
    <3>1. {y \in linked' : key'[y].type = s} = {y \in linked : key[y].type = s}
      BY <1>1, <1>3, <2>7
    <3> QED
      BY <2>3, <2>4, <2>5, <2>7, <3>1
  <2> QED
    BY <2>6, <2>7
<1>6. /\ hold' = [hold EXCEPT ![k] = x]
      /\ ref_count' = [ref_count EXCEPT ![x] = 1]
  BY DEF Add
<1>7. RegistryTypes'
  <2>1. hold' \in [Token -> Node \cup {NoNode}]
    BY <1>0, <1>6 DEF RegistryTypes
  <2>2. ref_count' \in [Node -> 0 .. IntMax]
    BY <1>0, <1>6 DEF RegistryTypes
  <2>3. UNCHANGED <<initialized, acting, frames>>
    BY DEF Add
  <2> QED
    BY <1>0, <1>2, <1>3, <1>5, <2>1, <2>2, <2>3 DEF RegistryTypes
<1>8. RefsCounted'
  <2>1. /\ Cardinality(Holders(x))' = Cardinality(Holders(x)) + 1
        /\ \A y \in Node : y # x =>
              Cardinality(Holders(y))' = Cardinality(Holders(y))
    BY <1>0, <1>6, HoldTaken
  <2>2. Cardinality(Holders(x)) = 0
    <3>1. Holders(x) = {}
      BY <1>1 DEF Holders
    <3> QED
      BY <3>1, FS_EmptySet
  <2>3. ASSUME NEW y \in linked' PROVE ref_count'[y] = Cardinality(Holders(y)')
    BY <1>0, <1>3, <1>6, <2>1, <2>2 DEF RegistryInv, RefsCounted, RegistryTypes
  <2> QED
    BY <2>3 DEF RefsCounted
<1>9. NoDangling'
  BY <1>0, <1>3, <1>6 DEF RegistryInv, NoDangling, RegistryTypes
<1>10. FramesSafe' /\ DestroyIdle'
  BY <1>0, <1>1, <1>3, <1>6 DEF RegistryInv, FramesSafe, DestroyIdle, RegistryTypes, Add
<1> QED
  BY <1>4, <1>5, <1>7, <1>8, <1>9, <1>10 DEF RegistryInv

\* A renaming keeps the invariant.
LEMMA RenameStep ==
  ASSUME RegistryInv, NEW t \in Type, NEW n \in Name, NEW m \in Name,
         Rename(t, n, m)
  PROVE  RegistryInv'
<1> USE RegistryAssumption
<1> DEFINE x == Find(t, n)
<1>0. RegistryTypes
  BY DEF RegistryInv
<1>1. /\ x \in linked /\ x \in Node /\ key[x] = [type |-> t, name |-> n]
      /\ names[t][m] = NoNode /\ linked \subseteq Node /\ m # n
  BY <1>0 DEF RegistryInv, Rename, IndexConsistent, Find, RegistryTypes
<1>2. UNCHANGED <<initialized, linked, ref_count, acting, frames, hold>>
  BY DEF Rename
<1>3. /\ names' \in [Type -> [Name -> Node \cup {NoNode}]]
      /\ \A s \in Type, l \in Name :
            names'[s][l] = IF s = t /\ l = m THEN x
                           ELSE IF s = t /\ l = n THEN NoNode
                           ELSE names[s][l]
  BY <1>0, <1>1 DEF Rename, RegistryTypes
<1>4. /\ key' \in [Node -> [type : Type, name : Name]]
      /\ key'[x] = [type |-> t, name |-> m]
      /\ \A y \in Node : y # x => key'[y] = key[y]
      /\ \A y \in Node : key'[y].type = key[y].type
  BY <1>0, <1>1 DEF Rename, RegistryTypes
<1> HIDE DEF x
<1>5. IndexConsistent'
  <2>1. ASSUME NEW s \in Type, NEW l \in Name, names'[s][l] # NoNode
        PROVE  /\ names'[s][l] \in linked'
               /\ key'[names'[s][l]] = [type |-> s, name |-> l]
    <3>1. CASE s = t /\ l = m
      BY <1>1, <1>2, <1>3, <1>4, <3>1
    <3>2. CASE ~(s = t /\ l = m)
      <4>1. /\ names'[s][l] = names[s][l] /\ names[s][l] # NoNode
            /\ ~(s = t /\ l = n)
        BY <1>3, <2>1, <3>2
      <4>2. /\ names[s][l] \in linked
            /\ key[names[s][l]] = [type |-> s, name |-> l]
        BY <4>1 DEF RegistryInv, IndexConsistent, Find
      <4>3. names[s][l] # x
        BY <1>1, <4>1, <4>2
      <4> QED
        BY <1>1, <1>2, <1>4, <4>1, <4>2, <4>3
    <3> QED
      BY <3>1, <3>2
  <2>2. ASSUME NEW y \in linked'
        PROVE  names'[key'[y].type][key'[y].name] = y
    <3>1. CASE y = x
      BY <1>3, <1>4, <3>1
    <3>2. CASE y # x
      <4>1. y \in linked /\ key'[y] = key[y] /\ key[y] \in [type : Type, name : Name]
        BY <1>0, <1>1, <1>2, <1>4, <3>2 DEF RegistryTypes
      <4>2. names[key[y].type][key[y].name] = y /\ y # NoNode
        BY <1>1, <4>1 DEF RegistryInv, IndexConsistent, Find
      <4>3. names[t][n] = x
        BY DEF x, Find
      <4> QED
        BY <1>1, <1>3, <3>2, <4>1, <4>2, <4>3
    <3> QED
      BY <3>1, <3>2
  <2> QED
    BY <2>1, <2>2 DEF IndexConsistent, Find
<1>6. newest' \in [Type -> Seq(Node)] /\ OrderConsistent'
  <2> DEFINE w == Without(newest[t], x)
  <2>1. /\ newest[t] \in Seq(Node) /\ x \in Elements(newest[t])
        /\ Distinct(newest[t])
    BY <1>0, <1>1 DEF RegistryInv, RegistryTypes, OrderConsistent, Elements, Distinct
  <2>2. /\ w \in Seq(Node) /\ Elements(w) = Elements(newest[t]) \ {x}
        /\ Distinct(w)
    BY <2>1, WithoutSeq
  <2> HIDE DEF w
  <2>3. /\ <<x>> \o w \in Seq(Node) /\ Elements(<<x>> \o w) = Elements(w) \cup {x}
        /\ Distinct(<<x>> \o w)
    BY <1>1, <2>2, PushElements
  <2>4. /\ newest' \in [Type -> Seq(Node)]
        /\ newest'[t] = <<x>> \o w
        /\ \A s \in Type : s # t => newest'[s] = newest[s]
    BY <1>0, <2>3 DEF Rename, RegistryTypes, w, x
  <2> SUFFICES ASSUME NEW s \in Type
               PROVE  /\ Elements(newest'[s]) =
                            {y \in linked' : key'[y].type = s}
                      /\ Distinct(newest'[s])
    BY <2>4 DEF OrderConsistent, Elements, Distinct
  <2>5. {y \in linked' : key'[y].type = s} = {y \in linked : key[y].type = s}
    BY <1>1, <1>2, <1>4
  <2>6. Elements(newest[s]) = {y \in linked : key[y].type = s}
    BY DEF RegistryInv, OrderConsistent, Elements
  <2>7. Distinct(newest[s])
    BY DEF RegistryInv, OrderConsistent, Distinct
  <2>8. CASE s = t
    <3>1. Elements(<<x>> \o w) = Elements(newest[t])
      BY <2>1, <2>2, <2>3
    <3> QED
      BY <2>3, <2>4, <2>5, <2>6, <2>8, <3>1
  <2>9. CASE s # t
    BY <2>4, <2>5, <2>6, <2>7, <2>9
  <2> QED
    BY <2>8, <2>9
<1>7. RegistryTypes'
  BY <1>0, <1>2, <1>3, <1>4, <1>6 DEF RegistryTypes
<1>8. RefsCounted' /\ NoDangling' /\ DestroyIdle' /\ FramesSafe'
  BY <1>2 DEF RegistryInv, RefsCounted, Holders, NoDangling, DestroyIdle, FramesSafe
<1> QED
  BY <1>5, <1>6, <1>7, <1>8 DEF RegistryInv

\* acquire and retain.
LEMMA TakeStep ==
  ASSUME RegistryInv, NEW k \in Token, NEW t \in Type, NEW n \in Name,
         ClientsBehave(t, n), Take(k, t, n)
  PROVE  RegistryInv'
<1> USE RegistryAssumption
<1>0. RegistryTypes
  BY DEF RegistryInv
<1>p. PICK x \in Node : x = Find(t, n)
  BY <1>0 DEF Take, Find, RegistryTypes
<1>1. /\ x \in linked /\ x \notin acting /\ ref_count[x] # IntMax
      /\ hold[k] = NoNode /\ linked \subseteq Node
  BY <1>0, <1>p DEF RegistryInv, Take, ClientsBehave, IndexConsistent, Find, RegistryTypes
<1>2. /\ UNCHANGED <<initialized, names, newest, linked, key, acting, frames>>
      /\ ref_count' = [ref_count EXCEPT ![x] = @ + 1]
      /\ hold' = [hold EXCEPT ![k] = x]
  BY <1>p DEF Take
<1>3. RegistryTypes'
  <2>1. ref_count' \in [Node -> 0 .. IntMax]
    BY <1>0, <1>1, <1>2 DEF RegistryTypes
  <2>2. hold' \in [Token -> Node \cup {NoNode}]
    BY <1>0, <1>1, <1>2 DEF RegistryTypes
  <2> QED
    BY <1>0, <1>2, <2>1, <2>2 DEF RegistryTypes
<1>4. IndexConsistent' /\ OrderConsistent'
  BY <1>2 DEF RegistryInv, IndexConsistent, OrderConsistent, Find
<1>5. RefsCounted'
  <2>1. /\ Cardinality(Holders(x))' = Cardinality(Holders(x)) + 1
        /\ \A y \in Node : y # x =>
              Cardinality(Holders(y))' = Cardinality(Holders(y))
    BY <1>0, <1>1, <1>2, HoldTaken
  <2>2. ASSUME NEW y \in linked' PROVE ref_count'[y] = Cardinality(Holders(y)')
    BY <1>0, <1>1, <1>2, <2>1 DEF RegistryInv, RefsCounted, RegistryTypes
  <2> QED
    BY <2>2 DEF RefsCounted
<1>6. NoDangling'
  BY <1>0, <1>1, <1>2 DEF RegistryInv, NoDangling, RegistryTypes
<1>7. DestroyIdle' /\ FramesSafe'
  BY <1>0, <1>1, <1>2 DEF RegistryInv, FramesSafe, DestroyIdle, RegistryTypes
<1> QED
  BY <1>3, <1>4, <1>5, <1>6, <1>7 DEF RegistryInv

\* Giving a reference up without unlinking: release, reset, and erase while
\* others remain.
LEMMA DropStep ==
  ASSUME RegistryInv, NEW k \in Token, hold[k] # NoNode,
         ref_count' = [ref_count EXCEPT ![hold[k]] = @ - 1],
         hold' = [hold EXCEPT ![k] = NoNode],
         UNCHANGED <<initialized, names, newest, linked, key, acting, frames>>
  PROVE  RegistryInv'
<1> USE RegistryAssumption
<1>0. RegistryTypes
  BY DEF RegistryInv
<1>p. PICK x \in Node : x = hold[k]
  BY <1>0 DEF RegistryTypes
<1>1. /\ x \in linked /\ linked \subseteq Node
      /\ ref_count[x] = Cardinality(Holders(x))
  BY <1>0, <1>p DEF RegistryInv, NoDangling, RefsCounted, RegistryTypes
<1>2. /\ Cardinality(Holders(x)) \in Nat \ {0}
      /\ Cardinality(Holders(x))' = Cardinality(Holders(x)) - 1
      /\ \A y \in Node : y # x =>
            Cardinality(Holders(y))' = Cardinality(Holders(y))
  BY <1>0, <1>p, HoldDropped
<1>3. /\ ref_count' = [ref_count EXCEPT ![x] = @ - 1]
      /\ hold' = [hold EXCEPT ![k] = NoNode]
  BY <1>p
<1>4. RegistryTypes'
  <2>1. ref_count' \in [Node -> 0 .. IntMax]
    <3>1. ref_count[x] \in 0 .. IntMax /\ ref_count[x] # 0
      BY <1>0, <1>1, <1>2 DEF RegistryTypes
    <3>2. ref_count[x] - 1 \in 0 .. IntMax
      BY <3>1
    <3> QED
      BY <1>0, <1>3, <3>2 DEF RegistryTypes
  <2>2. hold' \in [Token -> Node \cup {NoNode}]
    BY <1>0, <1>3 DEF RegistryTypes
  <2> QED
    BY <1>0, <2>1, <2>2 DEF RegistryTypes
<1>5. IndexConsistent' /\ OrderConsistent'
  BY DEF RegistryInv, IndexConsistent, OrderConsistent, Find
<1>6. RefsCounted'
  <2>1. ASSUME NEW y \in linked'
        PROVE  ref_count'[y] = Cardinality(Holders(y)')
    <3>1. CASE y = x
      BY <1>0, <1>1, <1>2, <1>3, <3>1 DEF RegistryTypes
    <3>2. CASE y # x
      BY <1>0, <1>1, <1>2, <1>3, <3>2 DEF RegistryInv, RefsCounted, RegistryTypes
    <3> QED
      BY <3>1, <3>2
  <2> QED
    BY <2>1 DEF RefsCounted
<1>7. NoDangling'
  BY <1>0, <1>3 DEF RegistryInv, NoDangling, RegistryTypes
<1>8. FramesSafe'
  BY DEF RegistryInv, FramesSafe
<1>9. DestroyIdle'
  <2> SUFFICES ASSUME NEW i \in DOMAIN frames, frames[i].kind = "action",
                      frames[i].remove
               PROVE  ref_count'[frames[i].node] = 0
    BY DEF DestroyIdle
  <2>1. ref_count[frames[i].node] = 0 /\ frames[i].node \in Node
    BY <1>1 DEF RegistryInv, DestroyIdle, FramesSafe
  <2>2. frames[i].node # x
    BY <1>1, <1>2, <2>1
  <2> QED
    BY <1>0, <1>3, <2>1, <2>2 DEF RegistryTypes
<1> QED
  BY <1>4, <1>5, <1>6, <1>7, <1>8, <1>9 DEF RegistryInv

\* A deletion that calls its destructor keeps the invariant.
LEMMA EraseStep ==
  ASSUME RegistryInv, NEW k \in Handle, Erase(k)
  PROVE  RegistryInv'
<1> USE RegistryAssumption
<1>0. RegistryTypes /\ k \in Token
  BY DEF RegistryInv, Token
<1>p. PICK x \in Node : x = hold[k]
  BY <1>0 DEF RegistryTypes, Erase
<1>1. /\ x # NoNode /\ x \in linked /\ linked \subseteq Node
      /\ x \notin acting
      /\ ref_count[x] = Cardinality(Holders(x)) /\ ref_count[x] \in Nat
  BY <1>0, <1>p DEF RegistryInv, NoDangling, RefsCounted, RegistryTypes, Erase
<1>2. /\ ref_count' = [ref_count EXCEPT ![x] = @ - 1]
      /\ hold' = [hold EXCEPT ![k] = NoNode]
      /\ UNCHANGED <<initialized, key, acting, frames>>
      /\ IF ref_count'[x] <= 0 THEN Remove(x)
                               ELSE UNCHANGED <<linked, names, newest>>
      /\ ref_count'[x] = ref_count[x] - 1
  BY <1>0, <1>p, <1>1 DEF Erase, RegistryTypes
<1>3. CASE ~(ref_count'[x] <= 0)
  BY <1>0, <1>1, <1>2, <1>3, <1>p, DropStep
<1>4. CASE ref_count'[x] <= 0
  <2>1. Remove(x)
    BY <1>2, <1>4
  <2>2. /\ Cardinality(Holders(x)) \in Nat \ {0}
        /\ Cardinality(Holders(x)) = 1 => \A j \in Token : hold'[j] # x
        /\ \A y \in Node : y # x =>
              Cardinality(Holders(y))' = Cardinality(Holders(y))
    BY <1>0, <1>1, <1>2, <1>p, HoldDropped
  <2>3. ref_count[x] = 1 /\ \A j \in Token : hold'[j] # x
    BY <1>1, <1>2, <1>4, <2>2
  <2>4. /\ names' \in [Type -> [Name -> Node \cup {NoNode}]]
        /\ newest' \in [Type -> Seq(Node)]
        /\ linked' = linked \ {x}
        /\ IndexConsistent' /\ OrderConsistent'
    BY <1>1, <1>2, <2>1, RemoveStep DEF RegistryInv
  <2>5. RegistryTypes'
    <3>1. ref_count' \in [Node -> 0 .. IntMax]
      BY <1>0, <1>1, <1>2, <2>3 DEF RegistryTypes
    <3>2. hold' \in [Token -> Node \cup {NoNode}]
      BY <1>0, <1>2 DEF RegistryTypes
    <3> QED
      BY <1>0, <1>2, <2>4, <3>1, <3>2 DEF RegistryTypes
  <2>6. RefsCounted'
    <3>1. ASSUME NEW y \in linked'
          PROVE  ref_count'[y] = Cardinality(Holders(y)')
      BY <1>0, <1>1, <1>2, <2>2, <2>4 DEF RegistryInv, RefsCounted, RegistryTypes
    <3> QED
      BY <3>1 DEF RefsCounted
  <2>7. NoDangling'
    BY <1>0, <1>2, <2>3, <2>4 DEF RegistryInv, NoDangling, RegistryTypes
  <2>8. FramesSafe' /\ DestroyIdle'
    BY <1>0, <1>1, <1>2, <2>4 DEF RegistryInv, FramesSafe, DestroyIdle, RegistryTypes
  <2> QED
    BY <2>4, <2>5, <2>6, <2>7, <2>8 DEF RegistryInv
<1> QED
  BY <1>3, <1>4

-----------------------------------------------------------------------------
\* A step that leaves the index, the nodes and the pointers alone.
LEMMA IndexKept ==
  ASSUME IndexConsistent, OrderConsistent, RefsCounted, NoDangling,
         UNCHANGED <<names, newest, linked, key, ref_count, hold>>
  PROVE  IndexConsistent' /\ OrderConsistent' /\ RefsCounted' /\ NoDangling'
<1>1. IndexConsistent'
  BY DEF IndexConsistent, Find
<1>2. OrderConsistent'
  BY DEF OrderConsistent
<1>3. RefsCounted'
  BY DEF RefsCounted, Holders
<1>4. NoDangling'
  BY DEF NoDangling
<1> QED
  BY <1>1, <1>2, <1>3, <1>4

\* What a callback's frame pushed on top keeps, given that its node is linked
\* and was not acting.
LEMMA PushActionStep ==
  ASSUME RegistryInv, NEW x \in linked, x \notin acting, NEW remove \in BOOLEAN,
         remove => ref_count[x] = 0,
         NEW rest \in Seq(Frame), DOMAIN rest = DOMAIN frames,
         \A i \in DOMAIN frames : /\ rest[i].kind = frames[i].kind
                                  /\ rest[i].node = frames[i].node
                                  /\ rest[i].remove = frames[i].remove,
         acting' = acting \cup {x},
         frames' = <<[kind |-> "action", node |-> x, remove |-> remove,
                      todo |-> << >>]>> \o rest,
         UNCHANGED <<initialized, names, newest, linked, key, ref_count, hold>>
  PROVE  RegistryInv'
<1> DEFINE f == [kind |-> "action", node |-> x, remove |-> remove,
                 todo |-> << >>]
<1>1. f \in Frame /\ x \in Node
  BY DEF Frame, RegistryInv, RegistryTypes
<1>2. /\ f.kind = "action" /\ f.node = x /\ f.remove = remove
      /\ frames' = <<f>> \o rest
  OBVIOUS
<1> HIDE DEF f
<1>3. /\ frames' \in Seq(Frame)
      /\ DOMAIN frames' = 1 .. Len(rest) + 1
      /\ frames'[1] = f
      /\ \A i \in 2 .. Len(rest) + 1 : frames'[i] = rest[i - 1]
      /\ \A i \in 1 .. Len(rest) : frames'[i + 1] = rest[i]
      /\ DOMAIN frames = 1 .. Len(rest) /\ Len(rest) \in Nat
  BY <1>1, <1>2, PushSeq
<1>4. RegistryTypes'
  <2>1. acting' \in SUBSET Node
    BY <1>1 DEF RegistryInv, RegistryTypes
  <2> QED
    BY <1>3, <2>1 DEF RegistryInv, RegistryTypes
<1>5. /\ IndexConsistent' /\ OrderConsistent' /\ RefsCounted' /\ NoDangling'
  BY IndexKept DEF RegistryInv
<1>6. \A i \in DOMAIN frames' : i # 1 =>
         /\ i - 1 \in DOMAIN frames
         /\ frames'[i].kind = frames[i - 1].kind
         /\ frames'[i].node = frames[i - 1].node
         /\ frames'[i].remove = frames[i - 1].remove
  BY <1>3
<1>7. DestroyIdle'
  <2> SUFFICES ASSUME NEW i \in DOMAIN frames', frames'[i].kind = "action",
                      frames'[i].remove
               PROVE  ref_count[frames'[i].node] = 0
    BY DEF DestroyIdle
  <2>1. CASE i = 1
    BY <1>2, <1>3, <2>1
  <2>2. CASE i # 1
    BY <1>6, <2>2 DEF RegistryInv, DestroyIdle
  <2> QED
    BY <2>1, <2>2
<1>8. FramesSafe'
  <2>1. ASSUME NEW i \in DOMAIN frames', frames'[i].kind = "action"
        PROVE  frames'[i].node \in linked \cap acting'
    <3>1. CASE i = 1
      BY <1>2, <1>3, <3>1
    <3>2. CASE i # 1
      BY <1>6, <2>1, <3>2 DEF RegistryInv, FramesSafe
    <3> QED
      BY <3>1, <3>2
  <2>2. ASSUME NEW i \in DOMAIN frames', NEW j \in DOMAIN frames',
               frames'[i].kind = "action", frames'[j].kind = "action",
               frames'[i].node = frames'[j].node
        PROVE  i = j
    <3>1. ASSUME NEW m \in DOMAIN frames', m # 1, frames'[m].kind = "action"
          PROVE  frames'[m].node # x
      <4>1. frames[m - 1].node \in acting
        BY <1>6, <3>1 DEF RegistryInv, FramesSafe
      <4> QED
        BY <1>6, <3>1, <4>1
    <3>2. CASE i = 1 \/ j = 1
      BY <1>2, <1>3, <2>2, <3>1, <3>2
    <3>3. CASE i # 1 /\ j # 1
      <4>1. /\ i - 1 \in DOMAIN frames /\ j - 1 \in DOMAIN frames
            /\ frames[i - 1].kind = "action" /\ frames[j - 1].kind = "action"
            /\ frames[i - 1].node = frames[j - 1].node
        BY <1>6, <2>2, <3>3
      <4>2. i - 1 = j - 1
        BY <4>1 DEF RegistryInv, FramesSafe
      <4> QED
        BY <1>3, <4>2
    <3> QED
      BY <3>2, <3>3
  <2>3. ASSUME NEW y \in acting'
        PROVE  \E i \in DOMAIN frames' :
                  frames'[i].kind = "action" /\ frames'[i].node = y
    <3>1. CASE y = x
      BY <1>2, <1>3, <3>1
    <3>2. CASE y # x
      <4>1. PICK i \in DOMAIN frames :
               frames[i].kind = "action" /\ frames[i].node = y
        BY <3>2 DEF RegistryInv, FramesSafe
      <4>2. /\ i + 1 \in DOMAIN frames'
            /\ frames'[i + 1].kind = "action" /\ frames'[i + 1].node = y
        BY <1>3, <4>1
      <4> QED
        BY <4>2
    <3> QED
      BY <3>1, <3>2
  <2> QED
    BY <2>1, <2>2, <2>3 DEF FramesSafe
<1> QED
  BY <1>4, <1>5, <1>7, <1>8 DEF RegistryInv

\* A call with the object at hand keeps the invariant.
LEMMA ExecuteStep ==
  ASSUME RegistryInv, NEW t \in Type, NEW n \in Name, NEW remove \in BOOLEAN,
         NEW maximum \in 0 .. 1, Execute(t, n, maximum, remove)
  PROVE  RegistryInv'
<1>0. RegistryTypes
  BY DEF RegistryInv
<1>1. PICK x \in linked : x = Find(t, n)
  BY DEF RegistryInv, IndexConsistent, Execute
<1>2. BeginAction(x, maximum, remove)
  BY <1>1 DEF Execute
<1>3. remove => ref_count[x] = 0
  BY <1>0, <1>2 DEF Execute, BeginAction, RegistryTypes
<1>4. frames \in Seq(Frame)
  BY <1>0 DEF RegistryTypes
<1> QED
  BY <1>2, <1>3, <1>4, PushActionStep DEF BeginAction, Push

\* The end of such a call, or of a destructor, keeps the invariant.
LEMMA EndActionStep ==
  ASSUME RegistryInv, NEW accepted \in BOOLEAN, EndAction(accepted)
  PROVE  RegistryInv'
<1> USE RegistryAssumption
<1>0. /\ RegistryTypes /\ frames # << >> /\ frames \in Seq(Frame)
      /\ Head(frames).kind = "action"
  BY DEF RegistryInv, RegistryTypes, EndAction
<1>1. /\ frames' \in Seq(Frame) /\ DOMAIN frames' = 1 .. Len(frames) - 1
      /\ Head(frames) = frames[1] /\ 1 \in DOMAIN frames
      /\ \A i \in DOMAIN frames' : frames'[i] = frames[i + 1]
      /\ DOMAIN frames = 1 .. Len(frames) /\ Len(frames) \in Nat
  BY <1>0, TailSeq DEF EndAction
<1>2. PICK x \in linked : x = frames[1].node /\ x \in acting
  BY <1>0, <1>1 DEF RegistryInv, FramesSafe
<1>3. /\ acting' = acting \ {x}
      /\ UNCHANGED <<initialized, key, ref_count, hold>>
      /\ IF frames[1].remove /\ accepted
           THEN Remove(x) ELSE UNCHANGED <<linked, names, newest>>
  BY <1>1, <1>2 DEF EndAction
<1>4. \A i \in DOMAIN frames' :
         i + 1 \in DOMAIN frames /\ i + 1 # 1 /\ frames'[i] = frames[i + 1]
  BY <1>1
<1>5. ASSUME NEW i \in DOMAIN frames', frames'[i].kind = "action"
      PROVE  frames'[i].node # x /\ frames'[i].node \in linked \cap acting
  BY <1>0, <1>1, <1>2, <1>4, <1>5 DEF RegistryInv, FramesSafe
<1>6. linked' = linked \/ linked' = linked \ {x}
  BY <1>3 DEF Remove
<1>7. DestroyIdle'
  BY <1>3, <1>4 DEF RegistryInv, DestroyIdle
<1>8. FramesSafe'
  <2>1. ASSUME NEW i \in DOMAIN frames', frames'[i].kind = "action"
        PROVE  frames'[i].node \in linked' \cap acting'
    BY <1>3, <1>5, <1>6, <2>1
  <2>2. ASSUME NEW i \in DOMAIN frames', NEW j \in DOMAIN frames',
               frames'[i].kind = "action", frames'[j].kind = "action",
               frames'[i].node = frames'[j].node
        PROVE  i = j
    <3>1. i + 1 = j + 1
      BY <1>4, <2>2 DEF RegistryInv, FramesSafe
    <3> QED
      BY <1>1, <3>1
  <2>3. ASSUME NEW y \in acting'
        PROVE  \E i \in DOMAIN frames' :
                  frames'[i].kind = "action" /\ frames'[i].node = y
    <3>1. PICK i \in DOMAIN frames :
             frames[i].kind = "action" /\ frames[i].node = y
      BY <1>3 DEF RegistryInv, FramesSafe
    <3>2. i # 1
      BY <1>2, <1>3, <2>3, <3>1
    <3>3. i - 1 \in DOMAIN frames' /\ frames'[i - 1] = frames[i]
      BY <1>1, <3>2
    <3> QED
      BY <3>1, <3>3
  <2> QED
    BY <2>1, <2>2, <2>3 DEF FramesSafe
<1>9. acting' \in SUBSET Node
  BY <1>0, <1>3 DEF RegistryTypes
<1>10. CASE ~(frames[1].remove /\ accepted)
  <2>1. UNCHANGED <<initialized, names, newest, linked, key, ref_count, hold>>
    BY <1>3, <1>10
  <2>2. IndexConsistent' /\ OrderConsistent' /\ RefsCounted' /\ NoDangling'
    BY <2>1, IndexKept DEF RegistryInv
  <2>3. RegistryTypes'
    BY <1>0, <1>1, <1>9, <2>1 DEF RegistryTypes
  <2> QED
    BY <1>7, <1>8, <2>2, <2>3 DEF RegistryInv
<1>11. CASE frames[1].remove /\ accepted
  <2>1. /\ names' \in [Type -> [Name -> Node \cup {NoNode}]]
        /\ newest' \in [Type -> Seq(Node)]
        /\ linked' = linked \ {x}
        /\ IndexConsistent' /\ OrderConsistent'
    BY <1>3, <1>11, RemoveStep DEF RegistryInv
  <2>2. ref_count[x] = 0
    BY <1>0, <1>1, <1>2, <1>11 DEF RegistryInv, DestroyIdle
  <2>3. \A k \in Token : hold[k] # x
    <3>1. IsFiniteSet(Token)
      BY DEF Token
    <3>2. IsFiniteSet(Holders(x)) /\ Cardinality(Holders(x)) = 0
      BY <2>2, <3>1, FS_Subset DEF Holders, RegistryInv, RefsCounted
    <3>3. Holders(x) = {}
      BY <3>2, FS_EmptySet
    <3> QED
      BY <3>3 DEF Holders
  <2>4. NoDangling'
    BY <1>3, <2>1, <2>3 DEF RegistryInv, NoDangling
  <2>5. RefsCounted'
    BY <1>3, <2>1 DEF RegistryInv, RefsCounted, Holders
  <2>6. linked' \in SUBSET Node
    BY <1>0, <2>1 DEF RegistryTypes
  <2>7. RegistryTypes'
    BY <1>0, <1>1, <1>3, <1>9, <2>1, <2>6 DEF RegistryTypes
  <2> QED
    BY <1>7, <1>8, <2>1, <2>4, <2>5, <2>7 DEF RegistryInv
<1> QED
  BY <1>10, <1>11

\* Frames of a walk carry no node: pushing or dropping one, or moving one on,
\* leaves the frames of callbacks as they are.
LEMMA BeginVisitStep ==
  ASSUME RegistryInv, NEW t \in Type, NEW remove \in BOOLEAN, BeginVisit(t, remove)
  PROVE  RegistryInv'
<1> DEFINE f == [kind |-> "visit", node |-> NoNode, remove |-> remove,
                 todo |-> newest[t]]
<1>1. f \in Frame /\ frames \in Seq(Frame)
  BY DEF Frame, RegistryInv, RegistryTypes
<1>2. /\ f.kind # "action" /\ frames' = <<f>> \o frames
      /\ UNCHANGED <<initialized, names, newest, linked, key, ref_count,
                     acting, hold>>
  BY DEF BeginVisit, Push
<1> HIDE DEF f
<1>3. /\ frames' \in Seq(Frame)
      /\ DOMAIN frames' = 1 .. Len(frames) + 1
      /\ frames'[1] = f
      /\ \A i \in 2 .. Len(frames) + 1 : frames'[i] = frames[i - 1]
      /\ \A i \in 1 .. Len(frames) : frames'[i + 1] = frames[i]
      /\ DOMAIN frames = 1 .. Len(frames) /\ Len(frames) \in Nat
  BY <1>1, <1>2, PushSeq
<1>4. IndexConsistent' /\ OrderConsistent' /\ RefsCounted' /\ NoDangling'
  BY <1>2, IndexKept DEF RegistryInv
<1>5. RegistryTypes'
  BY <1>2, <1>3 DEF RegistryInv, RegistryTypes
<1>6. \A i \in DOMAIN frames' : frames'[i].kind = "action" =>
         i # 1 /\ i - 1 \in DOMAIN frames /\ frames'[i] = frames[i - 1]
  BY <1>2, <1>3
<1>7. DestroyIdle'
  BY <1>2, <1>6 DEF RegistryInv, DestroyIdle
<1>8. FramesSafe'
  <2>1. \A i \in DOMAIN frames' : frames'[i].kind = "action" =>
           frames'[i].node \in linked' \cap acting'
    BY <1>2, <1>6 DEF RegistryInv, FramesSafe
  <2>2. ASSUME NEW i \in DOMAIN frames', NEW j \in DOMAIN frames',
               frames'[i].kind = "action", frames'[j].kind = "action",
               frames'[i].node = frames'[j].node
        PROVE  i = j
    <3>1. i - 1 = j - 1
      BY <1>6, <2>2 DEF RegistryInv, FramesSafe
    <3> QED
      BY <1>3, <3>1
  <2>3. ASSUME NEW y \in acting'
        PROVE  \E i \in DOMAIN frames' :
                  frames'[i].kind = "action" /\ frames'[i].node = y
    <3>1. PICK i \in DOMAIN frames :
             frames[i].kind = "action" /\ frames[i].node = y
      BY <1>2 DEF RegistryInv, FramesSafe
    <3>2. i + 1 \in DOMAIN frames' /\ frames'[i + 1] = frames[i]
      BY <1>3
    <3> QED
      BY <3>1, <3>2
  <2> QED
    BY <2>1, <2>2, <2>3 DEF FramesSafe
<1> QED
  BY <1>4, <1>5, <1>7, <1>8 DEF RegistryInv

\* The end of a visit keeps the invariant.
LEMMA EndVisitStep ==
  ASSUME RegistryInv, EndVisit
  PROVE  RegistryInv'
<1>0. /\ frames # << >> /\ frames \in Seq(Frame)
      /\ Head(frames).kind # "action"
      /\ UNCHANGED <<initialized, names, newest, linked, key, ref_count,
                     acting, hold>>
  BY DEF RegistryInv, RegistryTypes, EndVisit, Visiting
<1>1. /\ frames' \in Seq(Frame) /\ DOMAIN frames' = 1 .. Len(frames) - 1
      /\ frames[1].kind # "action"
      /\ \A i \in DOMAIN frames' : frames'[i] = frames[i + 1]
      /\ DOMAIN frames = 1 .. Len(frames) /\ Len(frames) \in Nat
  BY <1>0, TailSeq DEF EndVisit
<1>2. IndexConsistent' /\ OrderConsistent' /\ RefsCounted' /\ NoDangling'
  BY <1>0, IndexKept DEF RegistryInv
<1>3. RegistryTypes'
  BY <1>0, <1>1 DEF RegistryInv, RegistryTypes
<1>4. \A i \in DOMAIN frames' :
         i + 1 \in DOMAIN frames /\ frames'[i] = frames[i + 1]
  BY <1>1
<1>5. DestroyIdle'
  BY <1>0, <1>4 DEF RegistryInv, DestroyIdle
<1>6. FramesSafe'
  <2>1. \A i \in DOMAIN frames' : frames'[i].kind = "action" =>
           frames'[i].node \in linked' \cap acting'
    BY <1>0, <1>4 DEF RegistryInv, FramesSafe
  <2>2. ASSUME NEW i \in DOMAIN frames', NEW j \in DOMAIN frames',
               frames'[i].kind = "action", frames'[j].kind = "action",
               frames'[i].node = frames'[j].node
        PROVE  i = j
    <3>1. i + 1 = j + 1
      BY <1>4, <2>2 DEF RegistryInv, FramesSafe
    <3> QED
      BY <1>1, <3>1
  <2>3. ASSUME NEW y \in acting'
        PROVE  \E i \in DOMAIN frames' :
                  frames'[i].kind = "action" /\ frames'[i].node = y
    <3>1. PICK i \in DOMAIN frames :
             frames[i].kind = "action" /\ frames[i].node = y
      BY <1>0 DEF RegistryInv, FramesSafe
    <3>2. i - 1 \in DOMAIN frames' /\ frames'[i - 1] = frames[i]
      BY <1>1, <3>1
    <3> QED
      BY <3>1, <3>2
  <2> QED
    BY <2>1, <2>2, <2>3 DEF FramesSafe
<1> QED
  BY <1>2, <1>3, <1>5, <1>6 DEF RegistryInv

\* The next visit of a walk keeps the invariant.
LEMMA VisitNextStep ==
  ASSUME RegistryInv, VisitNext
  PROVE  RegistryInv'
<1> DEFINE x == Head(Head(frames).todo)
<1>0. /\ RegistryTypes /\ frames # << >> /\ frames \in Seq(Frame)
      /\ Head(frames).todo # << >>
  BY DEF RegistryInv, RegistryTypes, VisitNext, Visiting
<1>1. /\ Head(frames) = frames[1] /\ 1 \in DOMAIN frames /\ frames[1] \in Frame
  BY <1>0, TailSeq
<1>2. /\ Advance \in Seq(Frame) /\ DOMAIN Advance = DOMAIN frames
      /\ \A i \in DOMAIN frames : /\ Advance[i].kind = frames[i].kind
                                  /\ Advance[i].node = frames[i].node
                                  /\ Advance[i].remove = frames[i].remove
  <2> DEFINE f == [frames[1] EXCEPT !.todo = Tail(@)]
  <2>1. Tail(frames[1].todo) \in Seq(Node)
    BY <1>0, <1>1 DEF Frame
  <2>2. /\ f \in Frame /\ f.kind = frames[1].kind /\ f.node = frames[1].node
        /\ f.remove = frames[1].remove
    BY <1>1, <2>1 DEF Frame
  <2>3. Advance = [frames EXCEPT ![1] = f]
    BY <1>1 DEF Advance
  <2> HIDE DEF f
  <2> QED
    BY <1>0, <1>1, <2>2, <2>3
<1>3. UNCHANGED <<initialized, names, newest, linked, key, ref_count, hold>>
  BY DEF VisitNext
<1>4. CASE Head(frames).remove /\ Erasable(x)
  <2>1. PICK y \in linked : y = x /\ ref_count[y] = 0 /\ y \notin acting
    BY <1>4 DEF Erasable
  <2>2. /\ acting' = acting \cup {y}
        /\ frames' = <<[kind |-> "action", node |-> y, remove |-> TRUE,
                        todo |-> << >>]>> \o Advance
    BY <1>4, <2>1 DEF VisitNext
  <2>3. PICK rest \in Seq(Frame) : rest = Advance
    BY <1>2
  <2>4. /\ frames' = <<[kind |-> "action", node |-> y, remove |-> TRUE,
                        todo |-> << >>]>> \o rest
        /\ DOMAIN rest = DOMAIN frames
        /\ \A i \in DOMAIN frames : /\ rest[i].kind = frames[i].kind
                                    /\ rest[i].node = frames[i].node
                                    /\ rest[i].remove = frames[i].remove
    BY <1>2, <2>2, <2>3
  <2> QED
    BY <1>3, <2>1, <2>2, <2>4, PushActionStep
<1>5. CASE ~(Head(frames).remove /\ Erasable(x))
  <2>1. frames' = Advance /\ UNCHANGED acting
    BY <1>5 DEF VisitNext
  <2>2. IndexConsistent' /\ OrderConsistent' /\ RefsCounted' /\ NoDangling'
    BY <1>3, IndexKept DEF RegistryInv
  <2>3. RegistryTypes'
    BY <1>0, <1>2, <1>3, <2>1 DEF RegistryTypes
  <2>4. DestroyIdle' /\ FramesSafe'
    <3>1. /\ DOMAIN frames' = DOMAIN frames
          /\ \A i \in DOMAIN frames : /\ frames'[i].kind = frames[i].kind
                                      /\ frames'[i].node = frames[i].node
                                      /\ frames'[i].remove = frames[i].remove
      BY <1>2, <2>1
    <3>2. DestroyIdle'
      BY <1>3, <3>1 DEF RegistryInv, DestroyIdle
    <3>3. FramesSafe'
      BY <1>3, <2>1, <3>1 DEF RegistryInv, FramesSafe
    <3> QED
      BY <3>2, <3>3
  <2> QED
    BY <2>2, <2>3, <2>4 DEF RegistryInv
<1> QED
  BY <1>4, <1>5

-----------------------------------------------------------------------------
\* Every step keeps the invariant.
LEMMA RegistryNextInv == RegistryInv /\ [RegistryNext]_registryVars => RegistryInv'
<1> SUFFICES ASSUME RegistryInv, [RegistryNext]_registryVars PROVE RegistryInv'
  OBVIOUS
<1>0. RegistryTypes /\ NoDangling
  BY DEF RegistryInv
<1>1. CASE UNCHANGED <<names, newest, linked, key, ref_count, acting, frames,
                       hold>> /\ initialized' \in BOOLEAN
  <2>1. IndexConsistent' /\ OrderConsistent' /\ RefsCounted' /\ NoDangling'
    BY <1>1, IndexKept DEF RegistryInv
  <2>2. RegistryTypes'
    BY <1>0, <1>1 DEF RegistryTypes
  <2>3. DestroyIdle' /\ FramesSafe'
    BY <1>1 DEF RegistryInv, DestroyIdle, FramesSafe
  <2> QED
    BY <2>1, <2>2, <2>3 DEF RegistryInv
<1>2. CASE UNCHANGED registryVars
  BY <1>0, <1>1, <1>2 DEF registryVars, RegistryTypes
<1>3. CASE Initialize
  BY <1>1, <1>3 DEF Initialize
<1>4. CASE \E k \in Handle, x \in Node, t \in Type, n \in Name : Add(k, x, t, n)
  BY <1>4, AddStep
<1>5. CASE \E t \in Type, n, m \in Name : Rename(t, n, m)
  BY <1>5, RenameStep
<1>6. CASE \E h \in Handle, t \in Type, n \in Name : Acquire(h, t, n)
  BY <1>6, TakeStep DEF Acquire, Token
<1>7. CASE \E r \in Reference, t \in Type, n \in Name : Retain(r, t, n)
  BY <1>7, TakeStep DEF Retain, Token
<1>8. CASE \E k \in Handle : Release(k)
  <2>1. PICK k \in Token : Release(k)
    BY <1>8 DEF Token
  <2> QED
    BY <2>1, DropStep DEF Release
<1>9. CASE \E k \in Handle : Erase(k)
  BY <1>9, EraseStep
<1>10. CASE \E r \in Reference : Reset(r)
  <2>1. PICK r \in Token : Reset(r)
    BY <1>10 DEF Token
  <2>2. hold[r] \in linked
    BY <1>0, <2>1 DEF NoDangling, Reset
  <2> QED
    BY <2>1, <2>2, DropStep DEF Reset
<1>11. CASE \E t \in Type, n \in Name, remove \in BOOLEAN, maximum \in 0 .. 1 :
               Execute(t, n, maximum, remove)
  BY <1>11, ExecuteStep
<1>12. CASE \E accepted \in BOOLEAN : EndAction(accepted)
  BY <1>12, EndActionStep
<1>13. CASE \E t \in Type, remove \in BOOLEAN : BeginVisit(t, remove)
  BY <1>13, BeginVisitStep
<1>14. CASE VisitNext
  BY <1>14, VisitNextStep
<1>15. CASE EndVisit
  BY <1>15, EndVisitStep
<1> QED
  BY <1>2, <1>3, <1>4, <1>5, <1>6, <1>7, <1>8, <1>9, <1>10, <1>11, <1>12,
     <1>13, <1>14, <1>15 DEF RegistryNext

\* The invariant holds in every behaviour.
LEMMA RegistryInvHolds == RegistrySpec => []RegistryInv
  BY RegistryInitInv, RegistryNextInv, PTL DEF RegistrySpec

\* Every field of the registry keeps its type; in particular no reference
\* count ever becomes negative or passes INT_MAX, whatever the callbacks do.
THEOREM RegistryTypeOK == RegistrySpec => []RegistryTypes
<1>1. RegistryInv => RegistryTypes
  BY DEF RegistryInv
<1> QED
  BY RegistryInvHolds, <1>1, PTL

\* The index, the nodes and the per-type order agree in every reachable
\* state, for any number of objects, names and nested callbacks.
THEOREM RegistryIndexed == RegistrySpec => []Indexed
<1>1. RegistryInv => Indexed
  BY DEF RegistryInv, Indexed
<1> QED
  BY RegistryInvHolds, <1>1, PTL

\* The count of a registered object is the number of its holders, and no
\* holder is left behind by a destructor or a deletion.
THEOREM RegistryRefsSafe == RegistrySpec => []RefsSafe
<1>1. RegistryInv => RefsSafe
  BY DEF RegistryInv, RefsSafe
<1> QED
  BY RegistryInvHolds, <1>1, PTL

\* A destructor runs on a linked, unreferenced object that no other pending
\* callback of run_action works on, to the moment it returns.
THEOREM RegistryCallbacksSafe == RegistrySpec => []CallbacksSafe
<1>1. RegistryInv => CallbacksSafe
  BY DEF RegistryInv, CallbacksSafe
<1> QED
  BY RegistryInvHolds, <1>1, PTL

-----------------------------------------------------------------------------
(***************************************************************************)
(* Proofs about VmCpu for any number of CPU objects.                       *)
(*                                                                         *)
(* QuiescentChange is not inductive.  What makes it true is an argument    *)
(* about the order of three accesses: the controller stores the new state, *)
(* then clears seq_state, and the CPU thread sets seq_state only outside   *)
(* its loop and before it reads the state.  Sequence says it.              *)
(***************************************************************************)

\* Which calls pass through a place in the controller.
CallAt ==
  /\ ctl = "idle" => call = "none"
  /\ ctl \in {"resume", "restore", "mark_resumed"}
       => call \in {"resume", "oir_start", "oir_stop"}
  /\ ctl \in {"suspend", "save", "set_suspended", "mark_suspended"}
       => call \in {"start", "suspend", "oir_start", "oir_stop"}
  /\ ctl \in {"reset_seq", "poll", "poll_state", "poll_seq"}
       => call \in {"start", "oir_start", "stop", "delete"}
  /\ ctl \in {"boot", "mark_running", "cpu_start"} => call = "start"
  /\ ctl \in {"stop_cpu", "mark_shutdown", "free_hw", "hw_shutdown",
              "mark_halted", "cpu_delete", "join"}
       => call \in {"stop", "delete"}
  /\ ctl = "slot_init" => call = "oir_start"
  /\ ctl = "slot_shutdown" => call = "oir_stop"

\* Every place that follows vm->cpu_group is reached with a CPU group.
GroupAt ==
  /\ ctl \notin {"idle", "suspend", "resume", "free_hw", "hw_shutdown"}
       => group # NoCpu
  /\ call \in {"start", "oir_start", "oir_stop"} => group # NoCpu
  /\ status \in {"running", "suspended"} => group # NoCpu \/ freed
  /\ freed => group = NoCpu
  /\ call \in {"stop", "delete"} => ~freed
  /\ call \in {"stop", "delete"} /\ group # NoCpu
       => \/ status # "halted"
          \/ ctl \in {"stop_cpu", "mark_shutdown", "cpu_delete", "join"}
  /\ ctl = "cpu_start" /\ overlap # "now" => status # "suspended"
  /\ ctl \in {"cpu_delete", "join"} => status \notin {"running", "suspended"}

\* The console thread is in its menu only while it serves a VM with a CPU
\* group, and overlap tells whether the controller is in a call meanwhile.
ConsoleAt ==
  /\ console => exists /\ (group # NoCpu \/ freed)
  /\ menu # "none" => console
  /\ ctl \in {"mark_halted", "cpu_delete", "join"} => ~console
  /\ ctl # "idle" => exists
  /\ ctl # "idle" /\ menu # "none" => overlap = "now"

\* cpu_thread_running is FALSE only before and after the CPU loop.
RunningFlag ==
  \A c \in Cpu : ~running[c] => cpu[c] \in {"none", "start", "join", "done"}

\* The timer thread exists only while the CPU thread does.
TimerOwned ==
  \A c \in Cpu : cpu[c] \in {"none", "start", "done"} => timer[c] # "looping"

\* The controller or the console has told the CPU to pause or halt and will
\* not tell it to run before the call returns.
Told == \/ /\ overlap # "now"
           /\ \/ call = "start"
              \/ call \in {"stop", "delete"} /\ ctl # "stop_cpu"
        \/ /\ overlap = "never"
           /\ \/ ctl = "mark_suspended" \/ menu = "mark_suspended"
              \/ /\ status = "suspended"
                 /\ ctl # "mark_resumed" /\ menu # "mark_resumed"

\* A CPU that was told executes only if its thread has read its state before:
\* only the thread's loop writes "running" back.
ToldStays ==
  group # NoCpu /\ Told /\ state[group] = "running"
    => cpu[group] \in {"check", "exec"}

\* If seq_state was set since it was cleared, the thread has read the state
\* it was told and will not read another.
Sequence ==
  ctl \in {"poll", "poll_state", "poll_seq"} /\ Told /\ seq_state[group]
    => /\ state[group] # "running"
       /\ cpu[group] \notin {"exec", "stopping", "set_running"}

Control == CallAt /\ GroupAt /\ ConsoleAt
Threads == RunningFlag /\ TimerOwned /\ ToldStays /\ Sequence

IndInv == TypeOK /\ Control /\ Threads /\ QuiescentChange

-----------------------------------------------------------------------------
\* Every step keeps the types.
LEMMA TypeStep == IndInv /\ [Next]_vars => TypeOK'
<1> SUFFICES ASSUME IndInv, [Next]_vars PROVE TypeOK'
  OBVIOUS
<1> USE VmCpuAssumption DEF IndInv, vars, ctlVars, vmVars, cpuVars, menuVars,
      TypeOK, Status, State, Call, CpuLoc, CtlLoc, MenuLoc, Control, GroupAt
<1>1. CASE Create
  BY <1>1 DEF Create
<1>2. CASE Suspend
  BY <1>2 DEF Suspend, Enter
<1>3. CASE Resume
  BY <1>3 DEF Resume, Enter
<1>4. CASE CallUsesFreed
  BY <1>4 DEF CallUsesFreed, From
<1>5. ASSUME NEW c \in Cpu, Start(c) PROVE TypeOK'
  BY <1>5 DEF Start, Enter, CpuCreated
<1>6. ASSUME NEW c \in Cpu, StartFails(c) PROVE TypeOK'
  <2>1. CASE CpuCreated(c)
    <3>1. /\ state' \in [Cpu -> State] /\ prev_state' \in [Cpu -> State]
          /\ cpu' \in [Cpu -> CpuLoc]
          /\ timer' \in [Cpu -> {"none", "looping", "done"}]
      BY <2>1 DEF CpuCreated
    <3>2. /\ seq_state' \in [Cpu -> BOOLEAN] /\ running' \in [Cpu -> BOOLEAN]
          /\ zero' \in [Cpu -> BOOLEAN]
      BY <2>1 DEF CpuCreated
    <3> QED
      BY <1>6, <3>1, <3>2 DEF StartFails
  <2>2. CASE UNCHANGED cpuVars
    BY <1>6, <2>2 DEF StartFails
  <2> QED
    BY <1>6, <2>1, <2>2 DEF StartFails
<1>7. ASSUME NEW k \in Call, Stop(k) PROVE TypeOK'
  BY <1>7 DEF Stop, Enter
<1>8. ASSUME NEW k \in Call, Oir(k) PROVE TypeOK'
  BY <1>8 DEF Oir, Enter
<1>9. CASE SuspendCheck
  BY <1>9 DEF SuspendCheck, From, AfterSuspend
<1>10. CASE SaveState
  BY <1>10 DEF SaveState, From
<1>11. CASE SetSuspended
  BY <1>11 DEF SetSuspended, SetState, From
<1>12. CASE MarkSuspended
  BY <1>12 DEF MarkSuspended, SetStatus, From, AfterSuspend
<1>13. CASE ResumeCheck
  BY <1>13 DEF ResumeCheck, From
<1>14. CASE RestoreState
  BY <1>14 DEF RestoreState, SetState, From
<1>15. CASE MarkResumed
  BY <1>15 DEF MarkResumed, SetStatus, From
<1>16. CASE ResetSeq
  BY <1>16 DEF ResetSeq, From
<1>17. CASE Poll
  BY <1>17 DEF Poll, From, AfterSync
<1>18. CASE PollState
  BY <1>18 DEF PollState, From
<1>19. CASE PollSeq
  BY <1>19 DEF PollSeq, From, AfterSync
<1>20. CASE SyncTimeout
  BY <1>20 DEF SyncTimeout, From
<1>21. ASSUME NEW b \in BOOLEAN, Boot(b) PROVE TypeOK'
  BY <1>21 DEF Boot, From
<1>22. CASE MarkRunning
  BY <1>22 DEF MarkRunning, SetStatus, From
<1>23. CASE CpuStart
  BY <1>23 DEF CpuStart, SetState, From
<1>24. CASE SlotInit
  BY <1>24 DEF SlotInit, From
<1>25. CASE SlotShutdown
  BY <1>25 DEF SlotShutdown, From
<1>26. CASE StopCpu
  BY <1>26 DEF StopCpu, SetState, From
<1>27. CASE MarkShutdown
  BY <1>27 DEF MarkShutdown, SetStatus, From
<1>28. CASE FreeHw
  BY <1>28 DEF FreeHw, From
<1>29. CASE HwShutdown
  <2>1. exists' \in BOOLEAN /\ console' \in BOOLEAN
    BY <1>29 DEF HwShutdown
  <2>2. call' \in Call /\ ctl' \in CtlLoc
    BY <1>29 DEF HwShutdown, From
  <2> QED
    BY <1>29, <2>1, <2>2 DEF HwShutdown, From
<1>30. CASE MarkHalted
  BY <1>30 DEF MarkHalted, SetStatus, From
<1>31. CASE CpuDelete
  BY <1>31 DEF CpuDelete, SetState, From
<1>32. CASE Join
  BY <1>32 DEF Join, From
<1>33. ASSUME NEW c \in Cpu, CpuBegin(c) PROVE TypeOK'
  <2>1. /\ timer' \in [Cpu -> {"none", "looping", "done"}]
        /\ cpu' \in [Cpu -> CpuLoc] /\ state' \in [Cpu -> State]
    BY <1>33 DEF CpuBegin, CpuFrom
  <2>2. running' \in [Cpu -> BOOLEAN]
    BY <1>33 DEF CpuBegin
  <2> QED
    BY <1>33, <2>1, <2>2 DEF CpuBegin
<1>34. ASSUME NEW c \in Cpu, CpuCheck(c) PROVE TypeOK'
  BY <1>34 DEF CpuCheck, CpuFrom
<1>35. ASSUME NEW c \in Cpu, CpuExec(c) PROVE TypeOK'
  BY <1>35 DEF CpuExec, CpuFrom
<1>36. ASSUME NEW c \in Cpu, InvalidPc(c) PROVE TypeOK'
  BY <1>36 DEF InvalidPc, CpuFrom
<1>37. ASSUME NEW c \in Cpu, CompileFails(c) PROVE TypeOK'
  BY <1>37 DEF CompileFails, CpuFrom
<1>38. ASSUME NEW c \in Cpu, GuestStop(c) PROVE TypeOK'
  BY <1>38 DEF GuestStop, CpuFrom
<1>39. ASSUME NEW c \in Cpu, GuestStopped(c) PROVE TypeOK'
  BY <1>39 DEF GuestStopped, CpuFrom
<1>40. ASSUME NEW c \in Cpu, CpuLeave(c) PROVE TypeOK'
  BY <1>40 DEF CpuLeave, CpuFrom
<1>41. ASSUME NEW c \in Cpu, CpuSeq(c) PROVE TypeOK'
  BY <1>41 DEF CpuSeq, CpuFrom
<1>42. ASSUME NEW c \in Cpu, CpuSwitch(c) PROVE TypeOK'
  BY <1>42 DEF CpuSwitch, CpuFrom
<1>43. ASSUME NEW c \in Cpu, CpuSetRunning(c) PROVE TypeOK'
  BY <1>43 DEF CpuSetRunning, CpuFrom
<1>44. ASSUME NEW c \in Cpu, CpuHalting(c) PROVE TypeOK'
  BY <1>44 DEF CpuHalting, CpuFrom
<1>45. ASSUME NEW c \in Cpu, CpuJoin(c) PROVE TypeOK'
  BY <1>45 DEF CpuJoin, CpuFrom
<1>46. ASSUME NEW c \in Cpu, GuestShutdown(c) PROVE TypeOK'
  BY <1>46 DEF GuestShutdown
<1>47. ASSUME NEW c \in Cpu, TimerEnds(c) PROVE TypeOK'
  BY <1>47 DEF TimerEnds
<1>48. CASE ConsoleQuit
  BY <1>48 DEF ConsoleQuit
<1>49. CASE MenuSuspend
  BY <1>49 DEF MenuSuspend, MenuEnter, MenuSaveState, MenuSetState,
    MenuSetStatus, MenuFrom
<1>50. CASE MenuResume
  BY <1>50 DEF MenuResume, MenuEnter, MenuSetState, MenuSetStatus, MenuFrom
<1>51. CASE MenuUseFreed
  BY <1>51 DEF MenuUseFreed, MenuFrom
<1>52. CASE UNCHANGED vars
  BY <1>52
<1> QED
  BY <1>1, <1>2, <1>3, <1>4, <1>5, <1>6, <1>7, <1>8, <1>9, <1>10, <1>11,
    <1>12, <1>13, <1>14, <1>15, <1>16, <1>17, <1>18, <1>19, <1>20, <1>21,
    <1>22, <1>23, <1>24, <1>25, <1>26, <1>27, <1>28, <1>29, <1>30, <1>31,
    <1>32, <1>33, <1>34, <1>35, <1>36, <1>37, <1>38, <1>39, <1>40, <1>41,
    <1>42, <1>43, <1>44, <1>45, <1>46, <1>47, <1>48, <1>49, <1>50, <1>51,
    <1>52 DEF Next, Calls, Ctl, CpuThread, Menu, Call

\* Every step keeps what is known of the controller and of the console.
LEMMA ControlStep == IndInv /\ [Next]_vars => Control'
<1> SUFFICES ASSUME IndInv, [Next]_vars PROVE Control'
  OBVIOUS
<1> USE VmCpuAssumption DEF IndInv, vars, ctlVars, vmVars, cpuVars, menuVars,
      TypeOK, Status, State, Call, CpuLoc, CtlLoc, MenuLoc, Control, CallAt,
      GroupAt, ConsoleAt
<1>1. CASE Create
  BY <1>1 DEF Create
<1>2. CASE Suspend
  BY <1>2 DEF Suspend, Enter
<1>3. CASE Resume
  BY <1>3 DEF Resume, Enter
<1>4. CASE CallUsesFreed
  BY <1>4 DEF CallUsesFreed, From
<1>5. ASSUME NEW c \in Cpu, Start(c) PROVE Control'
  BY <1>5 DEF Start, Enter, CpuCreated
<1>6. ASSUME NEW c \in Cpu, StartFails(c) PROVE Control'
  BY <1>6 DEF StartFails, CpuCreated
<1>7. ASSUME NEW k \in Call, Stop(k) PROVE Control'
  BY <1>7 DEF Stop, Enter
<1>8. ASSUME NEW k \in Call, Oir(k) PROVE Control'
  BY <1>8 DEF Oir, Enter
<1>9. CASE SuspendCheck
  BY <1>9 DEF SuspendCheck, From, AfterSuspend
<1>10. CASE SaveState
  BY <1>10 DEF SaveState, From
<1>11. CASE SetSuspended
  BY <1>11 DEF SetSuspended, SetState, From
<1>12. CASE MarkSuspended
  BY <1>12 DEF MarkSuspended, SetStatus, From, AfterSuspend
<1>13. CASE ResumeCheck
  BY <1>13 DEF ResumeCheck, From
<1>14. CASE RestoreState
  BY <1>14 DEF RestoreState, SetState, From
<1>15. CASE MarkResumed
  BY <1>15 DEF MarkResumed, SetStatus, From
<1>16. CASE ResetSeq
  BY <1>16 DEF ResetSeq, From
<1>17. CASE Poll
  BY <1>17 DEF Poll, From, AfterSync
<1>18. CASE PollState
  BY <1>18 DEF PollState, From
<1>19. CASE PollSeq
  BY <1>19 DEF PollSeq, From, AfterSync
<1>20. CASE SyncTimeout
  BY <1>20 DEF SyncTimeout, From
<1>21. ASSUME NEW b \in BOOLEAN, Boot(b) PROVE Control'
  BY <1>21 DEF Boot, From
<1>22. CASE MarkRunning
  BY <1>22 DEF MarkRunning, SetStatus, From
<1>23. CASE CpuStart
  BY <1>23 DEF CpuStart, SetState, From
<1>24. CASE SlotInit
  BY <1>24 DEF SlotInit, From
<1>25. CASE SlotShutdown
  BY <1>25 DEF SlotShutdown, From
<1>26. CASE StopCpu
  BY <1>26 DEF StopCpu, SetState, From
<1>27. CASE MarkShutdown
  BY <1>27 DEF MarkShutdown, SetStatus, From
<1>28. CASE FreeHw
  BY <1>28 DEF FreeHw, From
<1>29. CASE HwShutdown
  BY <1>29 DEF HwShutdown, From
<1>30. CASE MarkHalted
  BY <1>30 DEF MarkHalted, SetStatus, From
<1>31. CASE CpuDelete
  BY <1>31 DEF CpuDelete, SetState, From
<1>32. CASE Join
  BY <1>32 DEF Join, From
<1>33. ASSUME NEW c \in Cpu, CpuBegin(c) PROVE Control'
  BY <1>33 DEF CpuBegin, CpuFrom
<1>34. ASSUME NEW c \in Cpu, CpuCheck(c) PROVE Control'
  BY <1>34 DEF CpuCheck, CpuFrom
<1>35. ASSUME NEW c \in Cpu, CpuExec(c) PROVE Control'
  BY <1>35 DEF CpuExec, CpuFrom
<1>36. ASSUME NEW c \in Cpu, InvalidPc(c) PROVE Control'
  BY <1>36 DEF InvalidPc, CpuFrom
<1>37. ASSUME NEW c \in Cpu, CompileFails(c) PROVE Control'
  BY <1>37 DEF CompileFails, CpuFrom
<1>38. ASSUME NEW c \in Cpu, GuestStop(c) PROVE Control'
  BY <1>38 DEF GuestStop, CpuFrom
<1>39. ASSUME NEW c \in Cpu, GuestStopped(c) PROVE Control'
  BY <1>39 DEF GuestStopped, CpuFrom
<1>40. ASSUME NEW c \in Cpu, CpuLeave(c) PROVE Control'
  BY <1>40 DEF CpuLeave, CpuFrom
<1>41. ASSUME NEW c \in Cpu, CpuSeq(c) PROVE Control'
  BY <1>41 DEF CpuSeq, CpuFrom
<1>42. ASSUME NEW c \in Cpu, CpuSwitch(c) PROVE Control'
  BY <1>42 DEF CpuSwitch, CpuFrom
<1>43. ASSUME NEW c \in Cpu, CpuSetRunning(c) PROVE Control'
  BY <1>43 DEF CpuSetRunning, CpuFrom
<1>44. ASSUME NEW c \in Cpu, CpuHalting(c) PROVE Control'
  BY <1>44 DEF CpuHalting, CpuFrom
<1>45. ASSUME NEW c \in Cpu, CpuJoin(c) PROVE Control'
  BY <1>45 DEF CpuJoin, CpuFrom
<1>46. ASSUME NEW c \in Cpu, GuestShutdown(c) PROVE Control'
  BY <1>46 DEF GuestShutdown
<1>47. ASSUME NEW c \in Cpu, TimerEnds(c) PROVE Control'
  BY <1>47 DEF TimerEnds
<1>48. CASE ConsoleQuit
  BY <1>48 DEF ConsoleQuit
<1>49. CASE MenuSuspend
  BY <1>49 DEF MenuSuspend, MenuEnter, MenuSaveState, MenuSetState,
    MenuSetStatus, MenuFrom
<1>50. CASE MenuResume
  BY <1>50 DEF MenuResume, MenuEnter, MenuSetState, MenuSetStatus, MenuFrom
<1>51. CASE MenuUseFreed
  BY <1>51 DEF MenuUseFreed, MenuFrom
<1>52. CASE UNCHANGED vars
  BY <1>52
<1> QED
  BY <1>1, <1>2, <1>3, <1>4, <1>5, <1>6, <1>7, <1>8, <1>9, <1>10, <1>11,
    <1>12, <1>13, <1>14, <1>15, <1>16, <1>17, <1>18, <1>19, <1>20, <1>21,
    <1>22, <1>23, <1>24, <1>25, <1>26, <1>27, <1>28, <1>29, <1>30, <1>31,
    <1>32, <1>33, <1>34, <1>35, <1>36, <1>37, <1>38, <1>39, <1>40, <1>41,
    <1>42, <1>43, <1>44, <1>45, <1>46, <1>47, <1>48, <1>49, <1>50, <1>51,
    <1>52 DEF Next, Calls, Ctl, CpuThread, Menu, Call

\* Every step keeps what is known of the threads.
LEMMA ThreadsStep == IndInv /\ [Next]_vars => Threads'
<1> SUFFICES ASSUME IndInv, [Next]_vars PROVE Threads'
  OBVIOUS
<1> USE VmCpuAssumption DEF IndInv, vars, ctlVars, vmVars, cpuVars, menuVars,
      TypeOK, Status, State, Call, CpuLoc, CtlLoc, MenuLoc, Control, CallAt,
      GroupAt, ConsoleAt, Threads, RunningFlag, TimerOwned, ToldStays, Told,
      Sequence
<1>1. CASE Create
  BY <1>1 DEF Create
<1>2. CASE Suspend
  BY <1>2 DEF Suspend, Enter
<1>3. CASE Resume
  BY <1>3 DEF Resume, Enter
<1>4. CASE CallUsesFreed
  BY <1>4 DEF CallUsesFreed, From
<1>5. ASSUME NEW c \in Cpu, Start(c) PROVE Threads'
  BY <1>5 DEF Start, Enter, CpuCreated
<1>6. ASSUME NEW c \in Cpu, StartFails(c) PROVE Threads'
  BY <1>6 DEF StartFails, CpuCreated
<1>7. ASSUME NEW k \in Call, Stop(k) PROVE Threads'
  BY <1>7 DEF Stop, Enter
<1>8. ASSUME NEW k \in Call, Oir(k) PROVE Threads'
  BY <1>8 DEF Oir, Enter
<1>9. CASE SuspendCheck
  BY <1>9 DEF SuspendCheck, From, AfterSuspend
<1>10. CASE SaveState
  BY <1>10 DEF SaveState, From
<1>11. CASE SetSuspended
  BY <1>11 DEF SetSuspended, SetState, From
<1>12. CASE MarkSuspended
  BY <1>12 DEF MarkSuspended, SetStatus, From, AfterSuspend
<1>13. CASE ResumeCheck
  BY <1>13 DEF ResumeCheck, From
<1>14. CASE RestoreState
  BY <1>14 DEF RestoreState, SetState, From
<1>15. CASE MarkResumed
  BY <1>15 DEF MarkResumed, SetStatus, From
<1>16. CASE ResetSeq
  BY <1>16 DEF ResetSeq, From
<1>17. CASE Poll
  BY <1>17 DEF Poll, From, AfterSync
<1>18. CASE PollState
  BY <1>18 DEF PollState, From
<1>19. CASE PollSeq
  BY <1>19 DEF PollSeq, From, AfterSync
<1>20. CASE SyncTimeout
  BY <1>20 DEF SyncTimeout, From
<1>21. ASSUME NEW b \in BOOLEAN, Boot(b) PROVE Threads'
  BY <1>21 DEF Boot, From
<1>22. CASE MarkRunning
  BY <1>22 DEF MarkRunning, SetStatus, From
<1>23. CASE CpuStart
  BY <1>23 DEF CpuStart, SetState, From
<1>24. CASE SlotInit
  BY <1>24 DEF SlotInit, From
<1>25. CASE SlotShutdown
  BY <1>25 DEF SlotShutdown, From
<1>26. CASE StopCpu
  BY <1>26 DEF StopCpu, SetState, From
<1>27. CASE MarkShutdown
  BY <1>27 DEF MarkShutdown, SetStatus, From
<1>28. CASE FreeHw
  BY <1>28 DEF FreeHw, From
<1>29. CASE HwShutdown
  BY <1>29 DEF HwShutdown, From
<1>30. CASE MarkHalted
  BY <1>30 DEF MarkHalted, SetStatus, From
<1>31. CASE CpuDelete
  BY <1>31 DEF CpuDelete, SetState, From
<1>32. CASE Join
  BY <1>32 DEF Join, From
<1>33. ASSUME NEW c \in Cpu, CpuBegin(c) PROVE Threads'
  BY <1>33 DEF CpuBegin, CpuFrom
<1>34. ASSUME NEW c \in Cpu, CpuCheck(c) PROVE Threads'
  BY <1>34 DEF CpuCheck, CpuFrom
<1>35. ASSUME NEW c \in Cpu, CpuExec(c) PROVE Threads'
  BY <1>35 DEF CpuExec, CpuFrom
<1>36. ASSUME NEW c \in Cpu, InvalidPc(c) PROVE Threads'
  BY <1>36 DEF InvalidPc, CpuFrom
<1>37. ASSUME NEW c \in Cpu, CompileFails(c) PROVE Threads'
  BY <1>37 DEF CompileFails, CpuFrom
<1>38. ASSUME NEW c \in Cpu, GuestStop(c) PROVE Threads'
  BY <1>38 DEF GuestStop, CpuFrom
<1>39. ASSUME NEW c \in Cpu, GuestStopped(c) PROVE Threads'
  BY <1>39 DEF GuestStopped, CpuFrom
<1>40. ASSUME NEW c \in Cpu, CpuLeave(c) PROVE Threads'
  BY <1>40 DEF CpuLeave, CpuFrom
<1>41. ASSUME NEW c \in Cpu, CpuSeq(c) PROVE Threads'
  BY <1>41 DEF CpuSeq, CpuFrom
<1>42. ASSUME NEW c \in Cpu, CpuSwitch(c) PROVE Threads'
  BY <1>42 DEF CpuSwitch, CpuFrom
<1>43. ASSUME NEW c \in Cpu, CpuSetRunning(c) PROVE Threads'
  BY <1>43 DEF CpuSetRunning, CpuFrom
<1>44. ASSUME NEW c \in Cpu, CpuHalting(c) PROVE Threads'
  BY <1>44 DEF CpuHalting, CpuFrom
<1>45. ASSUME NEW c \in Cpu, CpuJoin(c) PROVE Threads'
  BY <1>45 DEF CpuJoin, CpuFrom
<1>46. ASSUME NEW c \in Cpu, GuestShutdown(c) PROVE Threads'
  BY <1>46 DEF GuestShutdown
<1>47. ASSUME NEW c \in Cpu, TimerEnds(c) PROVE Threads'
  BY <1>47 DEF TimerEnds
<1>48. CASE ConsoleQuit
  BY <1>48 DEF ConsoleQuit
<1>49. CASE MenuSuspend
  BY <1>49 DEF MenuSuspend, MenuEnter, MenuSaveState, MenuSetState,
    MenuSetStatus, MenuFrom
<1>50. CASE MenuResume
  BY <1>50 DEF MenuResume, MenuEnter, MenuSetState, MenuSetStatus, MenuFrom
<1>51. CASE MenuUseFreed
  BY <1>51 DEF MenuUseFreed, MenuFrom
<1>52. CASE UNCHANGED vars
  BY <1>52
<1> QED
  BY <1>1, <1>2, <1>3, <1>4, <1>5, <1>6, <1>7, <1>8, <1>9, <1>10, <1>11,
    <1>12, <1>13, <1>14, <1>15, <1>16, <1>17, <1>18, <1>19, <1>20, <1>21,
    <1>22, <1>23, <1>24, <1>25, <1>26, <1>27, <1>28, <1>29, <1>30, <1>31,
    <1>32, <1>33, <1>34, <1>35, <1>36, <1>37, <1>38, <1>39, <1>40, <1>41,
    <1>42, <1>43, <1>44, <1>45, <1>46, <1>47, <1>48, <1>49, <1>50, <1>51,
    <1>52 DEF Next, Calls, Ctl, CpuThread, Menu, Call

\* A change of memory or devices begins and stays quiescent.
LEMMA QuiescentStep == IndInv /\ [Next]_vars => QuiescentChange'
<1> SUFFICES ASSUME IndInv, [Next]_vars PROVE QuiescentChange'
  OBVIOUS
<1> USE VmCpuAssumption DEF IndInv, vars, ctlVars, vmVars, cpuVars, menuVars,
      TypeOK, Status, State, Call, CpuLoc, CtlLoc, MenuLoc, Control, CallAt,
      GroupAt, ConsoleAt, Threads, RunningFlag, TimerOwned, ToldStays, Told,
      Sequence, QuiescentChange, Changing, Spoiled, Executing
<1>1. CASE Create
  BY <1>1 DEF Create
<1>2. CASE Suspend
  BY <1>2 DEF Suspend, Enter
<1>3. CASE Resume
  BY <1>3 DEF Resume, Enter
<1>4. CASE CallUsesFreed
  BY <1>4 DEF CallUsesFreed, From
<1>5. ASSUME NEW c \in Cpu, Start(c) PROVE QuiescentChange'
  BY <1>5 DEF Start, Enter, CpuCreated
<1>6. ASSUME NEW c \in Cpu, StartFails(c) PROVE QuiescentChange'
  BY <1>6 DEF StartFails, CpuCreated
<1>7. ASSUME NEW k \in Call, Stop(k) PROVE QuiescentChange'
  BY <1>7 DEF Stop, Enter
<1>8. ASSUME NEW k \in Call, Oir(k) PROVE QuiescentChange'
  BY <1>8 DEF Oir, Enter
<1>9. CASE SuspendCheck
  BY <1>9 DEF SuspendCheck, From, AfterSuspend
<1>10. CASE SaveState
  BY <1>10 DEF SaveState, From
<1>11. CASE SetSuspended
  BY <1>11 DEF SetSuspended, SetState, From
<1>12. CASE MarkSuspended
  BY <1>12 DEF MarkSuspended, SetStatus, From, AfterSuspend
<1>13. CASE ResumeCheck
  BY <1>13 DEF ResumeCheck, From
<1>14. CASE RestoreState
  BY <1>14 DEF RestoreState, SetState, From
<1>15. CASE MarkResumed
  BY <1>15 DEF MarkResumed, SetStatus, From
<1>16. CASE ResetSeq
  BY <1>16 DEF ResetSeq, From
<1>17. CASE Poll
  BY <1>17 DEF Poll, From, AfterSync
<1>18. CASE PollState
  BY <1>18 DEF PollState, From
<1>19. CASE PollSeq
  BY <1>19 DEF PollSeq, From, AfterSync
<1>20. CASE SyncTimeout
  BY <1>20 DEF SyncTimeout, From
<1>21. ASSUME NEW b \in BOOLEAN, Boot(b) PROVE QuiescentChange'
  BY <1>21 DEF Boot, From
<1>22. CASE MarkRunning
  BY <1>22 DEF MarkRunning, SetStatus, From
<1>23. CASE CpuStart
  BY <1>23 DEF CpuStart, SetState, From
<1>24. CASE SlotInit
  BY <1>24 DEF SlotInit, From
<1>25. CASE SlotShutdown
  BY <1>25 DEF SlotShutdown, From
<1>26. CASE StopCpu
  BY <1>26 DEF StopCpu, SetState, From
<1>27. CASE MarkShutdown
  BY <1>27 DEF MarkShutdown, SetStatus, From
<1>28. CASE FreeHw
  BY <1>28 DEF FreeHw, From
<1>29. CASE HwShutdown
  BY <1>29 DEF HwShutdown, From
<1>30. CASE MarkHalted
  BY <1>30 DEF MarkHalted, SetStatus, From
<1>31. CASE CpuDelete
  BY <1>31 DEF CpuDelete, SetState, From
<1>32. CASE Join
  BY <1>32 DEF Join, From
<1>33. ASSUME NEW c \in Cpu, CpuBegin(c) PROVE QuiescentChange'
  BY <1>33 DEF CpuBegin, CpuFrom
<1>34. ASSUME NEW c \in Cpu, CpuCheck(c) PROVE QuiescentChange'
  BY <1>34 DEF CpuCheck, CpuFrom
<1>35. ASSUME NEW c \in Cpu, CpuExec(c) PROVE QuiescentChange'
  BY <1>35 DEF CpuExec, CpuFrom
<1>36. ASSUME NEW c \in Cpu, InvalidPc(c) PROVE QuiescentChange'
  BY <1>36 DEF InvalidPc, CpuFrom
<1>37. ASSUME NEW c \in Cpu, CompileFails(c) PROVE QuiescentChange'
  BY <1>37 DEF CompileFails, CpuFrom
<1>38. ASSUME NEW c \in Cpu, GuestStop(c) PROVE QuiescentChange'
  BY <1>38 DEF GuestStop, CpuFrom
<1>39. ASSUME NEW c \in Cpu, GuestStopped(c) PROVE QuiescentChange'
  BY <1>39 DEF GuestStopped, CpuFrom
<1>40. ASSUME NEW c \in Cpu, CpuLeave(c) PROVE QuiescentChange'
  BY <1>40 DEF CpuLeave, CpuFrom
<1>41. ASSUME NEW c \in Cpu, CpuSeq(c) PROVE QuiescentChange'
  BY <1>41 DEF CpuSeq, CpuFrom
<1>42. ASSUME NEW c \in Cpu, CpuSwitch(c) PROVE QuiescentChange'
  BY <1>42 DEF CpuSwitch, CpuFrom
<1>43. ASSUME NEW c \in Cpu, CpuSetRunning(c) PROVE QuiescentChange'
  BY <1>43 DEF CpuSetRunning, CpuFrom
<1>44. ASSUME NEW c \in Cpu, CpuHalting(c) PROVE QuiescentChange'
  BY <1>44 DEF CpuHalting, CpuFrom
<1>45. ASSUME NEW c \in Cpu, CpuJoin(c) PROVE QuiescentChange'
  BY <1>45 DEF CpuJoin, CpuFrom
<1>46. ASSUME NEW c \in Cpu, GuestShutdown(c) PROVE QuiescentChange'
  BY <1>46 DEF GuestShutdown
<1>47. ASSUME NEW c \in Cpu, TimerEnds(c) PROVE QuiescentChange'
  BY <1>47 DEF TimerEnds
<1>48. CASE ConsoleQuit
  BY <1>48 DEF ConsoleQuit
<1>49. CASE MenuSuspend
  BY <1>49 DEF MenuSuspend, MenuEnter, MenuSaveState, MenuSetState,
    MenuSetStatus, MenuFrom
<1>50. CASE MenuResume
  BY <1>50 DEF MenuResume, MenuEnter, MenuSetState, MenuSetStatus, MenuFrom
<1>51. CASE MenuUseFreed
  BY <1>51 DEF MenuUseFreed, MenuFrom
<1>52. CASE UNCHANGED vars
  BY <1>52
<1> QED
  BY <1>1, <1>2, <1>3, <1>4, <1>5, <1>6, <1>7, <1>8, <1>9, <1>10, <1>11,
    <1>12, <1>13, <1>14, <1>15, <1>16, <1>17, <1>18, <1>19, <1>20, <1>21,
    <1>22, <1>23, <1>24, <1>25, <1>26, <1>27, <1>28, <1>29, <1>30, <1>31,
    <1>32, <1>33, <1>34, <1>35, <1>36, <1>37, <1>38, <1>39, <1>40, <1>41,
    <1>42, <1>43, <1>44, <1>45, <1>46, <1>47, <1>48, <1>49, <1>50, <1>51,
    <1>52 DEF Next, Calls, Ctl, CpuThread, Menu, Call

-----------------------------------------------------------------------------
\* The invariant at the start.
LEMMA IndInvInit == Init => IndInv
<1> SUFFICES ASSUME Init PROVE IndInv
  OBVIOUS
<1>1. TypeOK
  BY VmCpuAssumption
     DEF Init, TypeOK, Status, State, Call, CpuLoc, CtlLoc, MenuLoc
<1>2. Control
  BY DEF Init, Control, CallAt, GroupAt, ConsoleAt
<1>3. Threads
  BY DEF Init, Threads, RunningFlag, TimerOwned, ToldStays, Told, Sequence
<1>4. QuiescentChange
  BY DEF Init, QuiescentChange, Changing
<1> QED
  BY <1>1, <1>2, <1>3, <1>4 DEF IndInv

\* The invariant holds in every behaviour.
LEMMA IndInvHolds == Spec => []IndInv
<1>1. IndInv /\ [Next]_vars => IndInv'
  BY TypeStep, ControlStep, ThreadsStep, QuiescentStep DEF IndInv
<1> QED
  BY IndInvInit, <1>1, PTL DEF Spec

\* The fields of the VM and of its CPUs keep their types, however many CPU
\* objects there are and whichever calls fail.
THEOREM VmCpuTypeOK == Spec => []TypeOK
BY IndInvHolds, PTL DEF IndInv

\* boot_ios, free_hw_ressources and the OIR start work on a CPU that does not
\* execute and will not begin to: cpu_group_sync_state is sound although it
\* reads three unprotected fields one after the other, as long as vm_suspend
\* and vm_resume of the console's menu do not overlap the call.
THEOREM VmCpuQuiescent == Spec => []QuiescentChange
BY IndInvHolds, PTL DEF IndInv

\* cpu_delete frees a CPU whose timer thread has ended.
THEOREM VmCpuThreadsEnded == Spec => []ThreadsEnded
<1>1. IndInv => ThreadsEnded
  BY DEF IndInv, Threads, TimerOwned, ThreadsEnded
<1> QED
  BY IndInvHolds, <1>1, PTL
=============================================================================
