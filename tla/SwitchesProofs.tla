--------------------------- MODULE SwitchesProofs ---------------------------
(***************************************************************************)
(* Proofs about the virtual switches and bridges, for any number of ports, *)
(* addresses, VLANs, buckets, NIOs, DLCIs, VPIs, VCIs, connections, slots  *)
(* and FIFOs and any hash function.  First comes the Ethernet switch       *)
(* (EthSwitch), then the circuits of Frame Relay and ATM and what they     *)
(* hold of their NIOs (frame_relay.c, atm.c), the ATM bridge, the NIO      *)
(* bridge, FIFO NIOs and the whole (Switches).                             *)
(***************************************************************************)
EXTENDS Switches, FiniteSetTheorems, FunctionTheorems, SequenceTheorems,
        WellFoundedInduction, TLAPS

-----------------------------------------------------------------------------
(* The Ethernet switch.                                                    *)

IndInv == TypeOK /\ MatchHasPort /\ LocationCurrent

\* The VLAN of a frame that is not dropped is a VLAN of the table, when its
\* outer tag is.
LEMMA InputVlanType ==
  ASSUME TypeOK, NEW p \in Nio, NEW tags \in Tags
  PROVE  InputVlan(type[p], vlan[p], tags) \in Vlan \cup {0}
<1>1. type[p] \in PortType /\ vlan[p] \in Vlan
  BY DEF TypeOK
<1>2. tags \in Seq(Vlan \cup {0})
  BY EthAssumption
<1>3. tags # <<>> => tags[1] \in Vlan \cup {0}
  BY <1>2
<1> QED
  BY <1>1, <1>3 DEF InputVlan, PortType

\* A port that listens has its NIO.
LEMMA ListeningNio ==
  ASSUME TypeOK
  PROVE  Listening \subseteq Nio
BY DEF TypeOK, Listening, Ports

\* Learning keeps the table's type.
LEMMA LearnType ==
  ASSUME TypeOK, NEW p \in Nio, NEW f \in Frame, NEW v \in Vlan
  PROVE  Learn(p, f, v) \in [Bucket -> Entry]
<1>1. Hash[f.src][v] \in Bucket
  BY EthAssumption DEF Frame
<1> QED
  BY <1>1 DEF TypeOK, Learn, Entry, Frame

\* The invariant at the start.
LEMMA Initial == Init => IndInv
<1> SUFFICES ASSUME Init PROVE IndInv
  OBVIOUS
<1>1. TypeOK
  BY EthAssumption DEF Init, TypeOK, Entry, NoEntry, PortType
<1>2. MatchHasPort
  BY DEF Init, MatchHasPort, NoEntry
<1>3. \A m \in Mac, v \in Vlan : Hash[m][v] \in Bucket
  BY EthAssumption
<1>4. LocationCurrent
  BY <1>3, EthAssumption DEF Init, LocationCurrent, NoEntry
<1> QED
  BY <1>1, <1>2, <1>4 DEF IndInv

\* Every step keeps the invariant.
LEMMA Step == IndInv /\ [Next]_vars => IndInv'
<1> SUFFICES ASSUME IndInv, [Next]_vars PROVE IndInv'
  OBVIOUS
<1>t. TypeOK /\ MatchHasPort /\ LocationCurrent
  BY DEF IndInv
<1>h. \A m \in Mac, v \in Vlan : Hash[m][v] \in Bucket
  BY EthAssumption
<1>v. 0 \notin Vlan /\ 1 \in Vlan
  BY EthAssumption
<1>e. NoEntry \in Entry /\ NoEntry.vlan = 0
  BY DEF NoEntry, Entry
<1>1. ASSUME NEW p \in Nio, NEW f \in Frame, Receive(p, f)
      PROVE  IndInv'
  <2> DEFINE v == InputVlan(type[p], vlan[p], f.tags)
  <2>1. v \in Vlan
    <3>1. f.tags \in Tags
      BY DEF Frame
    <3> QED
      BY <1>1, <1>t, <3>1, InputVlanType DEF Receive
  <2>2. f.src \in Mac
    BY DEF Frame
  <2> HIDE DEF v
  <2>3. /\ entry' = Learn(p, f, v)
        /\ seen' = [seen EXCEPT ![f.src][v] = p]
        /\ UNCHANGED <<nio, type, vlan, leaving>>
    BY <1>1 DEF Receive, portVars, v
  <2>4. TypeOK'
    <3>1. entry' \in [Bucket -> Entry]
      BY <2>1, <2>3, <1>t, LearnType
    <3>2. seen' \in [Mac -> [Vlan -> Nio \cup {NoNio}]]
      BY <2>1, <2>2, <2>3, <1>t DEF TypeOK
    <3> QED
      BY <3>1, <3>2, <2>3, <1>t DEF TypeOK
  <2>5. \A b \in Bucket :
          entry'[b] = IF b = Hash[f.src][v]
                      THEN [nio |-> p, vlan |-> v, mac |-> f.src]
                      ELSE entry[b]
    BY <2>3, <1>t DEF TypeOK, Learn
  <2>6. MatchHasPort'
    BY <2>5, <1>t, EthAssumption DEF MatchHasPort
  <2>7. LocationCurrent'
    <3> SUFFICES ASSUME NEW m \in Mac, NEW w \in Vlan,
                        entry'[Hash[m][w]].mac = m, entry'[Hash[m][w]].vlan = w
                 PROVE  entry'[Hash[m][w]].nio = seen'[m][w]
      BY DEF LocationCurrent
    <3>1. CASE Hash[m][w] = Hash[f.src][v]
      <4>1. m = f.src /\ w = v /\ entry'[Hash[m][w]].nio = p
        BY <3>1, <1>h, <2>5
      <4> QED
        BY <4>1, <2>1, <2>2, <2>3, <1>t DEF TypeOK
    <3>2. CASE Hash[m][w] # Hash[f.src][v]
      <4>1. entry'[Hash[m][w]] = entry[Hash[m][w]]
        BY <3>2, <1>h, <2>5
      <4>2. <<m, w>> # <<f.src, v>>
        BY <3>2
      <4>3. seen'[m][w] = seen[m][w]
        BY <4>2, <2>3, <1>t DEF TypeOK
      <4> QED
        BY <4>1, <4>3, <1>t DEF LocationCurrent
    <3> QED
      BY <3>1, <3>2
  <2> QED
    BY <2>4, <2>6, <2>7 DEF IndInv
<1>2. ASSUME NEW n \in Nio, AddNetio(n)
      PROVE  IndInv'
  <2>1. TypeOK'
    BY <1>2, <1>t, <1>v DEF AddNetio, TypeOK, tableVars, PortType
  <2>2. MatchHasPort' /\ LocationCurrent'
    BY <1>2, <1>t DEF AddNetio, MatchHasPort, LocationCurrent, tableVars
  <2> QED
    BY <2>1, <2>2 DEF IndInv
<1>3. ASSUME NEW n \in Nio, RemoveNetio(n)
      PROVE  IndInv'
  <2>1. \A b \in Bucket : entry'[b] = entry[b]
             \/ entry'[b] = [entry[b] EXCEPT !.nio = NoNio, !.vlan = 0]
    BY <1>3 DEF RemoveNetio, InvalidatePort
  <2>2. ASSUME NEW b \in Bucket PROVE entry'[b] \in Entry
    <3>1. entry[b] \in Entry
      BY <1>t DEF TypeOK
    <3>2. [entry[b] EXCEPT !.nio = NoNio, !.vlan = 0] \in Entry
      BY <3>1 DEF Entry
    <3> QED
      BY <2>1, <3>1, <3>2
  <2>3. ASSUME NEW b \in Bucket
        PROVE  entry'[b] = entry[b] \/ entry'[b].vlan = 0
    <3>1. entry[b] \in Entry
      BY <1>t DEF TypeOK
    <3>2. [entry[b] EXCEPT !.nio = NoNio, !.vlan = 0].vlan = 0
      BY <3>1 DEF Entry
    <3> QED
      BY <2>1, <3>2
  <2>4. TypeOK'
    <3>1. entry' \in [Bucket -> Entry]
      BY <2>2, <1>3 DEF RemoveNetio, InvalidatePort
    <3> QED
      BY <3>1, <1>3, <1>t DEF RemoveNetio, TypeOK, portVars
  <2>5. MatchHasPort'
    BY <2>3, <1>t DEF MatchHasPort
  <2>6. LocationCurrent'
    <3> SUFFICES ASSUME NEW m \in Mac, NEW w \in Vlan,
                        entry'[Hash[m][w]].mac = m, entry'[Hash[m][w]].vlan = w
                 PROVE  entry'[Hash[m][w]].nio = seen'[m][w]
      BY DEF LocationCurrent
    <3>1. entry'[Hash[m][w]] = entry[Hash[m][w]]
      BY <2>3, <1>h, <1>v
    <3> QED
      BY <3>1, <1>3, <1>t DEF RemoveNetio, LocationCurrent
  <2> QED
    BY <2>4, <2>5, <2>6 DEF IndInv
<1>4. ASSUME NEW n \in Nio, FreeNio(n)
      PROVE  IndInv'
  BY <1>4, <1>t DEF FreeNio, IndInv, TypeOK, MatchHasPort, LocationCurrent,
     portVars, tableVars
<1>5. ASSUME NEW n \in Nio, NEW t \in PortType, NEW v \in Vlan, SetPort(n, t, v)
      PROVE  IndInv'
  <2>1. TypeOK'
    BY <1>5, <1>t DEF SetPort, TypeOK, tableVars
  <2>2. MatchHasPort' /\ LocationCurrent'
    BY <1>5, <1>t DEF SetPort, MatchHasPort, LocationCurrent, tableVars
  <2> QED
    BY <2>1, <2>2 DEF IndInv
<1>6. CASE ClearMacAddrTable
  <2>1. TypeOK'
    BY <1>6, <1>t, <1>e DEF ClearMacAddrTable, TypeOK, portVars
  <2>2. MatchHasPort' /\ LocationCurrent'
    BY <1>6, <1>h, <1>v, <1>e DEF ClearMacAddrTable, MatchHasPort, LocationCurrent
  <2> QED
    BY <2>1, <2>2 DEF IndInv
<1>7. CASE Delete
  <2>1. TypeOK'
    BY <1>7, <1>t, <1>e DEF Delete, TypeOK, portVars
  <2>2. MatchHasPort' /\ LocationCurrent'
    BY <1>7, <1>h, <1>v, <1>e DEF Delete, MatchHasPort, LocationCurrent
  <2> QED
    BY <2>1, <2>2 DEF IndInv
<1>8. CASE UNCHANGED vars
  BY <1>8, <1>t DEF IndInv, TypeOK, MatchHasPort, LocationCurrent, vars
<1> QED
  BY <1>1, <1>2, <1>3, <1>4, <1>5, <1>6, <1>7, <1>8 DEF Next

\* What is left of a stack of tags.
LEMMA ShortTail ==
  ASSUME NEW S, NEW t \in Seq(S), Len(t) <= 1, t # <<>>
  PROVE  Tail(t) = <<>>
<1>1. Tail(t) \in Seq(S) /\ Len(Tail(t)) = Len(t) - 1 /\ Len(t) \in Nat
  BY HeadTailProperties, LenProperties
<1>2. Len(t) # 0
  BY EmptySeq
<1>3. Len(Tail(t)) = 0
  BY <1>1, <1>2
<1> QED
  BY <1>1, <1>3, EmptySeq

\* What a frame entering one port looks like on another, by the tags it has.
LEMMA EgressVector ==
  ASSUME TypeOK, NEW p \in Nio, NEW o \in Nio, NEW tags \in Tags,
         Expected(p, tags),
         NEW out \in InputVector(p, tags, InputVlan(type[p], vlan[p], tags), o),
         InputVlan(type[p], vlan[p], tags) \in Vlan
  PROVE  /\ type[o] = "dot1q" => InputVlan("dot1q", vlan[o], out)
                                   = InputVlan(type[p], vlan[p], tags)
         /\ type[o] = "access" => out = <<>>
<1> DEFINE v == InputVlan(type[p], vlan[p], tags)
<1>1. type[p] \in PortType /\ type[o] \in PortType
  BY DEF TypeOK
<1>2. tags \in Seq(Vlan \cup {0})
  BY EthAssumption
<1>3. tags = <<>> \/ (tags # <<>> /\ Tail(tags) = <<>>)
  <2>1. Len(tags) <= 1
    BY DEF Expected
  <2> QED
    BY <1>2, <2>1, ShortTail
<1>4. (<<v>> \o tags # <<>>) /\ (<<v>> \o tags)[1] = v
  BY <1>2
<1>0. 0 \notin Vlan
  BY EthAssumption
<1>5. type[p] = "access" => tags = <<>> /\ v = vlan[p]
  <2>1. Len(tags) \in Nat /\ (Len(tags) = 0 => tags = <<>>)
    BY <1>2
  <2> QED
    BY <2>1 DEF Expected, InputVlan
<1>6. type[p] = "dot1q" => v = IF tags = <<>> THEN vlan[p] ELSE tags[1]
  BY DEF InputVlan
<1>7. type[p] = "qinq" => tags # <<>> /\ v = vlan[p]
  BY <1>0 DEF InputVlan
<1> HIDE DEF v
<1>8. out \in InputVector(p, tags, v, o)
  BY DEF v
<1>9. \A w, x : InputVlan("dot1q", w, x) = IF x = <<>> THEN w ELSE x[1]
  BY DEF InputVlan
<1>10. out \in IvAccess(tags, v, o) /\ tags = <<>> =>
         /\ type[o] = "dot1q" => InputVlan("dot1q", vlan[o], out) = v
         /\ type[o] = "access" => out = <<>>
  BY <1>1, <1>4, <1>9 DEF IvAccess, PortType
<1>11. CASE type[p] = "access"
  BY <1>5, <1>8, <1>10, <1>11 DEF InputVector, v
<1>12. CASE type[p] = "dot1q"
  <2>1. CASE tags = <<>>
    BY <1>8, <1>10, <1>12, <2>1 DEF InputVector, IvDot1q, v
  <2>2. CASE tags # <<>>
    BY <1>1, <1>3, <1>6, <1>8, <1>9, <1>12, <2>2
    DEF InputVector, IvDot1q, PortType, v
  <2> QED
    BY <2>1, <2>2
<1>13. CASE type[p] = "qinq"
  BY <1>1, <1>4, <1>8, <1>9, <1>13 DEF InputVector, IvQinq, PortType, v
<1> QED
  BY <1>1, <1>11, <1>12, <1>13 DEF PortType

\* The hash function is into the buckets.
LEMMA HashBuckets == \A m \in Mac, w \in Vlan : Hash[m][w] \in Bucket
BY EthAssumption

\* A frame leaves in the VLAN it came in.
LEMMA Egress == IndInv => EgressKeepsVlan
<1> SUFFICES ASSUME IndInv,
                    NEW p \in Listening, NEW f \in Frame, Expected(p, f.tags),
                    NEW s \in Sends(p, f)
             PROVE  /\ type[s[1]] = "dot1q" =>
                         InputVlan("dot1q", vlan[s[1]], s[2])
                           = InputVlan(type[p], vlan[p], f.tags)
                    /\ type[s[1]] = "access" => s[2] = <<>>
  BY DEF EgressKeepsVlan
<1> DEFINE v == InputVlan(type[p], vlan[p], f.tags)
<1>1. TypeOK /\ MatchHasPort
  BY DEF IndInv
<1>2. p \in Nio /\ f.tags \in Tags
  BY <1>1, ListeningNio DEF Frame
<1>3. v \in Vlan
  BY <1>1, <1>2, InputVlanType DEF Sends
<1>4. PICK o \in OutPorts(p, f, v) : s \in {o} \X InputVector(p, f.tags, v, o)
  BY <1>3, EthAssumption DEF Sends
<1>5. o \in Nio
  <2>1. CASE Known(p, f, v)
    <3>1. o = Learn(p, f, v)[Hash[f.dst][v]].nio /\ f.dst \in Mac
      BY <1>4, <2>1 DEF OutPorts, Known, Frame
    <3>m. f.src \in Mac
      BY DEF Frame
    <3>2. Hash[f.dst][v] \in Bucket /\ Hash[f.src][v] \in Bucket
      BY <3>1, <1>3, <3>m, HashBuckets
    <3> DEFINE b == Hash[f.dst][v]
    <3>3. Learn(p, f, v)[b] = [nio |-> p, vlan |-> v, mac |-> f.src]
            \/ Learn(p, f, v)[b] = entry[b]
      BY <3>2, <1>1 DEF Learn, TypeOK
    <3>4. Learn(p, f, v)[b].vlan = v
      BY <2>1 DEF Known
    <3>5. v # 0
      BY <1>3, EthAssumption
    <3>6. entry[b].vlan = v => entry[b].nio \in Nio
      BY <3>2, <3>5, <1>1 DEF MatchHasPort, TypeOK, Entry
    <3> QED
      BY <3>1, <3>3, <3>4, <3>6, <1>2
  <2>2. CASE ~Known(p, f, v)
    BY <1>1, <1>4, <2>2, ListeningNio DEF OutPorts, FloodPorts, Listening
  <2> QED
    BY <2>1, <2>2
<1>6. s[1] = o /\ s[2] \in InputVector(p, f.tags, v, o)
  BY <1>4
<1> QED
  BY <1>1, <1>2, <1>3, <1>5, <1>6, EgressVector

\* The invariant holds in every behaviour.
LEMMA Invariance == Spec => []IndInv
<1> QED
  BY Initial, Step, PTL DEF Spec

\* The fields of the switch and of its MAC address table keep their types.
THEOREM EthTypeOK == Spec => []TypeOK
BY Invariance, PTL DEF IndInv

\* ethsw_forward never finds an entry without a port, whatever the order of
\* additions, removals, clearings and frames.
THEOREM EthMatchHasPort == Spec => []MatchHasPort
BY Invariance, PTL DEF IndInv

\* A known unicast goes to the port its address was last seen on, for every
\* hash function.
THEOREM EthLocationCurrent == Spec => []LocationCurrent
BY Invariance, PTL DEF IndInv

\* Pushing and popping tags keeps a frame in its VLAN across a trunk and
\* leaves none on an access port.
THEOREM EthEgressKeepsVlan == Spec => []EgressKeepsVlan
BY Invariance, Egress, PTL

-----------------------------------------------------------------------------
(* Numbers and sequences.                                                  *)

\* A set of numbers has a least one.
LEMMA LeastNat ==
  ASSUME NEW S, S \subseteq Nat, S # {}
  PROVE  \E x \in S : \A y \in S : x <= y
<1> DEFINE R == {ss \in Nat \X Nat : ss[1] < ss[2]}
<1>1. IsWellFoundedOn(R, Nat)
  BY NatLessThanWellFounded DEF OpToRel
<1> HIDE DEF R
<1>2. \E x \in S : \A y \in S : ~ (<<y, x>> \in R)
  BY <1>1, WFMin
<1>3. PICK x \in S : \A y \in S : ~ (<<y, x>> \in R)
  BY <1>2
<1>4. ASSUME NEW y \in S PROVE x <= y
  <2>1. <<y, x>> \in Nat \X Nat /\ ~ (<<y, x>>[1] < <<y, x>>[2])
    BY <1>3 DEF R
  <2> QED
    BY <2>1
<1> QED
  BY <1>4

\* What a concatenation has at each index.
LEMMA ConcatSeq ==
  ASSUME NEW S, NEW a \in Seq(S), NEW b \in Seq(S)
  PROVE  /\ a \o b \in Seq(S)
         /\ Len(a \o b) = Len(a) + Len(b)
         /\ DOMAIN (a \o b) = 1 .. Len(a) + Len(b)
         /\ \A i \in 1 .. Len(a) : (a \o b)[i] = a[i]
         /\ \A i \in Len(a) + 1 .. Len(a) + Len(b) :
               (a \o b)[i] = b[i - Len(a)]
  OBVIOUS

\* What InsertAt leaves at each index.
LEMMA InsertSeq ==
  ASSUME NEW S, NEW s \in Seq(S), NEW e \in S, NEW i \in 1..Len(s) + 1
  PROVE  LET t == InsertAt(s, i, e) IN
         /\ t \in Seq(S)
         /\ Len(t) = Len(s) + 1
         /\ DOMAIN t = 1 .. Len(s) + 1
         /\ t[i] = e
         /\ \A j \in 1 .. i - 1 : t[j] = s[j]
         /\ \A j \in i + 1 .. Len(s) + 1 : t[j] = s[j - 1]
<1> DEFINE a == SubSeq(s, 1, i - 1)
           b == SubSeq(s, i, Len(s))
<1>1. /\ a \in Seq(S) /\ b \in Seq(S) /\ Len(s) \in Nat
      /\ Len(a) = i - 1 /\ Len(b) = Len(s) - i + 1
      /\ \A j \in 1 .. i - 1 : a[j] = s[j]
      /\ \A j \in 1 .. Len(s) - i + 1 : b[j] = s[i + j - 1]
  OBVIOUS
<1>2. InsertAt(s, i, e) = (a \o <<e>>) \o b
  BY DEF InsertAt
<1> HIDE DEF a, b
<1> DEFINE c == a \o <<e>>
<1>3. /\ c \in Seq(S) /\ Len(c) = i /\ c[i] = e
      /\ \A j \in 1 .. i - 1 : c[j] = s[j]
  BY <1>1
<1> HIDE DEF c
<1>4. /\ c \o b \in Seq(S)
      /\ Len(c \o b) = Len(s) + 1
      /\ DOMAIN (c \o b) = 1 .. Len(s) + 1
      /\ \A j \in 1 .. i : (c \o b)[j] = c[j]
      /\ \A j \in i + 1 .. Len(s) + 1 : (c \o b)[j] = b[j - i]
  BY <1>1, <1>3, ConcatSeq
<1>5. \A j \in i + 1 .. Len(s) + 1 : b[j - i] = s[j - 1]
  BY <1>1
<1>6. InsertAt(s, i, e) = c \o b
  BY <1>2 DEF c
<1> QED
  BY <1>1, <1>3, <1>4, <1>5, <1>6

\* What RemoveAt leaves at each index.
LEMMA RemoveSeq ==
  ASSUME NEW S, NEW s \in Seq(S), NEW i \in 1..Len(s)
  PROVE  LET t == RemoveAt(s, i) IN
         /\ t \in Seq(S)
         /\ Len(t) = Len(s) - 1
         /\ DOMAIN t = 1 .. Len(s) - 1
         /\ \A j \in 1 .. i - 1 : t[j] = s[j]
         /\ \A j \in i .. Len(s) - 1 : t[j] = s[j + 1]
<1> DEFINE a == SubSeq(s, 1, i - 1)
           b == SubSeq(s, i + 1, Len(s))
<1>1. /\ a \in Seq(S) /\ b \in Seq(S) /\ Len(s) \in Nat
      /\ Len(a) = i - 1 /\ Len(b) = Len(s) - i
      /\ \A j \in 1 .. i - 1 : a[j] = s[j]
      /\ \A j \in 1 .. Len(s) - i : b[j] = s[i + j]
  OBVIOUS
<1>2. RemoveAt(s, i) = a \o b
  BY DEF RemoveAt
<1> HIDE DEF a, b
<1>3. /\ a \o b \in Seq(S)
      /\ Len(a \o b) = Len(s) - 1
      /\ DOMAIN (a \o b) = 1 .. Len(s) - 1
      /\ \A j \in 1 .. i - 1 : (a \o b)[j] = a[j]
      /\ \A j \in i .. Len(s) - 1 : (a \o b)[j] = b[j - (i - 1)]
  <2>1. Len(a) + Len(b) = Len(s) - 1 /\ Len(a) + 1 = i /\ 1 .. Len(a) = 1 .. i - 1
    BY <1>1
  <2>2. /\ a \o b \in Seq(S)
        /\ Len(a \o b) = Len(a) + Len(b)
        /\ DOMAIN (a \o b) = 1 .. Len(a) + Len(b)
        /\ \A j \in 1 .. Len(a) : (a \o b)[j] = a[j]
        /\ \A j \in Len(a) + 1 .. Len(a) + Len(b) : (a \o b)[j] = b[j - Len(a)]
    BY <1>1, ConcatSeq
  <2> QED
    BY <1>1, <2>1, <2>2
<1>4. \A j \in i .. Len(s) - 1 : b[j - (i - 1)] = s[j + 1]
  BY <1>1
<1> QED
  BY <1>1, <1>2, <1>3, <1>4

\* A sequence with one more element in front.
LEMMA PushSeq ==
  ASSUME NEW S, NEW s \in Seq(S), NEW e \in S
  PROVE  LET t == <<e>> \o s IN
         /\ t \in Seq(S)
         /\ Len(t) = Len(s) + 1
         /\ DOMAIN t = 1 .. Len(s) + 1
         /\ t[1] = e
         /\ \A j \in 2 .. Len(s) + 1 : t[j] = s[j - 1]
         /\ ToSet(t) = ToSet(s) \cup {e}
<1> DEFINE t == <<e>> \o s
<1>1. /\ t \in Seq(S) /\ Len(s) \in Nat /\ DOMAIN s = 1 .. Len(s)
      /\ Len(t) = Len(s) + 1 /\ DOMAIN t = 1 .. Len(s) + 1
      /\ t[1] = e /\ \A j \in 2 .. Len(s) + 1 : t[j] = s[j - 1]
      /\ \A j \in 1 .. Len(s) : t[j + 1] = s[j]
  OBVIOUS
<1> HIDE DEF t
<1>2. ToSet(t) \subseteq ToSet(s) \cup {e}
  <2> SUFFICES ASSUME NEW j \in 1 .. Len(s) + 1 PROVE t[j] \in ToSet(s) \cup {e}
    BY <1>1 DEF ToSet
  <2>1. CASE j = 1
    BY <2>1, <1>1
  <2>2. CASE j # 1
    <3>1. j \in 2 .. Len(s) + 1 /\ j - 1 \in DOMAIN s
      BY <2>2, <1>1
    <3> QED
      BY <3>1, <1>1 DEF ToSet
  <2> QED
    BY <2>1, <2>2
<1>3. ToSet(s) \cup {e} \subseteq ToSet(t)
  <2>1. e \in ToSet(t)
    BY <1>1 DEF ToSet
  <2>2. ASSUME NEW j \in DOMAIN s PROVE s[j] \in ToSet(t)
    <3>1. t[j + 1] = s[j] /\ j + 1 \in DOMAIN t
      BY <1>1
    <3> QED
      BY <3>1 DEF ToSet
  <2> QED
    BY <2>1, <2>2 DEF ToSet
<1> QED
  BY <1>1, <1>2, <1>3 DEF t

\* The elements of a sequence after InsertAt.
LEMMA InsertElems ==
  ASSUME NEW S, NEW s \in Seq(S), NEW e \in S, NEW i \in 1..Len(s) + 1
  PROVE  ToSet(InsertAt(s, i, e)) = ToSet(s) \cup {e}
<1> DEFINE t == InsertAt(s, i, e)
<1>1. /\ Len(s) \in Nat /\ DOMAIN s = 1 .. Len(s)
      /\ DOMAIN t = 1 .. Len(s) + 1
      /\ t[i] = e
      /\ \A j \in 1 .. i - 1 : t[j] = s[j]
      /\ \A j \in i + 1 .. Len(s) + 1 : t[j] = s[j - 1]
  BY InsertSeq
<1> HIDE DEF t
<1>2. ASSUME NEW j \in DOMAIN t PROVE t[j] \in ToSet(s) \cup {e}
  <2>1. CASE j < i
    <3>1. j \in 1 .. i - 1 /\ j \in DOMAIN s
      BY <2>1, <1>1
    <3> QED
      BY <3>1, <1>1 DEF ToSet
  <2>2. CASE j > i
    <3>1. j \in i + 1 .. Len(s) + 1 /\ j - 1 \in DOMAIN s
      BY <2>2, <1>1
    <3> QED
      BY <3>1, <1>1 DEF ToSet
  <2>3. CASE j = i
    BY <2>3, <1>1
  <2> QED
    BY <2>1, <2>2, <2>3, <1>1
<1>3. e \in ToSet(t)
  BY <1>1 DEF ToSet
<1>4. ASSUME NEW j \in DOMAIN s PROVE s[j] \in ToSet(t)
  <2>1. CASE j < i
    <3>1. t[j] = s[j] /\ j \in DOMAIN t
      BY <2>1, <1>1
    <3> QED
      BY <3>1 DEF ToSet
  <2>2. CASE j >= i
    <3>1. t[j + 1] = s[j] /\ j + 1 \in DOMAIN t
      BY <2>2, <1>1
    <3> QED
      BY <3>1 DEF ToSet
  <2> QED
    BY <2>1, <2>2, <1>1
<1>5. ToSet(t) \subseteq ToSet(s) \cup {e}
  BY <1>2 DEF ToSet
<1>6. ToSet(s) \subseteq ToSet(t)
  BY <1>4 DEF ToSet
<1> QED
  BY <1>3, <1>5, <1>6 DEF t

\* The elements of a sequence after RemoveAt of one that occurs once.
LEMMA RemoveElems ==
  ASSUME NEW S, NEW s \in Seq(S), NEW i \in 1..Len(s),
         \A j \in DOMAIN s : s[j] = s[i] => j = i
  PROVE  ToSet(RemoveAt(s, i)) = ToSet(s) \ {s[i]}
<1> DEFINE t == RemoveAt(s, i)
<1>1. /\ Len(s) \in Nat /\ DOMAIN s = 1 .. Len(s)
      /\ DOMAIN t = 1 .. Len(s) - 1
      /\ \A j \in 1 .. i - 1 : t[j] = s[j]
      /\ \A j \in i .. Len(s) - 1 : t[j] = s[j + 1]
  BY RemoveSeq
<1> HIDE DEF t
<1>2. ASSUME NEW j \in DOMAIN t PROVE t[j] \in ToSet(s) \ {s[i]}
  <2>1. CASE j < i
    <3>1. t[j] = s[j] /\ j \in DOMAIN s /\ j # i
      BY <2>1, <1>1
    <3> QED
      BY <3>1 DEF ToSet
  <2>2. CASE j >= i
    <3>1. t[j] = s[j + 1] /\ j + 1 \in DOMAIN s /\ j + 1 # i
      BY <2>2, <1>1
    <3> QED
      BY <3>1 DEF ToSet
  <2> QED
    BY <2>1, <2>2, <1>1
<1>3. ASSUME NEW j \in DOMAIN s, j # i PROVE s[j] \in ToSet(t)
  <2>1. CASE j < i
    <3>1. t[j] = s[j] /\ j \in DOMAIN t
      BY <2>1, <1>1
    <3> QED
      BY <3>1 DEF ToSet
  <2>2. CASE j > i
    <3>1. t[j - 1] = s[j] /\ j - 1 \in DOMAIN t
      BY <2>2, <1>1
    <3> QED
      BY <3>1 DEF ToSet
  <2> QED
    BY <2>1, <2>2, <1>1, <1>3
<1>4. ToSet(t) \subseteq ToSet(s) \ {s[i]}
  BY <1>2 DEF ToSet
<1>5. ToSet(s) \ {s[i]} \subseteq ToSet(t)
  BY <1>3 DEF ToSet
<1> QED
  BY <1>4, <1>5 DEF t

-----------------------------------------------------------------------------
(* What connections hold.  A connection being released, or one that is     *)
(* linked, is a pair with its reason.                                       *)
EndsOf(Q, n) == {x \in Q \X {"input", "output"} : x[1][1][x[2]] = n}
UsersOf(Q, n) == {x \in Q : x[1].input = n /\ x[2] # "failed"}

\* How many ends of a connection are at a NIO.
LEMMA EndsAtValue ==
  ASSUME NEW c, NEW n
  PROVE  EndsAt(c, n) = (IF c.input = n THEN 1 ELSE 0) + (IF c.output = n THEN 1 ELSE 0)
<1> DEFINE K == {k \in {"input", "output"} : c[k] = n}
<1>0. EndsAt(c, n) = Cardinality(K)
  BY DEF EndsAt
<1>1. CASE c.input = n /\ c.output = n
  <2>1. K = {"input", "output"}
    BY <1>1
  <2>2. Cardinality({"input", "output"}) = 2
    <3>1. Cardinality({"input"}) = 1 /\ IsFiniteSet({"input"})
      BY FS_Singleton
    <3>2. {"input", "output"} = {"input"} \cup {"output"} /\ "output" \notin {"input"}
      OBVIOUS
    <3> QED
      BY <3>1, <3>2, FS_AddElement
  <2> QED
    BY <1>0, <1>1, <2>1, <2>2
<1>2. CASE c.input = n /\ c.output # n
  <2>1. K = {"input"}
    BY <1>2
  <2> QED
    BY <1>0, <1>2, <2>1, FS_Singleton
<1>3. CASE c.input # n /\ c.output = n
  <2>1. K = {"output"}
    BY <1>3
  <2> QED
    BY <1>0, <1>3, <2>1, FS_Singleton
<1>4. CASE c.input # n /\ c.output # n
  <2>1. K = {}
    BY <1>4
  <2> QED
    BY <1>0, <1>4, <2>1, FS_EmptySet
<1> QED
  BY <1>1, <1>2, <1>3, <1>4

\* The ends and the users of finitely many connections can be counted.
LEMMA EndsFinite ==
  ASSUME NEW Q, IsFiniteSet(Q), NEW n
  PROVE  /\ IsFiniteSet(EndsOf(Q, n)) /\ Cardinality(EndsOf(Q, n)) \in Nat
         /\ IsFiniteSet(UsersOf(Q, n)) /\ Cardinality(UsersOf(Q, n)) \in Nat
<1>1. IsFiniteSet({"input"}) 
  BY FS_Singleton
<1>2. {"input", "output"} = {"input"} \cup {"output"}
  OBVIOUS
<1>3. IsFiniteSet({"input", "output"})
  BY <1>1, <1>2, FS_AddElement
<1>4. IsFiniteSet(Q \X {"input", "output"})
  BY <1>3, FS_Product
<1>5. EndsOf(Q, n) \subseteq Q \X {"input", "output"} /\ UsersOf(Q, n) \subseteq Q
  BY DEF EndsOf, UsersOf
<1> QED
  BY <1>4, <1>5, FS_Subset, FS_CardinalityType

\* One more connection has its ends and, unless its creation failed, its user.
LEMMA EndsAdd ==
  ASSUME NEW Q, IsFiniteSet(Q), NEW c, NEW w, <<c, w>> \notin Q, NEW n
  PROVE  Cardinality(EndsOf(Q \cup {<<c, w>>}, n)) = Cardinality(EndsOf(Q, n)) + EndsAt(c, n)
<1> DEFINE x == <<c, w>>
           E == EndsOf(Q, n)
           A == IF c.input = n THEN E \cup {<<x, "input">>} ELSE E
           B == IF c.output = n THEN A \cup {<<x, "output">>} ELSE A
<1>1. EndsOf(Q \cup {x}, n) = B
  BY DEF EndsOf
<1>2. <<x, "input">> \notin E /\ <<x, "output">> \notin A
  BY DEF EndsOf
<1>3. IsFiniteSet(E) /\ Cardinality(E) \in Nat
  BY EndsFinite
<1> HIDE DEF E
<1>4. IsFiniteSet(A) /\ Cardinality(A) = Cardinality(E) + (IF c.input = n THEN 1 ELSE 0)
  BY <1>2, <1>3, FS_AddElement
<1> HIDE DEF A
<1>5. Cardinality(B) = Cardinality(A) + (IF c.output = n THEN 1 ELSE 0)
  <2>1. Cardinality(A) \in Nat
    BY <1>4, FS_CardinalityType
  <2>2. CASE c.output = n
    <3>1. B = A \cup {<<x, "output">>}
      BY <2>2
    <3>2. Cardinality(A \cup {<<x, "output">>}) = Cardinality(A) + 1
      BY <1>2, <1>4, FS_AddElement
    <3> QED
      BY <2>2, <3>1, <3>2
  <2>3. CASE c.output # n
    BY <2>1, <2>3
  <2> QED
    BY <2>2, <2>3
<1> QED
  BY <1>1, <1>3, <1>4, <1>5, EndsAtValue DEF E

\* One more connection is one more user, unless its creation failed.
LEMMA UsersAdd ==
  ASSUME NEW Q, IsFiniteSet(Q), NEW c, NEW w, <<c, w>> \notin Q, NEW n
  PROVE  Cardinality(UsersOf(Q \cup {<<c, w>>}, n)) =
           Cardinality(UsersOf(Q, n)) + (IF c.input = n /\ w # "failed" THEN 1 ELSE 0)
<1> DEFINE x == <<c, w>>
           U == UsersOf(Q, n)
<1>1. UsersOf(Q \cup {x}, n) = IF c.input = n /\ w # "failed" THEN U \cup {x} ELSE U
  BY DEF UsersOf
<1>2. x \notin U
  BY DEF UsersOf
<1>3. IsFiniteSet(U) /\ Cardinality(U) \in Nat
  BY EndsFinite
<1> QED
  <2>1. IsFiniteSet(U) => Cardinality(U \cup {x}) = Cardinality(U) + 1
    BY <1>2, FS_AddElement
  <2>2. CASE c.input = n /\ w # "failed"
    BY <1>1, <1>3, <2>1, <2>2
  <2>3. CASE ~(c.input = n /\ w # "failed")
    BY <1>1, <1>3, <2>3
  <2> QED
    BY <2>2, <2>3

-----------------------------------------------------------------------------
\* What the registry and the listeners (X) count for the connections Q.
HeldOK(Q, N, R, X, F) ==
  /\ IsFiniteSet(Q) /\ N \subseteq Netio /\ F \subseteq Netio
  /\ R \in [Netio -> Nat] /\ X \in [Netio -> Nat]
  /\ \A x \in Q : /\ x[1].input \in N /\ x[1].output \in N \cup {NoNetio}
                  /\ x[2] = "failed" => x[1].input \in F
  /\ \A n \in Netio :
       /\ R[n] = Cardinality(EndsOf(Q, n))
       /\ X[n] <= Cardinality(UsersOf(Q, n))
       /\ n \notin F => X[n] = Cardinality(UsersOf(Q, n))

\* The counts stay right as a connection is set up.
LEMMA HoldOK ==
  ASSUME NEW Q, NEW N, NEW R, NEW X, NEW F, HeldOK(Q, N, R, X, F),
         NEW c, <<c, "linked">> \notin Q, {c.input, c.output} \subseteq N,
         NEW R2, R2 = [n \in Netio |-> R[n] + EndsAt(c, n)],
         NEW X2, X2 = [X EXCEPT ![c.input] = @ + 1]
  PROVE  HeldOK(Q \cup {<<c, "linked">>}, N, R2, X2, F)
<1> DEFINE q == Q \cup {<<c, "linked">>}
<1>1. IsFiniteSet(Q) /\ R \in [Netio -> Nat] /\ X \in [Netio -> Nat]
      /\ N \subseteq Netio /\ F \subseteq Netio
  BY DEF HeldOK
<1>2. IsFiniteSet(q)
  BY <1>1, FS_AddElement
<1>3. \A n \in Netio :
        /\ Cardinality(EndsOf(q, n)) = Cardinality(EndsOf(Q, n)) + EndsAt(c, n)
        /\ Cardinality(UsersOf(q, n)) = Cardinality(UsersOf(Q, n)) + (IF c.input = n THEN 1 ELSE 0)
  BY <1>1, EndsAdd, UsersAdd
<1>4. \A n \in Netio : EndsAt(c, n) \in Nat
  BY EndsAtValue
<1>5. \A n \in Netio : Cardinality(EndsOf(Q, n)) \in Nat /\ Cardinality(UsersOf(Q, n)) \in Nat
  BY <1>1, EndsFinite
<1>6. \A x \in q : /\ x[1].input \in N /\ x[1].output \in N \cup {NoNetio}
                   /\ x[2] = "failed" => x[1].input \in F
  BY DEF HeldOK
<1> HIDE DEF q
<1>7. \A n \in Netio :
        /\ R[n] = Cardinality(EndsOf(Q, n))
        /\ X[n] <= Cardinality(UsersOf(Q, n))
        /\ n \notin F => X[n] = Cardinality(UsersOf(Q, n))
  BY DEF HeldOK
<1>8. HeldOK(q, N, [n \in Netio |-> R[n] + EndsAt(c, n)], [X EXCEPT ![c.input] = @ + 1], F)
  BY <1>1, <1>2, <1>3, <1>4, <1>5, <1>6, <1>7 DEF HeldOK
<1> QED
  BY <1>8 DEF q

\* A creation that fails keeps the counts right.
LEMMA HoldFailsOK ==
  ASSUME NEW Q, NEW N, NEW R, NEW X, NEW F, HeldOK(Q, N, R, X, F),
         NEW c, <<c, "failed">> \notin Q,
         c.input \in N, c.output \in N \cup {NoNetio},
         NEW R2, R2 = [n \in Netio |-> R[n] + EndsAt(c, n)]
  PROVE  HeldOK(Q \cup {<<c, "failed">>}, N, R2, X, F \cup {c.input})
<1> DEFINE q == Q \cup {<<c, "failed">>}
<1>1. IsFiniteSet(Q) /\ R \in [Netio -> Nat] /\ X \in [Netio -> Nat]
      /\ N \subseteq Netio /\ F \subseteq Netio
  BY DEF HeldOK
<1>2. IsFiniteSet(q)
  BY <1>1, FS_AddElement
<1>3. \A n \in Netio :
        /\ Cardinality(EndsOf(q, n)) = Cardinality(EndsOf(Q, n)) + EndsAt(c, n)
        /\ Cardinality(UsersOf(q, n)) = Cardinality(UsersOf(Q, n)) + 0
  BY <1>1, EndsAdd, UsersAdd
<1>4. \A n \in Netio : EndsAt(c, n) \in Nat
  BY EndsAtValue
<1>5. \A n \in Netio : Cardinality(EndsOf(Q, n)) \in Nat /\ Cardinality(UsersOf(Q, n)) \in Nat
  BY <1>1, EndsFinite
<1>6. \A x \in q : /\ x[1].input \in N /\ x[1].output \in N \cup {NoNetio}
                   /\ x[2] = "failed" => x[1].input \in F \cup {c.input}
  BY DEF HeldOK
<1> HIDE DEF q
<1>7. \A n \in Netio :
        /\ R[n] = Cardinality(EndsOf(Q, n))
        /\ X[n] <= Cardinality(UsersOf(Q, n))
        /\ n \notin F => X[n] = Cardinality(UsersOf(Q, n))
  BY DEF HeldOK
<1>8. HeldOK(q, N, [n \in Netio |-> R[n] + EndsAt(c, n)], X, F \cup {c.input})
  BY <1>1, <1>2, <1>3, <1>4, <1>5, <1>6, <1>7 DEF HeldOK
<1> QED
  BY <1>8 DEF q

\* So does unlinking a connection.
LEMMA UnholdOK ==
  ASSUME NEW Q, NEW N, NEW R, NEW X, NEW F, HeldOK(Q, N, R, X, F),
         NEW c, <<c, "linked">> \in Q, <<c, "deleted">> \notin Q
  PROVE  HeldOK((Q \ {<<c, "linked">>}) \cup {<<c, "deleted">>}, N, R, X, F)
<1> DEFINE p == Q \ {<<c, "linked">>}
           q == p \cup {<<c, "deleted">>}
<1>1. IsFiniteSet(Q) /\ R \in [Netio -> Nat] /\ X \in [Netio -> Nat]
      /\ N \subseteq Netio /\ F \subseteq Netio
  BY DEF HeldOK
<1>2. IsFiniteSet(p) /\ IsFiniteSet(q) /\ p \cup {<<c, "linked">>} = Q
  BY <1>1, FS_AddElement, FS_RemoveElement
<1>3. <<c, "linked">> \notin p /\ <<c, "deleted">> \notin p
  OBVIOUS
<1>6. \A x \in q : /\ x[1].input \in N /\ x[1].output \in N \cup {NoNetio}
                   /\ x[2] = "failed" => x[1].input \in F
  BY DEF HeldOK
<1> HIDE DEF p
<1>4. \A n \in Netio :
        /\ Cardinality(EndsOf(q, n)) = Cardinality(EndsOf(p, n)) + EndsAt(c, n)
        /\ Cardinality(UsersOf(q, n)) = Cardinality(UsersOf(p, n)) + (IF c.input = n THEN 1 ELSE 0)
  BY <1>2, <1>3, EndsAdd, UsersAdd
<1>5. \A n \in Netio :
        /\ Cardinality(EndsOf(p \cup {<<c, "linked">>}, n)) = Cardinality(EndsOf(p, n)) + EndsAt(c, n)
        /\ Cardinality(UsersOf(p \cup {<<c, "linked">>}, n)) = Cardinality(UsersOf(p, n)) + (IF c.input = n THEN 1 ELSE 0)
  BY <1>2, <1>3, EndsAdd, UsersAdd
<1> HIDE DEF q
<1>7. \A n \in Netio :
        /\ R[n] = Cardinality(EndsOf(Q, n))
        /\ X[n] <= Cardinality(UsersOf(Q, n))
        /\ n \notin F => X[n] = Cardinality(UsersOf(Q, n))
  BY DEF HeldOK
<1>9. \A n \in Netio :
        /\ Cardinality(EndsOf(Q, n)) = Cardinality(EndsOf(q, n))
        /\ Cardinality(UsersOf(Q, n)) = Cardinality(UsersOf(q, n))
  BY <1>2, <1>4, <1>5
<1>8. HeldOK(q, N, R, X, F)
  BY <1>1, <1>2, <1>6, <1>7, <1>9 DEF HeldOK
<1> QED
  BY <1>8 DEF p, q

\* So does releasing one that was unlinked, or whose creation failed.
LEMMA ReleaseOK ==
  ASSUME NEW Q, NEW N, NEW R, NEW X, NEW F, HeldOK(Q, N, R, X, F),
         NEW c, NEW why, <<c, why>> \in Q,
         NEW R2, R2 = [n \in Netio |-> R[n] - EndsAt(c, n)],
         NEW X2, X2 = [X EXCEPT ![c.input] = IF X[c.input] <= 1 THEN 0 ELSE X[c.input] - 1]
  PROVE  HeldOK(Q \ {<<c, why>>}, N, R2, X2, F)
<1> DEFINE p == Q \ {<<c, why>>}
<1>1. IsFiniteSet(Q) /\ R \in [Netio -> Nat] /\ X \in [Netio -> Nat]
      /\ N \subseteq Netio /\ F \subseteq Netio
  BY DEF HeldOK
<1>2. IsFiniteSet(p) /\ p \cup {<<c, why>>} = Q /\ <<c, why>> \notin p
  BY <1>1, FS_RemoveElement
<1>3. c.input \in Netio /\ (why = "failed" => c.input \in F)
  <2>1. /\ <<c, why>>[1].input \in N
        /\ <<c, why>>[2] = "failed" => <<c, why>>[1].input \in F
    BY DEF HeldOK
  <2> QED
    BY <1>1, <2>1
<1>0. \A x \in Q : /\ x[1].input \in N /\ x[1].output \in N \cup {NoNetio}
                   /\ x[2] = "failed" => x[1].input \in F
  BY DEF HeldOK
<1>6. \A x \in p : /\ x[1].input \in N /\ x[1].output \in N \cup {NoNetio}
                   /\ x[2] = "failed" => x[1].input \in F
  BY <1>0
<1> HIDE DEF p
<1>4. \A n \in Netio :
        /\ Cardinality(EndsOf(Q, n)) = Cardinality(EndsOf(p, n)) + EndsAt(c, n)
        /\ Cardinality(UsersOf(Q, n)) = Cardinality(UsersOf(p, n)) + (IF c.input = n /\ why # "failed" THEN 1 ELSE 0)
  BY <1>2, EndsAdd, UsersAdd
<1>5. \A n \in Netio : /\ Cardinality(EndsOf(p, n)) \in Nat /\ Cardinality(UsersOf(p, n)) \in Nat
                       /\ EndsAt(c, n) \in Nat
  BY <1>2, EndsFinite, EndsAtValue
<1>7. \A n \in Netio :
        /\ R[n] = Cardinality(EndsOf(Q, n))
        /\ X[n] <= Cardinality(UsersOf(Q, n))
        /\ n \notin F => X[n] = Cardinality(UsersOf(Q, n))
  BY DEF HeldOK
<1> DEFINE r == [n \in Netio |-> R[n] - EndsAt(c, n)]
           x == [X EXCEPT ![c.input] = IF X[c.input] <= 1 THEN 0 ELSE X[c.input] - 1]
<1>9. \A n \in Netio : r[n] = Cardinality(EndsOf(p, n))
  BY <1>4, <1>5, <1>7
<1>10. x \in [Netio -> Nat] /\ r \in [Netio -> Nat]
  BY <1>1, <1>3, <1>5, <1>9
<1>11. ASSUME NEW n \in Netio
       PROVE  x[n] <= Cardinality(UsersOf(p, n)) /\ (n \notin F => x[n] = Cardinality(UsersOf(p, n)))
  <2>1. CASE n = c.input
    BY <1>1, <1>3, <1>4, <1>5, <1>7, <2>1
  <2>2. CASE n # c.input
    <3>1. x[n] = X[n] /\ X[n] \in Nat
      BY <1>1, <2>2
    <3>2. Cardinality(UsersOf(Q, n)) = Cardinality(UsersOf(p, n))
      BY <1>4, <1>5, <2>2
    <3> QED
      BY <3>1, <3>2, <1>7
  <2> QED
    BY <2>1, <2>2
<1>8. HeldOK(p, N, r, x, F)
  BY <1>1, <1>2, <1>6, <1>9, <1>10, <1>11 DEF HeldOK
<1> QED
  BY <1>8 DEF p, r, x

InputsAt(L, n) == {c \in L : c.input = n}

AllReleased(L, R, X, R2, X2) ==
    /\ \E S : R2 \in [Netio -> S]
    /\ \E T : X2 \in [Netio -> T]
    /\ \A n \in Netio : R2[n] = R[n] - Cardinality(EndsOf(L \X {"linked"}, n))
    /\ \A n \in Netio : X2[n] = IF X[n] <= Cardinality(InputsAt(L, n)) THEN 0
                                 ELSE X[n] - Cardinality(InputsAt(L, n))

\* They are right after the release of every connection at once (frsw_free, atmsw_free).
LEMMA ReleaseAllOK ==
  ASSUME NEW L, NEW N, NEW R, NEW X, NEW F, HeldOK(L \X {"linked"}, N, R, X, F),
         NEW R2, NEW X2, AllReleased(L, R, X, R2, X2)
  PROVE  HeldOK({}, N, R2, X2, F)
<1> DEFINE Q == L \X {"linked"}
<1>0. PICK S, T : R2 \in [Netio -> S] /\ X2 \in [Netio -> T]
  BY DEF AllReleased
<1>a. /\ \A n \in Netio : R2[n] = R[n] - Cardinality(EndsOf(Q, n))
      /\ \A n \in Netio : X2[n] = IF X[n] <= Cardinality(InputsAt(L, n)) THEN 0
                                   ELSE X[n] - Cardinality(InputsAt(L, n))
  BY DEF AllReleased
<1>b. HeldOK(Q, N, R, X, F) /\ Q = L \X {"linked"}
  OBVIOUS
<1> HIDE DEF Q
<1>1. IsFiniteSet(Q) /\ R \in [Netio -> Nat] /\ X \in [Netio -> Nat]
      /\ N \subseteq Netio /\ F \subseteq Netio
  BY <1>b DEF HeldOK
<1>2. \A n : EndsOf({}, n) = {} /\ UsersOf({}, n) = {}
  BY DEF EndsOf, UsersOf
<1>3. Cardinality({}) = 0 /\ IsFiniteSet({})
  BY FS_EmptySet
<1>4. ASSUME NEW n \in Netio
      PROVE  Cardinality(UsersOf(Q, n)) = Cardinality(InputsAt(L, n))
  <2> DEFINE U == UsersOf(Q, n)
             V == {c \in L : c.input = n}
             f == [u \in U |-> u[1]]
  <2>1. IsFiniteSet(U)
    BY <1>1, EndsFinite
  <2>2. \A u \in U : u[1] \in V /\ u = <<u[1], "linked">>
    BY <1>b DEF UsersOf
  <2>4. \A v \in V : <<v, "linked">> \in U
    BY <1>b DEF UsersOf
  <2> HIDE DEF U, V
  <2>3. f \in Bijection(U, V)
    <3>1. f \in [U -> V]
      BY <2>2
    <3>2. \A u, w \in U : f[u] = f[w] => u = w
      BY <2>2
    <3>3. \A v \in V : \E u \in U : f[u] = v
      <4> SUFFICES ASSUME NEW v \in V PROVE <<v, "linked">> \in U /\ f[<<v, "linked">>] = v
        OBVIOUS
      <4> QED
        BY <2>4
    <3> HIDE DEF f
    <3> QED
      BY <3>1, <3>2, <3>3, Fun_IsBij
  <2>5. ExistsBijection(U, V)
    BY <2>3, Fun_ExistsBij
  <2>6. Cardinality(U) = Cardinality(V)
    BY <2>1, <2>5, FS_Bijection
  <2> USE DEF U, V
  <2> QED
    BY <2>6 DEF InputsAt
<1>5. \A n \in Netio : Cardinality(UsersOf(Q, n)) \in Nat
  BY <1>1, EndsFinite
<1>6. \A n \in Netio : R[n] = Cardinality(EndsOf(Q, n)) /\ X[n] <= Cardinality(UsersOf(Q, n))
  BY <1>b DEF HeldOK
<1>7. \A n \in Netio : R2[n] = 0 /\ X2[n] = 0
  <2> SUFFICES ASSUME NEW n \in Netio PROVE R2[n] = 0 /\ X2[n] = 0
    OBVIOUS
  <2>1. R[n] = Cardinality(EndsOf(Q, n)) /\ R[n] \in Nat /\ X[n] <= Cardinality(InputsAt(L, n))
    BY <1>1, <1>4, <1>6
  <2> QED
    BY <1>a, <2>1
<1>8. R2 \in [Netio -> Nat] /\ X2 \in [Netio -> Nat]
  BY <1>0, <1>7
<1>9. \A n \in Netio : Cardinality(EndsOf({}, n)) = 0 /\ Cardinality(UsersOf({}, n)) = 0
  BY <1>2, <1>3
<1> QED
  BY <1>1, <1>3, <1>7, <1>8, <1>9 DEF HeldOK

\* They stay right when a NIO is created.
LEMMA CreateOK ==
  ASSUME NEW Q, NEW N, NEW R, NEW X, NEW F, HeldOK(Q, N, R, X, F),
         NEW n \in Netio, n \notin N, NoNetio # n
  PROVE  HeldOK(Q, N \cup {n}, R, X, F \ {n})
<1>0. IsFiniteSet(Q) /\ N \subseteq Netio /\ F \subseteq Netio
      /\ R \in [Netio -> Nat] /\ X \in [Netio -> Nat]
  BY DEF HeldOK
<1>q. \A x \in Q : /\ x[1].input \in N /\ x[1].output \in N \cup {NoNetio}
                   /\ x[2] = "failed" => x[1].input \in F
  BY DEF HeldOK
<1>1. UsersOf(Q, n) = {}
  BY <1>q DEF UsersOf
<1>2. Cardinality(UsersOf(Q, n)) = 0
  BY <1>1, FS_EmptySet
<1>3. \A m \in Netio : /\ R[m] = Cardinality(EndsOf(Q, m))
                       /\ X[m] <= Cardinality(UsersOf(Q, m))
                       /\ m \notin F => X[m] = Cardinality(UsersOf(Q, m))
  BY DEF HeldOK
<1>4. X[n] = 0
  BY <1>0, <1>2, <1>3
<1>5. \A x \in Q : /\ x[1].input \in N \cup {n} /\ x[1].output \in N \cup {n} \cup {NoNetio}
                   /\ x[2] = "failed" => x[1].input \in F \ {n}
  BY <1>q
<1>6. \A m \in Netio : m \notin F \ {n} => X[m] = Cardinality(UsersOf(Q, m))
  BY <1>2, <1>3, <1>4
<1>7. N \cup {n} \subseteq Netio /\ F \ {n} \subseteq Netio
  BY <1>0
<1> QED
  BY <1>0, <1>3, <1>5, <1>6, <1>7 DEF HeldOK

\* A NIO without reference is at no end of a connection.
LEMMA DeleteOK ==
  ASSUME NEW Q, NEW N, NEW R, NEW X, NEW F, HeldOK(Q, N, R, X, F),
         NEW n \in Netio, R[n] = 0
  PROVE  /\ HeldOK(Q, N \ {n}, R, X, F)
         /\ \A x \in Q : x[1].input # n /\ x[1].output # n
<1>1. EndsOf(Q, n) = {}
  <2>1. IsFiniteSet(EndsOf(Q, n)) /\ Cardinality(EndsOf(Q, n)) = 0
    BY EndsFinite DEF HeldOK
  <2> QED
    BY <2>1, FS_EmptySet
<1>2. \A x \in Q : x[1].input # n /\ x[1].output # n
  <2> SUFFICES ASSUME NEW x \in Q PROVE x[1]["input"] # n /\ x[1]["output"] # n
    OBVIOUS
  <2>1. <<x, "input">> \in Q \X {"input", "output"} /\ <<x, "output">> \in Q \X {"input", "output"}
    OBVIOUS
  <2> QED
    BY <1>1, <2>1 DEF EndsOf
<1> QED
  BY <1>2 DEF HeldOK

\* What the invariants count is what the property counts.
LEMMA HeldExactOK ==
  ASSUME NEW L, HeldOK(Conns(L), nios, refs, rxl, failed)
  PROVE  HeldExact(L)
<1>1. \A n \in Netio : Ends(L, n) = EndsOf(Conns(L), n)
  BY DEF Ends, EndsOf
<1>2. \A n \in Netio : UsersOf(Conns(L), n) = {x \in Conns(L) : x[1].input = n /\ x[2] # "failed"}
  BY DEF UsersOf
<1> QED
  BY <1>1, <1>2 DEF HeldExact, HeldOK

\* What is held after a step is right for connections M.
Kept(M) == HeldOK((M \X {"linked"}) \cup releasing', nios', refs', rxl', failed')

\* Hold adds a connection to those of the switch.
LEMMA HoldKept ==
  ASSUME NEW L, HeldOK(Conns(L), nios, refs, rxl, failed), NEW c, c \notin L, Hold(c),
         \A x \in releasing : x[2] # "linked"
  PROVE  Kept(L \cup {c})
<1>1. <<c, "linked">> \notin Conns(L)
  BY DEF Conns
<1>2. /\ nios' = nios /\ failed' = failed /\ releasing' = releasing
      /\ {c.input, c.output} \subseteq nios
      /\ refs' = [n \in Netio |-> refs[n] + EndsAt(c, n)]
      /\ rxl' = [rxl EXCEPT ![c.input] = @ + 1]
  BY DEF Hold, Acquire
<1>3. HeldOK(Conns(L) \cup {<<c, "linked">>}, nios, refs', rxl', failed)
  BY <1>1, <1>2, HoldOK
<1>4. ((L \cup {c}) \X {"linked"}) \cup releasing' = Conns(L) \cup {<<c, "linked">>}
  BY <1>2 DEF Conns
<1> QED
  BY <1>2, <1>3, <1>4 DEF Kept

\* HoldFails leaves the connections as they are.
LEMMA HoldFailsKept ==
  ASSUME NEW L, HeldOK(Conns(L), nios, refs, rxl, failed), NEW c, HoldFails(c)
  PROVE  Kept(L)
<1>1. /\ c.input \in nios /\ c.output \in nios \cup {NoNetio}
      /\ <<c, "failed">> \notin releasing
      /\ refs' = [n \in Netio |-> refs[n] + EndsAt(c, n)]
      /\ releasing' = releasing \cup {<<c, "failed">>}
      /\ failed' = failed \cup {c.input}
      /\ UNCHANGED <<nios, rxl>>
  BY DEF HoldFails, Acquire
<1>2. <<c, "failed">> \notin Conns(L)
  BY <1>1 DEF Conns
<1>3. HeldOK(Conns(L) \cup {<<c, "failed">>}, nios, refs', rxl, failed \cup {c.input})
  BY <1>1, <1>2, HoldFailsOK
<1>4. (L \X {"linked"}) \cup releasing' = Conns(L) \cup {<<c, "failed">>}
  BY <1>1 DEF Conns
<1> QED
  BY <1>1, <1>3, <1>4 DEF Kept

\* Unhold takes one from them.
LEMMA UnholdKept ==
  ASSUME NEW L, HeldOK(Conns(L), nios, refs, rxl, failed), NEW c, c \in L, Unhold(c),
         \A x \in releasing : x[2] # "linked"
  PROVE  Kept(L \ {c})
<1>1. /\ <<c, "deleted">> \notin releasing /\ releasing' = releasing \cup {<<c, "deleted">>}
      /\ UNCHANGED <<nios, refs, rxl, failed>>
  BY DEF Unhold
<1>2. <<c, "linked">> \in Conns(L) /\ <<c, "deleted">> \notin Conns(L)
  BY <1>1 DEF Conns
<1>3. HeldOK((Conns(L) \ {<<c, "linked">>}) \cup {<<c, "deleted">>}, nios, refs, rxl, failed)
  BY <1>2, UnholdOK
<1>4. ((L \ {c}) \X {"linked"}) \cup releasing' =
        (Conns(L) \ {<<c, "linked">>}) \cup {<<c, "deleted">>}
  <2>1. (L \ {c}) \X {"linked"} = (L \X {"linked"}) \ {<<c, "linked">>}
    OBVIOUS
  <2>2. <<c, "linked">> \notin releasing
    OBVIOUS
  <2> QED
    BY <1>1, <2>1, <2>2 DEF Conns
<1> QED
  BY <1>1, <1>3, <1>4 DEF Kept

\* ReleaseConn leaves them as they are.
LEMMA ReleaseKept ==
  ASSUME NEW L, HeldOK(Conns(L), nios, refs, rxl, failed), NEW c, NEW why,
         why # "linked", ReleaseConn(c, why)
  PROVE  Kept(L)
<1>1. /\ <<c, why>> \in releasing
      /\ releasing' = releasing \ {<<c, why>>}
      /\ rxl' = [rxl EXCEPT ![c.input] = IF rxl[c.input] <= 1 THEN 0 ELSE rxl[c.input] - 1]
      /\ refs' = [n \in Netio |-> refs[n] - EndsAt(c, n)]
      /\ UNCHANGED <<nios, failed>>
  BY DEF ReleaseConn, Release, Unlisten
<1>2. <<c, why>> \in Conns(L)
  BY <1>1 DEF Conns
<1>3. HeldOK(Conns(L) \ {<<c, why>>}, nios, refs', rxl', failed)
  BY <1>1, <1>2, ReleaseOK
<1>4. (L \X {"linked"}) \cup releasing' = Conns(L) \ {<<c, why>>}
  BY <1>1 DEF Conns
<1> QED
  BY <1>1, <1>3, <1>4 DEF Kept

\* ReleaseAll leaves none.
LEMMA ReleaseAllKept ==
  ASSUME NEW L, HeldOK(Conns(L), nios, refs, rxl, failed), ReleaseAll(L)
  PROVE  Kept({})
<1>1. /\ releasing = {} /\ UNCHANGED <<nios, releasing, failed>>
      /\ rxl' = [n \in Netio |->
                   IF rxl[n] <= Cardinality({c \in L : c.input = n}) THEN 0
                   ELSE rxl[n] - Cardinality({c \in L : c.input = n})]
      /\ refs' = [n \in Netio |-> refs[n] - Cardinality(Ends(L, n))]
  BY DEF ReleaseAll, Unlisten
<1>2. \A n \in Netio : Ends(L, n) = EndsOf(Conns(L), n)
  BY DEF Ends, EndsOf
<1> DEFINE S == {refs'[n] : n \in Netio}
           T == {rxl'[n] : n \in Netio}
<1>3. refs' \in [Netio -> S] /\ rxl' \in [Netio -> T]
  BY <1>1
<1> HIDE DEF S, T
<1>4. Conns(L) = L \X {"linked"}
  BY <1>1 DEF Conns
<1>5. (\E D : refs' \in [Netio -> D]) /\ (\E D : rxl' \in [Netio -> D])
  BY <1>3
<1>6. \A n \in Netio : refs'[n] = refs[n] - Cardinality(EndsOf(Conns(L), n))
  BY <1>1, <1>2
<1>7. \A n \in Netio : rxl'[n] = IF rxl[n] <= Cardinality(InputsAt(L, n)) THEN 0
                               ELSE rxl[n] - Cardinality(InputsAt(L, n))
  BY <1>1 DEF InputsAt
<1>8. HeldOK(L \X {"linked"}, nios, refs, rxl, failed)
  BY <1>4
<1>9. AllReleased(L, refs, rxl, refs', rxl')
  BY <1>4, <1>5, <1>6, <1>7 DEF AllReleased
<1>10. HeldOK({}, nios, refs', rxl', failed)
  BY <1>8, <1>9, ReleaseAllOK
<1>11. ({} \X {"linked"}) \cup releasing' = {}
  BY <1>1
<1> QED
  BY <1>1, <1>10, <1>11 DEF Kept

\* NIOs come and go without a change to what connections hold.
LEMMA NioKept ==
  ASSUME NEW L, HeldOK(Conns(L), nios, refs, rxl, failed), NoNetio \notin Netio,
         NEW n \in Netio, NioCreate(n) \/ NioDelete(n)
  PROVE  Kept(L)
<1>1. UNCHANGED <<releasing, refs, rxl>>
  BY DEF NioCreate, NioDelete, held
<1>2. (L \X {"linked"}) \cup releasing' = Conns(L)
  BY <1>1 DEF Conns
<1>3. CASE NioCreate(n)
  <2>1. n \notin nios /\ nios' = nios \cup {n} /\ failed' = failed \ {n} /\ NoNetio # n
    BY <1>3 DEF NioCreate
  <2>2. HeldOK(Conns(L), nios \cup {n}, refs, rxl, failed \ {n})
    BY <2>1, CreateOK
  <2> QED
    BY <1>1, <1>2, <2>1, <2>2 DEF Kept
<1>4. CASE NioDelete(n)
  <2>1. n \in nios /\ nios' = nios \ {n} /\ refs[n] = 0 /\ failed' = failed
    BY <1>4 DEF NioDelete
  <2>2. HeldOK(Conns(L), nios \ {n}, refs, rxl, failed)
    BY <2>1, DeleteOK
  <2> QED
    BY <1>1, <1>2, <2>1, <2>2 DEF Kept
<1> QED
  BY <1>3, <1>4

-----------------------------------------------------------------------------
(* The Frame Relay switch.                                                 *)

\* No chain has two circuits for the same NIO and DLCI, each circuit stands in
\* the chain of its DLCI.
ChainOK(s, b) ==
  /\ \A i \in DOMAIN s : DlciHash[s[i].dlci_in] = b
  /\ \A i, j \in DOMAIN s :
       s[i].input = s[j].input /\ s[i].dlci_in = s[j].dlci_in => i = j
Ascending(s) == \A i, j \in DOMAIN s : i < j => s[i].dlci_in < s[j].dlci_in

FrInv ==
  /\ chain \in [DlciBucket -> Seq(Vc)] /\ conn \in [Netio -> Seq(Vc)]
  /\ dangling \subseteq Netio
  /\ releasing \subseteq Vc \X {"deleted", "failed"}
  /\ HeldOK(Conns(Vcs), nios, refs, rxl, failed)
  /\ \A b \in DlciBucket : ChainOK(chain[b], b)
  /\ \A n \in Netio \ dangling : ToSet(conn[n]) = VcsOf(n) /\ Ascending(conn[n])
  /\ \A vc \in Vcs : vc.input \notin dangling

\* Where the circuits are and what they are made of.
LEMMA VcFacts ==
  ASSUME FrInv
  PROVE  /\ Vcs \subseteq Vc
         /\ \A vc \in Vc : /\ vc.input \in Netio /\ vc.dlci_in \in Dlci /\ vc.dlci_in \in Nat
                           /\ DlciHash[vc.dlci_in] \in DlciBucket
         /\ \A b \in DlciBucket : \A i \in DOMAIN chain[b] : chain[b][i] \in Vcs
         /\ \A vc \in Vcs : \E i \in DOMAIN chain[DlciHash[vc.dlci_in]] :
                               chain[DlciHash[vc.dlci_in]][i] = vc
<1>1. chain \in [DlciBucket -> Seq(Vc)]
  BY DEF FrInv
<1>2. \A b \in DlciBucket : \A i \in DOMAIN chain[b] : chain[b][i] \in Vc
  BY <1>1
<1>3. \A b \in DlciBucket : \A i \in DOMAIN chain[b] : chain[b][i] \in Vcs
  BY DEF Vcs, ToSet
<1>4. \A vc \in Vcs : \E b \in DlciBucket : \E i \in DOMAIN chain[b] : vc = chain[b][i]
  BY DEF Vcs, ToSet
<1>5. Vcs \subseteq Vc
  BY <1>2, <1>4
<1>6. \A vc \in Vc : /\ vc.input \in Netio /\ vc.dlci_in \in Dlci /\ vc.dlci_in \in Nat
                     /\ DlciHash[vc.dlci_in] \in DlciBucket
  <2>1. Dlci \subseteq Nat /\ DlciHash \in [Dlci -> DlciBucket]
    BY SwitchesAssumption DEF FrAssumption
  <2>2. \A vc \in Vc : vc.input \in Netio /\ vc.dlci_in \in Dlci
    BY DEF Vc
  <2> QED
    BY <2>1, <2>2
<1>7. \A vc \in Vcs : \E i \in DOMAIN chain[DlciHash[vc.dlci_in]] :
                         chain[DlciHash[vc.dlci_in]][i] = vc
  <2>1. \A b \in DlciBucket : \A i \in DOMAIN chain[b] : DlciHash[chain[b][i].dlci_in] = b
    BY DEF FrInv, ChainOK
  <2> QED
    BY <1>4, <2>1
<1> QED
  BY <1>3, <1>5, <1>6, <1>7

\* A frame finds its circuit, and LMI the circuits of its NIO.
LEMMA FrExact == FrInv => VcsExact
<1> SUFFICES ASSUME FrInv PROVE VcsExact
  OBVIOUS
<1>1. ASSUME NEW vc \in Vcs PROVE HandlePkt(vc.input, vc.dlci_in) = vc.output
  <2> DEFINE s == chain[DlciHash[vc.dlci_in]]
  <2>1. PICK i \in DOMAIN s : s[i] = vc
    BY VcFacts
  <2>2. DlciHash[vc.dlci_in] \in DlciBucket
    BY VcFacts
  <2>3. chain \in [DlciBucket -> Seq(Vc)] /\ ChainOK(s, DlciHash[vc.dlci_in])
    BY <2>2 DEF FrInv
  <2>4. i \in Nat
    BY <2>2, <2>3
  <2>5. Lookup(vc.input, vc.dlci_in) = {i}
    BY <2>1, <2>3 DEF Lookup, ChainOK
  <2>6. Min({i}) = i
    BY <2>4 DEF Min
  <2> QED
    BY <2>1, <2>5, <2>6 DEF HandlePkt
<1>2. ASSUME NEW n \in nios \ dangling
      PROVE  /\ ToSet(conn[n]) = VcsOf(n)
             /\ \A i, j \in DOMAIN conn[n] : i < j => Advertised(n)[i] < Advertised(n)[j]
  <2>1. n \in Netio
    BY DEF FrInv, HeldOK
  <2> QED
    BY <2>1 DEF FrInv, Ascending, Advertised
<1> QED
  BY <1>1, <1>2 DEF VcsExact

\* The circuits after a chain changed.
LEMMA ChainUpdate ==
  ASSUME FrInv, NEW b \in DlciBucket, NEW s \in Seq(Vc), chain' = [chain EXCEPT ![b] = s]
  PROVE  /\ chain' \in [DlciBucket -> Seq(Vc)]
         /\ \A v : v \in Vcs' <=> \/ \E a \in DlciBucket \ {b} : v \in ToSet(chain[a])
                               \/ v \in ToSet(s)
<1>1. chain \in [DlciBucket -> Seq(Vc)]
  BY DEF FrInv
<1>2. \A a \in DlciBucket : chain'[a] = IF a = b THEN s ELSE chain[a]
  BY <1>1
<1>3. \A v : v \in Vcs' <=> \E a \in DlciBucket : v \in ToSet(chain'[a])
  BY DEF Vcs
<1> QED
  BY <1>1, <1>2, <1>3

\* frsw_create_vc: the new circuit enters its chain and, in its place, the list.
LEMMA FrCreateVc ==
  ASSUME FrInv, NEW vc \in Vc, CreateVc(vc)
  PROVE  FrInv'
<1> DEFINE b == DlciHash[vc.dlci_in]
           t == <<vc>> \o chain[b]
<1>0. b \in DlciBucket /\ vc.input \in Netio /\ vc.dlci_in \in Nat
  BY VcFacts
<1>1. chain \in [DlciBucket -> Seq(Vc)] /\ chain[b] \in Seq(Vc) /\ conn \in [Netio -> Seq(Vc)]
  BY <1>0 DEF FrInv
<1>2. chain' = [chain EXCEPT ![b] = t]
  BY DEF CreateVc
<1>3. /\ t \in Seq(Vc) /\ Len(chain[b]) \in Nat
      /\ DOMAIN t = 1 .. Len(chain[b]) + 1
      /\ t[1] = vc
      /\ \A j \in 2 .. Len(chain[b]) + 1 : t[j] = chain[b][j - 1] /\ j - 1 \in DOMAIN chain[b]
      /\ ToSet(t) = ToSet(chain[b]) \cup {vc}
  BY <1>1, PushSeq
<1> HIDE DEF t
<1>4. chain' \in [DlciBucket -> Seq(Vc)] /\ Vcs' = Vcs \cup {vc}
  <2>1. /\ chain' \in [DlciBucket -> Seq(Vc)]
        /\ \A v : v \in Vcs' <=> \/ \E a \in DlciBucket \ {b} : v \in ToSet(chain[a])
                              \/ v \in ToSet(t)
    BY <1>0, <1>2, <1>3, ChainUpdate
  <2>2. \A v : v \in Vcs <=> \/ \E a \in DlciBucket \ {b} : v \in ToSet(chain[a])
                             \/ v \in ToSet(chain[b])
    BY <1>0 DEF Vcs
  <2> QED
    BY <2>1, <2>2, <1>3
<1>5. \A i \in DOMAIN chain[b] : ~(chain[b][i].input = vc.input /\ chain[b][i].dlci_in = vc.dlci_in)
  BY DEF CreateVc, Lookup
<1>6. \A v \in Vcs : ~(v.input = vc.input /\ v.dlci_in = vc.dlci_in)
  BY <1>5, VcFacts
<1>7. \A a \in DlciBucket : ChainOK(chain'[a], a)
  <2>1. ChainOK(chain[b], b) /\ \A a \in DlciBucket : ChainOK(chain[a], a)
    BY <1>0 DEF FrInv
  <2>2. ChainOK(t, b)
    <3>1. \A i \in DOMAIN t : i = 1 \/ (i \in 2 .. Len(chain[b]) + 1)
      BY <1>3
    <3>2. \A i \in DOMAIN t : DlciHash[t[i].dlci_in] = b
      BY <1>3, <2>1, <3>1 DEF ChainOK
    <3>3. ASSUME NEW i \in DOMAIN t, NEW j \in DOMAIN t,
                 t[i].input = t[j].input, t[i].dlci_in = t[j].dlci_in
          PROVE  i = j
      <4>1. CASE i = 1
        BY <4>1, <3>1, <3>3, <1>3, <1>5
      <4>2. CASE j = 1
        BY <4>2, <3>1, <3>3, <1>3, <1>5
      <4>3. CASE i # 1 /\ j # 1
        <5>1. i - 1 = j - 1
          BY <4>3, <3>1, <3>3, <1>3, <2>1 DEF ChainOK
        <5> QED
          BY <5>1, <1>3
      <4> QED
        BY <4>1, <4>2, <4>3
    <3> QED
      BY <3>2, <3>3 DEF ChainOK
  <2> QED
    BY <2>1, <2>2, <1>1, <1>2
<1>8. /\ \A n \in Netio \ dangling' : ToSet(conn'[n]) = VcsOf(n)' /\ Ascending(conn'[n])
      /\ conn' \in [Netio -> Seq(Vc)]
  <2> DEFINE s == conn[vc.input]
             later == {j \in DOMAIN s : s[j].dlci_in > vc.dlci_in}
             i == IF later = {} THEN Len(s) + 1 ELSE Min(later)
  <2>1. vc.input \notin dangling /\ dangling' = dangling
    BY DEF CreateVc
  <2>2. s \in Seq(Vc) /\ ToSet(s) = VcsOf(vc.input) /\ Ascending(s) /\ Len(s) \in Nat
        /\ DOMAIN s = 1 .. Len(s)
    BY <1>0, <1>1, <2>1 DEF FrInv
  <2>3. conn' = [conn EXCEPT ![vc.input] = InsertAt(s, i, vc)]
    BY DEF CreateVc, InsertVc
  <2>4. \A j \in DOMAIN s : s[j] \in Vc /\ s[j].dlci_in \in Nat /\ s[j].dlci_in # vc.dlci_in
    <3>1. \A j \in DOMAIN s : s[j] \in VcsOf(vc.input)
      BY <2>2 DEF ToSet
    <3> QED
      BY <3>1, <1>6, VcFacts DEF VcsOf
  <2>5. /\ i \in 1 .. Len(s) + 1
        /\ \A j \in 1 .. i - 1 : s[j].dlci_in < vc.dlci_in
        /\ \A j \in i .. Len(s) : s[j].dlci_in > vc.dlci_in
    <3>1. CASE later = {}
      <4>1. \A j \in DOMAIN s : s[j].dlci_in < vc.dlci_in
        BY <3>1, <2>4, <1>0
      <4>2. i = Len(s) + 1
        BY <3>1
      <4>3. Len(s) \in Nat /\ DOMAIN s = 1 .. Len(s)
        BY <2>2
      <4> HIDE DEF i, later, s
      <4> QED
        BY <4>1, <4>2, <4>3
    <3>2. CASE later # {}
      <4>1. later \subseteq Nat
        BY <2>2
      <4>2. i \in later /\ \A j \in later : i <= j
        <5>1. PICK m \in later : \A j \in later : m <= j
          BY <3>2, <4>1, LeastNat
        <5>2. Min(later) \in later /\ \A j \in later : Min(later) <= j
          BY <5>1 DEF Min
        <5> QED
          BY <3>2, <5>2
      <4> HIDE DEF i
      <4>3. i \in 1 .. Len(s) /\ s[i].dlci_in > vc.dlci_in
        BY <4>2, <2>2
      <4>4. \A j \in 1 .. i - 1 : j \in DOMAIN s /\ j \notin later
        BY <4>1, <4>2, <4>3, <2>2
      <4>5. \A j \in 1 .. i - 1 : s[j].dlci_in < vc.dlci_in
        BY <4>4, <2>4, <1>0
      <4>6. ASSUME NEW j \in i .. Len(s) PROVE s[j].dlci_in > vc.dlci_in
        <5>1. j \in DOMAIN s /\ i \in DOMAIN s /\ (i = j \/ i < j)
          BY <4>3, <2>2
        <5>2. i < j => s[i].dlci_in < s[j].dlci_in
          BY <5>1, <2>2 DEF Ascending
        <5> QED
          BY <5>1, <5>2, <4>3, <2>4, <1>0
      <4> QED
        BY <4>3, <4>5, <4>6
    <3> QED
      BY <3>1, <3>2
  <2> HIDE DEF i, later
  <2> DEFINE u == InsertAt(s, i, vc)
  <2>6. /\ u \in Seq(Vc) /\ DOMAIN u = 1 .. Len(s) + 1 /\ u[i] = vc
        /\ \A j \in 1 .. i - 1 : u[j] = s[j]
        /\ \A j \in i + 1 .. Len(s) + 1 : u[j] = s[j - 1]
        /\ ToSet(u) = ToSet(s) \cup {vc}
    <3>1. vc \in Vc /\ s \in Seq(Vc) /\ i \in 1 .. Len(s) + 1
      BY <2>2, <2>5
    <3> HIDE DEF s
    <3>2. /\ u \in Seq(Vc) /\ DOMAIN u = 1 .. Len(s) + 1 /\ u[i] = vc
          /\ \A j \in 1 .. i - 1 : u[j] = s[j]
          /\ \A j \in i + 1 .. Len(s) + 1 : u[j] = s[j - 1]
      BY <3>1, InsertSeq
    <3>3. ToSet(u) = ToSet(s) \cup {vc}
      BY <3>1, InsertElems
    <3> QED
      BY <3>2, <3>3
  <2> HIDE DEF u
  <2>7. Ascending(u)
    <3> SUFFICES ASSUME NEW j \in 1 .. Len(s) + 1, NEW k \in 1 .. Len(s) + 1, j < k
                 PROVE  u[j].dlci_in < u[k].dlci_in
      BY <2>6 DEF Ascending
    <3>0. \A x, y \in 1 .. Len(s) : x < y => s[x].dlci_in < s[y].dlci_in
      BY <2>2 DEF Ascending
    <3>1. CASE k < i
      <4>1. j \in 1 .. i - 1 /\ k \in 1 .. i - 1 /\ j \in 1 .. Len(s) /\ k \in 1 .. Len(s)
        BY <3>1, <2>5, <2>2
      <4> QED
        BY <4>1, <3>0, <2>6
    <3>2. CASE k = i
      <4>1. j \in 1 .. i - 1
        BY <3>2, <2>5, <2>2
      <4> QED
        BY <4>1, <3>2, <2>5, <2>6
    <3>3. CASE k > i /\ j = i
      <4>1. k \in i + 1 .. Len(s) + 1 /\ k - 1 \in i .. Len(s)
        BY <3>3, <2>5, <2>2
      <4>2. s[k - 1].dlci_in > vc.dlci_in /\ s[k - 1].dlci_in \in Nat
        BY <4>1, <2>2, <2>4, <2>5
      <4> QED
        BY <4>1, <4>2, <3>3, <2>6, <1>0
    <3>4. CASE k > i /\ j < i
      <4>1. k \in i + 1 .. Len(s) + 1 /\ k - 1 \in 1 .. Len(s) /\ j \in 1 .. i - 1
            /\ j \in 1 .. Len(s) /\ j < k - 1
        BY <3>4, <2>5, <2>2
      <4> QED
        BY <4>1, <3>0, <2>6
    <3>5. CASE k > i /\ j > i
      <4>1. k \in i + 1 .. Len(s) + 1 /\ k - 1 \in 1 .. Len(s) /\ j - 1 \in 1 .. Len(s)
            /\ j \in i + 1 .. Len(s) + 1 /\ j - 1 < k - 1
        BY <3>5, <2>5, <2>2
      <4> QED
        BY <4>1, <3>0, <2>6
    <3> QED
      BY <3>1, <3>2, <3>3, <3>4, <3>5, <2>5
  <2>8. VcsOf(vc.input)' = VcsOf(vc.input) \cup {vc} /\ \A n \in Netio : n # vc.input => VcsOf(n)' = VcsOf(n)
    BY <1>4 DEF VcsOf
  <2>9. /\ conn' \in [Netio -> Seq(Vc)] /\ conn'[vc.input] = u
        /\ \A n \in Netio : n # vc.input => conn'[n] = conn[n]
    BY <2>3, <2>6, <1>0, <1>1 DEF u
  <2>10. \A n \in Netio \ dangling : ToSet(conn[n]) = VcsOf(n) /\ Ascending(conn[n])
    BY DEF FrInv
  <2> QED
    BY <2>1, <2>2, <2>6, <2>7, <2>8, <2>9, <2>10
<1>9. HeldOK(Conns(Vcs), nios, refs, rxl, failed)'
  <2>1. vc \notin Vcs /\ Hold(vc)
    BY <1>6 DEF CreateVc
  <2>2. HeldOK(Conns(Vcs), nios, refs, rxl, failed) /\ \A x \in releasing : x[2] # "linked"
    BY DEF FrInv
  <2>3. Kept(Vcs \cup {vc})
    BY <2>1, <2>2, HoldKept
  <2> QED
    BY <2>3, <1>4 DEF Kept, Conns
<1>10. dangling' = dangling /\ releasing' = releasing /\ vc.input \notin dangling
  BY DEF CreateVc, Hold
<1> QED
  BY <1>4, <1>7, <1>8, <1>9, <1>10 DEF FrInv

\* frsw_unlink_vc of a list finds the one place of a circuit.
LEMMA MinPlace ==
  ASSUME NEW S, NEW s \in Seq(S), NEW v, NEW i \in DOMAIN s, s[i] = v,
         \A j \in DOMAIN s : s[j] = v => j = i
  PROVE  /\ Min({j \in DOMAIN s : s[j] = v}) = i /\ i \in 1 .. Len(s)
         /\ Unlinked(s, v) = RemoveAt(s, i)
<1>1. i \in 1 .. Len(s)
  OBVIOUS
<1>2. {j \in DOMAIN s : s[j] = v} = {i}
  OBVIOUS
<1>3. Min({i}) = i
  BY <1>1 DEF Min
<1> QED
  BY <1>1, <1>2, <1>3 DEF Unlinked

\* frsw_delete_vc: the circuit leaves both.
LEMMA FrDeleteVc ==
  ASSUME FrInv, NEW vc \in Vc, DeleteVc(vc)
  PROVE  FrInv'
<1> DEFINE b == DlciHash[vc.dlci_in]
           s == chain[b]
           l == conn[vc.input]
           t == Unlinked(s, vc)
           u == Unlinked(l, vc)
<1>v. vc \in Vcs
  BY DEF DeleteVc
<1>0. b \in DlciBucket /\ vc.input \in Netio
  BY VcFacts
<1>1. chain \in [DlciBucket -> Seq(Vc)] /\ s \in Seq(Vc) /\ conn \in [Netio -> Seq(Vc)]
      /\ l \in Seq(Vc)
  BY <1>0 DEF FrInv
<1>2. /\ chain' = [chain EXCEPT ![b] = t]
      /\ conn' = [conn EXCEPT ![vc.input] = u]
      /\ dangling' = dangling /\ vc.input \notin dangling
  BY <1>v DEF DeleteVc, FrInv
<1>o. ChainOK(s, b) /\ \A a \in DlciBucket : ChainOK(chain[a], a)
  BY <1>0 DEF FrInv
<1>l. ToSet(l) = VcsOf(vc.input) /\ Ascending(l)
  BY <1>0, <1>2 DEF FrInv
<1>3. PICK i \in DOMAIN s : s[i] = vc
  BY <1>v, VcFacts
<1>4. \A j \in DOMAIN s : s[j] = vc => j = i
  BY <1>3, <1>o DEF ChainOK
<1>5. PICK k \in DOMAIN l : l[k] = vc
  BY <1>v, <1>l DEF ToSet, VcsOf
<1>6. \A j \in DOMAIN l : l[j] = vc => j = k
  <2> SUFFICES ASSUME NEW j \in DOMAIN l, l[j] = vc, j # k PROVE FALSE
    OBVIOUS
  <2>1. j \in Nat /\ k \in Nat /\ (j < k \/ k < j)
    BY <1>1
  <2>2. vc.dlci_in < vc.dlci_in
    BY <2>1, <1>5, <1>l DEF Ascending
  <2> QED
    BY <2>2, VcFacts
<1>7. t = RemoveAt(s, i) /\ i \in 1 .. Len(s) /\ u = RemoveAt(l, k) /\ k \in 1 .. Len(l)
  <2> HIDE DEF s, l
  <2>1. Unlinked(s, vc) = RemoveAt(s, i) /\ i \in 1 .. Len(s)
    BY <1>1, <1>3, <1>4, MinPlace
  <2>2. Unlinked(l, vc) = RemoveAt(l, k) /\ k \in 1 .. Len(l)
    BY <1>1, <1>5, <1>6, MinPlace
  <2> QED
    BY <2>1, <2>2
<1> HIDE DEF t, u
<1>8. /\ t \in Seq(Vc) /\ Len(s) \in Nat /\ DOMAIN s = 1 .. Len(s)
      /\ DOMAIN t = 1 .. Len(s) - 1
      /\ \A j \in 1 .. i - 1 : t[j] = s[j]
      /\ \A j \in i .. Len(s) - 1 : t[j] = s[j + 1]
      /\ ToSet(t) = ToSet(s) \ {vc}
  <2>1. \A j \in DOMAIN s : s[j] = s[i] => j = i
    BY <1>3, <1>4
  <2> HIDE DEF s
  <2>2. /\ t \in Seq(Vc) /\ Len(s) \in Nat /\ DOMAIN s = 1 .. Len(s)
        /\ DOMAIN t = 1 .. Len(s) - 1
        /\ \A j \in 1 .. i - 1 : t[j] = s[j]
        /\ \A j \in i .. Len(s) - 1 : t[j] = s[j + 1]
    <3>1. s \in Seq(Vc) /\ i \in 1 .. Len(s) /\ t = RemoveAt(s, i)
      BY <1>1, <1>7
    <3>2. Len(s) \in Nat /\ DOMAIN s = 1 .. Len(s)
      BY <3>1
    <3> QED
      BY <3>1, <3>2, RemoveSeq
  <2>3. ToSet(t) = ToSet(s) \ {vc}
    BY <1>1, <1>3, <1>7, <2>1, RemoveElems
  <2> QED
    BY <2>2, <2>3
<1>9. /\ u \in Seq(Vc) /\ Len(l) \in Nat /\ DOMAIN l = 1 .. Len(l)
      /\ DOMAIN u = 1 .. Len(l) - 1
      /\ \A j \in 1 .. k - 1 : u[j] = l[j]
      /\ \A j \in k .. Len(l) - 1 : u[j] = l[j + 1]
      /\ ToSet(u) = ToSet(l) \ {vc}
  <2>1. \A j \in DOMAIN l : l[j] = l[k] => j = k
    BY <1>5, <1>6
  <2> HIDE DEF l
  <2>2. /\ u \in Seq(Vc) /\ Len(l) \in Nat /\ DOMAIN l = 1 .. Len(l)
        /\ DOMAIN u = 1 .. Len(l) - 1
        /\ \A j \in 1 .. k - 1 : u[j] = l[j]
        /\ \A j \in k .. Len(l) - 1 : u[j] = l[j + 1]
    <3>1. l \in Seq(Vc) /\ k \in 1 .. Len(l) /\ u = RemoveAt(l, k)
      BY <1>1, <1>7
    <3>2. Len(l) \in Nat /\ DOMAIN l = 1 .. Len(l)
      BY <3>1
    <3> QED
      BY <3>1, <3>2, RemoveSeq
  <2>3. ToSet(u) = ToSet(l) \ {vc}
    BY <1>1, <1>5, <1>7, <2>1, RemoveElems
  <2> QED
    BY <2>2, <2>3
<1>10. \A j \in DOMAIN t : \E m \in DOMAIN s : t[j] = s[m] /\ m = (IF j < i THEN j ELSE j + 1)
  <2> SUFFICES ASSUME NEW j \in 1 .. Len(s) - 1
               PROVE  \E m \in 1 .. Len(s) : t[j] = s[m] /\ m = (IF j < i THEN j ELSE j + 1)
    BY <1>8
  <2> HIDE DEF s
  <2>1. CASE j < i
    BY <2>1, <1>8, <1>7
  <2>2. CASE ~(j < i)
    <3>1. j \in i .. Len(s) - 1 /\ j + 1 \in 1 .. Len(s)
      BY <2>2, <1>7, <1>8
    <3> QED
      BY <3>1, <2>2, <1>8
  <2> QED
    BY <2>1, <2>2
<1>11. ChainOK(t, b)
  <2>1. \A j \in DOMAIN t : DlciHash[t[j].dlci_in] = b
    BY <1>10, <1>o DEF ChainOK
  <2>2. ASSUME NEW x \in DOMAIN t, NEW y \in DOMAIN t,
               t[x].input = t[y].input, t[x].dlci_in = t[y].dlci_in
        PROVE  x = y
    <3>1. PICK m \in DOMAIN s : t[x] = s[m] /\ m = (IF x < i THEN x ELSE x + 1)
      BY <1>10
    <3>2. PICK o \in DOMAIN s : t[y] = s[o] /\ o = (IF y < i THEN y ELSE y + 1)
      BY <1>10
    <3>3. m = o
      <4>1. s[m].input = s[o].input /\ s[m].dlci_in = s[o].dlci_in
        BY <3>1, <3>2, <2>2
      <4>2. \A f, g \in DOMAIN s :
              s[f].input = s[g].input /\ s[f].dlci_in = s[g].dlci_in => f = g
        BY <1>o DEF ChainOK
      <4> HIDE DEF s
      <4> QED
        BY <4>1, <4>2
    <3>4. x \in Nat /\ y \in Nat /\ i \in Nat
      BY <1>7, <1>8
    <3> QED
      BY <3>1, <3>2, <3>3, <3>4
  <2> QED
    BY <2>1, <2>2 DEF ChainOK
<1>12. Ascending(u)
  <2> SUFFICES ASSUME NEW x \in 1 .. Len(l) - 1, NEW y \in 1 .. Len(l) - 1, x < y
               PROVE  u[x].dlci_in < u[y].dlci_in
    BY <1>9 DEF Ascending
  <2>0. \A m, o \in 1 .. Len(l) : m < o => l[m].dlci_in < l[o].dlci_in
    BY <1>l, <1>9 DEF Ascending
  <2> HIDE DEF l
  <2> DEFINE m == IF x < k THEN x ELSE x + 1
             o == IF y < k THEN y ELSE y + 1
  <2>3. Len(l) \in Nat /\ k \in 1 .. Len(l)
    BY <1>7, <1>9
  <2>1. m \in 1 .. Len(l) /\ o \in 1 .. Len(l) /\ m < o
    BY <2>3
  <2>4. ASSUME NEW z \in 1 .. Len(l) - 1
        PROVE  u[z] = IF z < k THEN l[z] ELSE l[z + 1]
    <3>1. CASE z < k
      <4>1. z \in 1 .. k - 1
        BY <3>1, <2>3
      <4> QED
        BY <4>1, <3>1, <1>9
    <3>2. CASE ~(z < k)
      <4>1. z \in k .. Len(l) - 1
        BY <3>2, <2>3
      <4> QED
        BY <4>1, <3>2, <1>9
    <3> QED
      BY <3>1, <3>2
  <2>2. u[x] = l[m] /\ u[y] = l[o]
    BY <2>4
  <2> HIDE DEF m, o
  <2> QED
    BY <2>0, <2>1, <2>2
<1>13. chain' \in [DlciBucket -> Seq(Vc)] /\ Vcs' = Vcs \ {vc}
  <2>1. /\ chain' \in [DlciBucket -> Seq(Vc)]
        /\ \A v : v \in Vcs' <=> \/ \E a \in DlciBucket \ {b} : v \in ToSet(chain[a])
                              \/ v \in ToSet(t)
    BY <1>0, <1>2, <1>8, ChainUpdate
  <2>2. \A v : v \in Vcs <=> \/ \E a \in DlciBucket \ {b} : v \in ToSet(chain[a])
                             \/ v \in ToSet(s)
    BY <1>0 DEF Vcs
  <2>3. \A a \in DlciBucket \ {b} : vc \notin ToSet(chain[a])
    BY <1>o DEF ChainOK, ToSet
  <2> QED
    BY <2>1, <2>2, <2>3, <1>8
<1>14. \A a \in DlciBucket : ChainOK(chain'[a], a)
  BY <1>1, <1>2, <1>o, <1>11
<1>15. /\ \A n \in Netio \ dangling' : ToSet(conn'[n]) = VcsOf(n)' /\ Ascending(conn'[n])
       /\ conn' \in [Netio -> Seq(Vc)]
  <2>1. VcsOf(vc.input)' = VcsOf(vc.input) \ {vc} /\ \A n \in Netio : n # vc.input => VcsOf(n)' = VcsOf(n)
    BY <1>13 DEF VcsOf
  <2>2. /\ conn' \in [Netio -> Seq(Vc)] /\ conn'[vc.input] = u
        /\ \A n \in Netio : n # vc.input => conn'[n] = conn[n]
    BY <1>0, <1>1, <1>2, <1>9
  <2>3. \A n \in Netio \ dangling : ToSet(conn[n]) = VcsOf(n) /\ Ascending(conn[n])
    BY DEF FrInv
  <2> QED
    BY <2>1, <2>2, <2>3, <1>2, <1>9, <1>12, <1>l
<1>16. /\ HeldOK(Conns(Vcs), nios, refs, rxl, failed)'
       /\ releasing' \subseteq Vc \X {"deleted", "failed"}
  <2>1. Unhold(vc) /\ releasing' = releasing \cup {<<vc, "deleted">>}
    BY DEF DeleteVc, Unhold
  <2>2. /\ HeldOK(Conns(Vcs), nios, refs, rxl, failed)
        /\ releasing \subseteq Vc \X {"deleted", "failed"}
    BY DEF FrInv
  <2>3. \A x \in releasing : x[2] # "linked"
    BY <2>2
  <2>4. Kept(Vcs \ {vc})
    BY <1>v, <2>1, <2>2, <2>3, UnholdKept
  <2>5. HeldOK(Conns(Vcs), nios, refs, rxl, failed)'
    BY <2>4, <1>13 DEF Kept, Conns
  <2> QED
    BY <2>1, <2>2, <2>5
<1>17. \A v \in Vcs' : v.input \notin dangling'
  BY <1>2, <1>13 DEF FrInv
<1> QED
  BY <1>2, <1>13, <1>14, <1>15, <1>16, <1>17 DEF FrInv

\* A step that changes only what is held.
LEMMA FrReleasing ==
  ASSUME FrInv, UNCHANGED table, Kept(Vcs),
         releasing' \subseteq Vc \X {"deleted", "failed"}
  PROVE  FrInv'
<1>1. UNCHANGED <<chain, conn, dangling>>
  BY DEF table
<1>2. Vcs' = Vcs /\ \A n \in Netio : VcsOf(n)' = VcsOf(n)
  BY <1>1 DEF Vcs, VcsOf
<1>3. HeldOK(Conns(Vcs), nios, refs, rxl, failed)'
  BY <1>2 DEF Kept, Conns
<1> QED
  BY <1>1, <1>2, <1>3 DEF FrInv

\* Every step of a Frame Relay switch.
LEMMA FrStepInv ==
  ASSUME FrInv, FrNext
  PROVE  FrInv'
<1>t. /\ HeldOK(Conns(Vcs), nios, refs, rxl, failed)
      /\ releasing \subseteq Vc \X {"deleted", "failed"}
      /\ chain \in [DlciBucket -> Seq(Vc)] /\ conn \in [Netio -> Seq(Vc)]
      /\ dangling \subseteq Netio /\ NoNetio \notin Netio
  BY SwitchesAssumption DEF FrInv, FrAssumption, CircuitsAssumption
<1>1. ASSUME NEW n \in Netio, NioCreated(n) PROVE FrInv'
  <2>1. /\ NioCreate(n) /\ n \notin nios /\ UNCHANGED <<releasing, chain>>
        /\ conn' = [conn EXCEPT ![n] = <<>>] /\ dangling' = dangling \ {n}
    BY <1>1 DEF NioCreated, NioCreate, held
  <2>2. Vcs' = Vcs /\ \A m \in Netio : VcsOf(m)' = VcsOf(m)
    BY <2>1 DEF Vcs, VcsOf
  <2>3. Kept(Vcs)
    BY <1>t, <2>1, NioKept
  <2>4. HeldOK(Conns(Vcs), nios, refs, rxl, failed)'
    BY <2>2, <2>3 DEF Kept, Conns
  <2>5. VcsOf(n) = {}
    <3> SUFFICES ASSUME NEW v \in Vcs, v.input = n PROVE FALSE
      BY DEF VcsOf
    <3>1. <<v, "linked">> \in Conns(Vcs)
      BY DEF Conns
    <3>2. <<v, "linked">>[1].input \in nios
      BY <1>t, <3>1 DEF HeldOK
    <3> QED
      BY <3>2, <2>1
  <2>6. \A m \in Netio \ dangling' : ToSet(conn'[m]) = VcsOf(m) /\ Ascending(conn'[m])
    <3>1. ToSet(<<>>) = {} /\ Ascending(<<>>)
      BY DEF ToSet, Ascending
    <3>2. \A m \in Netio \ dangling : ToSet(conn[m]) = VcsOf(m) /\ Ascending(conn[m])
      BY DEF FrInv
    <3> QED
      BY <3>1, <3>2, <2>1, <2>5, <1>t
  <2>7. conn' \in [Netio -> Seq(Vc)]
    BY <2>1, <1>t
  <2>8. /\ \A b \in DlciBucket : ChainOK(chain[b], b)
        /\ \A vc \in Vcs : vc.input \notin dangling
    BY DEF FrInv
  <2> QED
    BY <1>t, <2>1, <2>2, <2>4, <2>6, <2>7, <2>8 DEF FrInv
<1>2. ASSUME NEW n \in Netio, NioDelete(n), UNCHANGED table PROVE FrInv'
  <2>1. Kept(Vcs)
    BY <1>t, <1>2, NioKept
  <2>2. releasing' = releasing
    BY <1>2 DEF NioDelete, held
  <2> QED
    BY <1>2, <1>t, <2>1, <2>2, FrReleasing
<1>3. ASSUME NEW vc \in Vc, CreateVcFails(vc) PROVE FrInv'
  <2>1. HoldFails(vc) /\ UNCHANGED table
    BY <1>3 DEF CreateVcFails
  <2>2. Kept(Vcs)
    BY <1>t, <2>1, HoldFailsKept
  <2>3. releasing' \subseteq Vc \X {"deleted", "failed"}
    BY <1>t, <2>1 DEF HoldFails
  <2> QED
    BY <2>1, <2>2, <2>3, FrReleasing
<1>4. ASSUME NEW vc \in Vc, NEW why \in {"deleted", "failed"}, ReleaseConn(vc, why), UNCHANGED table
      PROVE  FrInv'
  <2>1. Kept(Vcs)
    BY <1>t, <1>4, ReleaseKept
  <2>2. releasing' \subseteq Vc \X {"deleted", "failed"}
    BY <1>t, <1>4 DEF ReleaseConn
  <2> QED
    BY <1>4, <2>1, <2>2, FrReleasing
<1>5. ASSUME DeleteTable PROVE FrInv'
  <2>1. /\ ReleaseAll(Vcs) /\ releasing' = releasing /\ UNCHANGED conn
        /\ chain' = [b \in DlciBucket |-> <<>>]
        /\ dangling' = dangling \cup {n \in Netio : VcsOf(n) # {}}
    BY <1>5 DEF DeleteTable, ReleaseAll
  <2>2. Kept({})
    BY <1>t, <2>1, ReleaseAllKept
  <2>3. Vcs' = {} /\ \A n \in Netio : VcsOf(n)' = {}
    BY <2>1 DEF Vcs, VcsOf, ToSet
  <2>4. HeldOK(Conns(Vcs), nios, refs, rxl, failed)'
    BY <2>2, <2>3 DEF Kept, Conns
  <2>5. chain' \in [DlciBucket -> Seq(Vc)] /\ \A b \in DlciBucket : ChainOK(chain'[b], b)
    BY <2>1 DEF ChainOK
  <2>6. \A n \in Netio \ dangling' : ToSet(conn'[n]) = VcsOf(n)' /\ Ascending(conn'[n])
    BY <2>1, <2>3 DEF FrInv
  <2> QED
    BY <1>t, <2>1, <2>3, <2>4, <2>5, <2>6 DEF FrInv
<1> QED
  BY <1>1, <1>2, <1>3, <1>4, <1>5, FrCreateVc, FrDeleteVc DEF FrNext

-----------------------------------------------------------------------------
(* The ATM switch.                                                         *)

\* A path is the only one with its input NIO and VPI, a channel the only one with
\* its VCI; a channel that is not hidden has no path over it.
AtmInv ==
  /\ vps \subseteq Vpc /\ vcs \subseteq Vcc /\ hidden \subseteq vcs
  /\ releasing \subseteq (Vpc \cup Vcc) \X {"deleted", "failed"}
  /\ HeldOK(Conns(vps \cup vcs), nios, refs, rxl, failed)
  /\ \A c, d \in vps : c.input = d.input /\ c.vpi_in = d.vpi_in => c = d
  /\ \A c, d \in vcs :
       c.input = d.input /\ c.vpi_in = d.vpi_in /\ c.vci_in = d.vci_in => c = d
  /\ \A v \in vcs \ hidden, c \in vps : ~(v.input = c.input /\ v.vpi_in = c.vpi_in)

\* A path is not a channel.
LEMMA KindsDiffer == Vpc \cap Vcc = {}
<1> SUFFICES ASSUME NEW c, c \in Vpc, c \in Vcc PROVE FALSE
  OBVIOUS
<1>1. DOMAIN c = {"input", "vpi_in", "output", "vpi_out"}
  BY DEF Vpc
<1>2. DOMAIN c = {"input", "vpi_in", "vci_in", "output", "vpi_out"}
  BY DEF Vcc
<1>3. "vci_in" \in DOMAIN c
  BY <1>2
<1> QED
  BY <1>1, <1>3

\* A cell finds its path, or its channel.
LEMMA AtmExact == AtmInv => CellsSwitched
<1> SUFFICES ASSUME AtmInv PROVE CellsSwitched
  OBVIOUS
<1>1. ASSUME NEW c \in vps, NEW vci \in Vci
      PROVE  HandleCell(c.input, c.vpi_in, vci) = {Outgoing(c, vci)}
  <2>1. VpLookup(c.input, c.vpi_in) = {c}
    BY DEF AtmInv, VpLookup
  <2>2. HandleCell(c.input, c.vpi_in, vci) = {Outgoing(d, vci) : d \in {c}}
    BY <2>1 DEF HandleCell
  <2> QED
    BY <2>2
<1>2. ASSUME NEW c \in vcs \ hidden
      PROVE  HandleCell(c.input, c.vpi_in, c.vci_in) = {Outgoing(c, c.vci_in)}
  <2>1. VpLookup(c.input, c.vpi_in) = {}
    BY DEF AtmInv, VpLookup
  <2>2. VcLookup(c.input, c.vpi_in, c.vci_in) = {c}
    BY DEF AtmInv, VcLookup
  <2>3. HandleCell(c.input, c.vpi_in, c.vci_in) = {Outgoing(d, c.vci_in) : d \in {c}}
    BY <2>1, <2>2 DEF HandleCell
  <2> QED
    BY <2>3
<1> QED
  BY <1>1, <1>2 DEF CellsSwitched

\* A step that changes only what is held.
LEMMA AtmReleasing ==
  ASSUME AtmInv, UNCHANGED tables, Kept(vps \cup vcs),
         releasing' \subseteq (Vpc \cup Vcc) \X {"deleted", "failed"}
  PROVE  AtmInv'
<1>1. UNCHANGED <<vps, vcs, hidden>>
  BY DEF tables
<1> QED
  BY <1>1 DEF AtmInv, Kept, Conns

\* Every step of an ATM switch.
LEMMA AtmStepInv ==
  ASSUME AtmInv, AtmNext
  PROVE  AtmInv'
<1> DEFINE L == vps \cup vcs
<1>t. /\ vps \subseteq Vpc /\ vcs \subseteq Vcc /\ hidden \subseteq vcs
      /\ releasing \subseteq (Vpc \cup Vcc) \X {"deleted", "failed"}
      /\ HeldOK(Conns(L), nios, refs, rxl, failed)
  BY DEF AtmInv
<1>r. \A x \in releasing : x[2] # "linked"
  BY <1>t
<1>d. Vpc \cap Vcc = {}
  BY KindsDiffer
<1>1. ASSUME NEW n \in Netio, NioCreate(n) \/ NioDelete(n), UNCHANGED tables PROVE AtmInv'
  <2>1. NoNetio \notin Netio
    BY SwitchesAssumption DEF FrAssumption, CircuitsAssumption
  <2>2. Kept(L)
    BY <1>1, <1>t, <2>1, NioKept
  <2>3. releasing' = releasing
    BY <1>1 DEF NioCreate, NioDelete, held
  <2> QED
    BY <1>1, <1>t, <2>2, <2>3, AtmReleasing
<1>2. ASSUME NEW c \in Vpc, CreateVpc(c) PROVE AtmInv'
  <2>1. /\ Hold(c) /\ vps' = vps \cup {c} /\ vcs' = vcs /\ releasing' = releasing
        /\ hidden' = hidden \cup {v \in vcs : v.input = c.input /\ v.vpi_in = c.vpi_in}
        /\ \A d \in vps : ~(d.input = c.input /\ d.vpi_in = c.vpi_in)
    BY <1>2 DEF CreateVpc, VpLookup, Hold
  <2>2. c \notin L
    BY <2>1, <1>t, <1>d
  <2>3. Kept(L \cup {c})
    BY <1>t, <1>r, <2>1, <2>2, HoldKept
  <2>4. HeldOK(Conns(vps \cup vcs), nios, refs, rxl, failed)'
    <3>1. (vps \cup vcs)' = L \cup {c}
      BY <2>1
    <3> QED
      BY <2>3, <3>1 DEF Kept, Conns
  <2> QED
    BY <1>t, <2>1, <2>4 DEF AtmInv
<1>3. ASSUME NEW c \in Vcc, CreateVcc(c) PROVE AtmInv'
  <2>1. /\ Hold(c) /\ vcs' = vcs \cup {c} /\ vps' = vps /\ releasing' = releasing
        /\ hidden' = hidden
        /\ \A d \in vps : ~(d.input = c.input /\ d.vpi_in = c.vpi_in)
        /\ \A d \in vcs : ~(d.input = c.input /\ d.vpi_in = c.vpi_in /\ d.vci_in = c.vci_in)
    BY <1>3 DEF CreateVcc, VpLookup, VcLookup, Hold
  <2>2. c \notin L
    BY <2>1, <1>t, <1>d
  <2>3. Kept(L \cup {c})
    BY <1>t, <1>r, <2>1, <2>2, HoldKept
  <2>4. HeldOK(Conns(vps \cup vcs), nios, refs, rxl, failed)'
    <3>1. (vps \cup vcs)' = L \cup {c}
      BY <2>1
    <3> QED
      BY <2>3, <3>1 DEF Kept, Conns
  <2> QED
    BY <1>t, <2>1, <2>4 DEF AtmInv
<1>4. ASSUME NEW c \in Vpc \cup Vcc, HoldFails(c), UNCHANGED tables
      PROVE  AtmInv'
  <2>1. Kept(L)
    BY <1>4, <1>t, HoldFailsKept
  <2>2. releasing' \subseteq (Vpc \cup Vcc) \X {"deleted", "failed"}
    BY <1>4, <1>t DEF HoldFails
  <2> QED
    BY <1>4, <2>1, <2>2, AtmReleasing
<1>5. ASSUME NEW c \in Vpc, DeleteVpc(c) PROVE AtmInv'
  <2>1. /\ c \in vps /\ Unhold(c) /\ vps' = vps \ {c} /\ vcs' = vcs /\ hidden' = hidden
        /\ releasing' = releasing \cup {<<c, "deleted">>}
    BY <1>5 DEF DeleteVpc, Unhold
  <2>2. Kept(L \ {c})
    BY <1>t, <1>r, <2>1, UnholdKept
  <2>3. (vps \cup vcs)' = L \ {c}
    BY <2>1, <1>t, <1>d
  <2>4. HeldOK(Conns(vps \cup vcs), nios, refs, rxl, failed)'
    BY <2>2, <2>3 DEF Kept, Conns
  <2> QED
    BY <1>t, <2>1, <2>4 DEF AtmInv
<1>6. ASSUME NEW c \in Vcc, DeleteVcc(c) PROVE AtmInv'
  <2>1. /\ c \in vcs /\ Unhold(c) /\ vcs' = vcs \ {c} /\ vps' = vps /\ hidden' = hidden \ {c}
        /\ releasing' = releasing \cup {<<c, "deleted">>}
    BY <1>6 DEF DeleteVcc, Unhold
  <2>2. Kept(L \ {c})
    BY <1>t, <1>r, <2>1, UnholdKept
  <2>3. (vps \cup vcs)' = L \ {c}
    BY <2>1, <1>t, <1>d
  <2>4. HeldOK(Conns(vps \cup vcs), nios, refs, rxl, failed)'
    BY <2>2, <2>3 DEF Kept, Conns
  <2> QED
    BY <1>t, <2>1, <2>4 DEF AtmInv
<1>7. ASSUME NEW c \in Vpc \cup Vcc, NEW why \in {"deleted", "failed"},
             ReleaseConn(c, why), UNCHANGED tables
      PROVE  AtmInv'
  <2>1. Kept(L)
    BY <1>7, <1>t, ReleaseKept
  <2>2. releasing' \subseteq (Vpc \cup Vcc) \X {"deleted", "failed"}
    BY <1>7, <1>t DEF ReleaseConn
  <2> QED
    BY <1>7, <2>1, <2>2, AtmReleasing
<1>8. ASSUME DeleteTables PROVE AtmInv'
  <2>1. ReleaseAll(L) /\ vps' = {} /\ vcs' = {} /\ hidden' = {} /\ releasing' = releasing
    BY <1>8 DEF DeleteTables, ReleaseAll
  <2>2. Kept({})
    BY <1>t, <2>1, ReleaseAllKept
  <2>3. (vps \cup vcs)' = {}
    BY <2>1
  <2>4. HeldOK(Conns(vps \cup vcs), nios, refs, rxl, failed)'
    BY <2>2, <2>3 DEF Kept, Conns
  <2> QED
    BY <1>t, <2>1, <2>4 DEF AtmInv
<1>9. ASSUME NEW c \in Vpc, CreateVpcFails(c) PROVE AtmInv'
  BY <1>9, <1>4 DEF CreateVpcFails
<1>10. ASSUME NEW c \in Vcc, CreateVccFails(c) PROVE AtmInv'
  BY <1>10, <1>4 DEF CreateVccFails
<1> QED
  BY <1>1, <1>2, <1>3, <1>5, <1>6, <1>7, <1>8, <1>9, <1>10 DEF AtmNext
-----------------------------------------------------------------------------
(* The ATM bridge.                                                         *)

\* A bridge listens to its ends at most.
LEMMA HeardValue ==
  ASSUME NEW c \in Confs \cup {NoConf}, NEW n
  PROVE  HeardAt(c, n) \in Nat /\ HeardAt(c, n) <= EndsAt(c, n)
<1> DEFINE H == {k \in c.heard : c[k] = n}
           E == {k \in {"input", "output"} : c[k] = n}
<1>1. c.heard \subseteq {"input", "output"}
  BY DEF Confs, NoConf
<1>2. IsFiniteSet({"input", "output"})
  <2>1. IsFiniteSet({"input"})
    BY FS_Singleton
  <2>2. {"input", "output"} = {"input"} \cup {"output"}
    OBVIOUS
  <2> QED
    BY <2>1, <2>2, FS_AddElement
<1>3. H \subseteq E /\ IsFiniteSet(E)
  BY <1>1, <1>2, FS_Subset
<1>4. IsFiniteSet(H) /\ Cardinality(H) <= Cardinality(E)
  BY <1>3, FS_Subset
<1>5. HeardAt(c, n) = Cardinality(H) /\ EndsAt(c, n) = Cardinality(E)
  BY Zenon DEF HeardAt, EndsAt
<1> QED
  BY <1>4, <1>5, FS_CardinalityType

\* No reference to a NIO that does not exist.
ConfInv ==
  /\ nios \subseteq Netio /\ refs \in [Netio -> Nat] /\ rxl \in [Netio -> Nat]
  /\ conf \in Confs \cup {NoConf}
  /\ conf # NoConf => {conf.input, conf.output} \subseteq nios
  /\ \A n \in Netio \ nios : refs[n] = 0
  /\ ConfHeld

\* Every step of an ATM bridge.
LEMMA ConfStepInv ==
  ASSUME ConfInv, BridgeNext
  PROVE  ConfInv'
<1>0. NoNetio \notin Netio
  BY SwitchesAssumption DEF BridgeAssumption, CircuitsAssumption
<1>t. /\ nios \subseteq Netio /\ refs \in [Netio -> Nat] /\ rxl \in [Netio -> Nat]
      /\ conf \in Confs \cup {NoConf}
      /\ conf # NoConf => {conf.input, conf.output} \subseteq nios
      /\ \A n \in Netio \ nios : refs[n] = 0
      /\ \A n \in Netio : /\ rxl[n] = HeardAt(conf, n) /\ refs[n] >= EndsAt(conf, n)
                          /\ n \notin failed => refs[n] = EndsAt(conf, n)
  <2>1. ConfHeld
    BY Zenon DEF ConfInv
  <2>2. nios \subseteq Netio /\ refs \in [Netio -> Nat] /\ rxl \in [Netio -> Nat]
    BY Zenon DEF ConfInv
  <2>3. conf \in Confs \cup {NoConf}
    BY Zenon DEF ConfInv
  <2>4. conf # NoConf => {conf.input, conf.output} \subseteq nios
    BY Zenon DEF ConfInv
  <2>5. \A n \in Netio \ nios : refs[n] = 0
    BY Zenon DEF ConfInv
  <2> QED
    BY Zenon, <2>1, <2>2, <2>3, <2>4, <2>5 DEF ConfHeld
<1>n. \A n \in Netio : EndsAt(NoConf, n) = 0
  BY <1>0, EndsAtValue DEF NoConf
<1>m. \A n \in Netio : HeardAt(NoConf, n) = 0
  BY FS_EmptySet DEF HeardAt, NoConf
<1>c. \A c, n : EndsAt(c, n) \in Nat
  BY EndsAtValue
<1>h. \A c \in Confs \cup {NoConf}, n \in Netio :
        HeardAt(c, n) \in Nat /\ HeardAt(c, n) <= EndsAt(c, n)
  BY HeardValue
<1>e. \A n \in Netio : EndsAt(conf, n) = 0 => conf = NoConf \/ (conf.input # n /\ conf.output # n)
  BY EndsAtValue
<1>1. ASSUME NEW n \in Netio, NioCreate(n) \/ NioDelete(n), conf' = conf PROVE ConfInv'
  <2>1. CASE NioCreate(n)
    <3>1. /\ n \notin nios /\ nios' = nios \cup {n} /\ failed' = failed \ {n}
          /\ refs' = refs /\ rxl' = rxl
      BY <2>1 DEF NioCreate, held
    <3>2. refs[n] = EndsAt(conf, n)
      BY <3>1, <1>t, <1>c
    <3> QED
      BY <1>1, <1>t, <3>1, <3>2 DEF ConfInv, ConfHeld
  <2>2. CASE NioDelete(n)
    <3>1. /\ refs[n] = 0 /\ nios' = nios \ {n} /\ failed' = failed
          /\ refs' = refs /\ rxl' = rxl
      BY <2>2 DEF NioDelete, held
    <3>2. EndsAt(conf, n) = 0
      BY <3>1, <1>t, <1>c
    <3>3. conf # NoConf => {conf.input, conf.output} \subseteq nios'
      BY <3>1, <3>2, <1>e, <1>t
    <3> QED
      BY <1>1, <1>t, <3>1, <3>3 DEF ConfInv, ConfHeld
  <2> QED
    BY <1>1, <2>1, <2>2
<1>2. ASSUME NEW n \in Netio, ConfigureFails(n) PROVE ConfInv'
  <2>1. /\ n \in nios /\ nios' = nios /\ failed' = failed \cup {n}
        /\ refs' = [refs EXCEPT ![n] = @ + 1] /\ rxl' = rxl /\ conf' = conf
    BY <1>2 DEF ConfigureFails
  <2>2. refs' \in [Netio -> Nat] /\ \A m \in Netio : refs'[m] = IF m = n THEN refs[m] + 1 ELSE refs[m]
    BY <2>1, <1>t
  <2> QED
    BY <2>1, <2>2, <1>t, <1>c DEF ConfInv, ConfHeld
<1>3. ASSUME NEW c \in Confs, Configure(c) PROVE ConfInv'
  <2>1. /\ conf = NoConf /\ {c.input, c.output} \subseteq nios /\ conf' = c
        /\ nios' = nios /\ failed' = failed
        /\ \A n \in Netio : refs'[n] = refs[n] + EndsAt(c, n) /\ rxl'[n] = rxl[n] + HeardAt(c, n)
    BY <1>3 DEF Configure, Acquire
  <2>2. refs' \in [Netio -> Nat] /\ rxl' \in [Netio -> Nat]
    <3>1. /\ refs' = [n \in Netio |-> refs[n] + EndsAt(c, n)]
          /\ rxl' = [n \in Netio |-> rxl[n] + HeardAt(c, n)]
      BY <1>3 DEF Configure, Acquire
    <3> QED
      BY <3>1, <1>t, <1>c, <1>h
  <2>3. \A n \in Netio \ nios : EndsAt(c, n) = 0
    BY <2>1, EndsAtValue
  <2>4. \A n \in Netio \ nios : refs'[n] = 0
    <3> SUFFICES ASSUME NEW n \in Netio \ nios PROVE refs'[n] = 0
      OBVIOUS
    <3>1. refs'[n] = refs[n] + EndsAt(c, n) /\ EndsAt(c, n) = 0 /\ refs[n] = 0
      BY Zenon, <2>1, <2>3, <1>t
    <3> QED
      BY <3>1
  <2>5. \A n \in Netio : rxl[n] = 0 /\ HeardAt(c, n) \in Nat /\ HeardAt(c, n) <= EndsAt(c, n)
    <3>1. \A n \in Netio : rxl[n] = HeardAt(NoConf, n)
      BY Zenon, <2>1, <1>t
    <3> QED
      BY Zenon, <3>1, <1>m, <1>h
  <2> QED
    BY <2>1, <2>2, <2>4, <2>5, <1>t, <1>n, <1>c DEF ConfInv, ConfHeld
<1>4. ASSUME conf' = NoConf, nios' = nios, failed' = failed, refs' = Release(conf),
             rxl' = [n \in Netio |-> Unlisten(n, EndsAt(conf, n))]
      PROVE  ConfInv'
  <2>1. \A n \in Netio : refs'[n] = refs[n] - EndsAt(conf, n) /\ refs'[n] \in Nat /\ rxl'[n] = 0
    <3> SUFFICES ASSUME NEW n \in Netio
                 PROVE  refs'[n] = refs[n] - EndsAt(conf, n) /\ refs'[n] \in Nat /\ rxl'[n] = 0
      OBVIOUS
    <3>1. refs'[n] = refs[n] - EndsAt(conf, n)
      BY <1>4 DEF Release
    <3>2. rxl'[n] = IF rxl[n] <= EndsAt(conf, n) THEN 0 ELSE rxl[n] - EndsAt(conf, n)
      BY <1>4 DEF Unlisten
    <3>3. rxl[n] = HeardAt(conf, n) /\ refs[n] >= EndsAt(conf, n) /\ refs[n] \in Nat
      BY <1>t
    <3>4. HeardAt(conf, n) <= EndsAt(conf, n) /\ EndsAt(conf, n) \in Nat
      BY Zenon, <1>t, <1>h, <1>c
    <3> QED
      BY <3>1, <3>2, <3>3, <3>4
  <2>2. refs' \in [Netio -> Nat] /\ rxl' \in [Netio -> Nat]
    BY <1>4, <2>1 DEF Release
  <2>3. \A n \in Netio \ nios : refs'[n] = 0
    BY <2>1, <1>t, <1>c
  <2> QED
    BY <1>4, <2>1, <2>2, <2>3, <1>t, <1>n, <1>c, <1>m DEF ConfInv, ConfHeld
<1>5. ASSUME UNCHANGED <<nios, held, failed, conf>> PROVE ConfInv'
  BY <1>5 DEF ConfInv, ConfHeld, held
<1>6. ASSUME Unconfigure PROVE ConfInv'
  BY <1>4, <1>6 DEF Unconfigure
<1>7. ASSUME Replace PROVE ConfInv'
  BY <1>4, <1>7 DEF Replace
<1> QED
  BY <1>1, <1>2, <1>3, <1>5, <1>6, <1>7 DEF BridgeNext

-----------------------------------------------------------------------------
(* The NIO bridge.                                                         *)

SlotsAt(n) == {i \in BridgeSlot : slots[i] = n}

\* No more listeners than slots; as many unless one could not be added.
Listened(n) == rxl[n] <= refs[n] /\ (n \notin failed => rxl[n] = refs[n])

\* The slots hold NIOs that exist, each counted as often as it is held.
SlotsInv ==
  /\ nios \subseteq Netio /\ refs \in [Netio -> Nat] /\ rxl \in [Netio -> Nat]
  /\ slots \in [BridgeSlot -> nios \cup {NoNetio}]
  /\ \A n \in Netio : refs[n] = Cardinality(SlotsAt(n)) /\ Listened(n)

\* The slots of a NIO can be counted.
LEMMA SlotsFinite ==
  ASSUME NEW n
  PROVE  IsFiniteSet(SlotsAt(n)) /\ Cardinality(SlotsAt(n)) \in Nat
<1>1. MaxBridge \in Nat
  BY SwitchesAssumption DEF SlotsAssumption
<1>2. IsFiniteSet(1 .. MaxBridge)
  BY <1>1, FS_Interval
<1>3. SlotsAt(n) \subseteq 1 .. MaxBridge
  BY DEF SlotsAt, BridgeSlot
<1> QED
  BY <1>2, <1>3, FS_Subset, FS_CardinalityType

\* netio_bridge_add_netio and netio_bridge_remove_netio find a slot.
LEMMA FirstSlot ==
  ASSUME NEW n, Holds(n)
  PROVE  First(n) \in BridgeSlot /\ slots[First(n)] = n
<1>1. SlotsAt(n) \subseteq Nat /\ SlotsAt(n) # {}
  BY SwitchesAssumption DEF SlotsAt, BridgeSlot, Holds, SlotsAssumption
<1>2. PICK i \in SlotsAt(n) : \A j \in SlotsAt(n) : i <= j
  BY <1>1, LeastNat
<1>3. i \in BridgeSlot /\ slots[i] = n /\ i \in 1 .. MaxBridge
  BY <1>2 DEF SlotsAt, BridgeSlot
<1>4. \A j \in 1 .. (i - 1) : slots[j] # n
  <2> SUFFICES ASSUME NEW j \in 1 .. (i - 1), slots[j] = n PROVE FALSE
    OBVIOUS
  <2>1. j \in 1 .. MaxBridge /\ j < i
    BY <1>3, SwitchesAssumption DEF SlotsAssumption
  <2>2. j \in SlotsAt(n)
    BY <2>1 DEF SlotsAt, BridgeSlot
  <2> QED
    BY <2>1, <2>2, <1>2, <1>3, SwitchesAssumption DEF SlotsAssumption
<1>5. \E k \in BridgeSlot : slots[k] = n /\ \A j \in 1 .. (k - 1) : slots[j] # n
  BY <1>3, <1>4
<1> QED
  BY <1>5 DEF First

\* A packet goes out once for each slot of another NIO.
LEMMA SlotsOK == SlotsInv => SlotsHeld
<1> SUFFICES ASSUME SlotsInv, NEW n \in Netio
             PROVE  /\ refs[n] = Cardinality(SlotsAt(n)) /\ Listened(n)
                    /\ \A m \in Netio : Copies(n, m) = IF m = n THEN 0 ELSE refs[m]
  BY DEF SlotsHeld, SlotsAt, Listened
<1>1. ASSUME NEW m \in Netio PROVE Copies(n, m) = IF m = n THEN 0 ELSE refs[m]
  <2>1. CASE m = n
    <3>1. {i \in BridgeSlot : slots[i] = m /\ slots[i] # n} = {}
      BY <2>1
    <3> QED
      BY <2>1, <3>1, FS_EmptySet DEF Copies
  <2>2. CASE m # n
    <3>1. {i \in BridgeSlot : slots[i] = m /\ slots[i] # n} = SlotsAt(m)
      BY <2>2 DEF SlotsAt
    <3> QED
      BY <2>2, <3>1 DEF Copies, SlotsInv
  <2> QED
    BY <2>1, <2>2
<1> QED
  BY <1>1 DEF SlotsInv

\* Every step of a NIO bridge.
LEMMA SlotsStepInv ==
  ASSUME SlotsInv, SlotsNext
  PROVE  SlotsInv'
<1>0. NoNetio \notin Netio
  BY SwitchesAssumption DEF SlotsAssumption, CircuitsAssumption
<1>t. /\ nios \subseteq Netio /\ refs \in [Netio -> Nat] /\ rxl \in [Netio -> Nat]
      /\ slots \in [BridgeSlot -> nios \cup {NoNetio}]
      /\ \A n \in Netio : refs[n] = Cardinality(SlotsAt(n)) /\ Listened(n)
  BY DEF SlotsInv
<1>1. ASSUME NEW n \in Netio, NioCreate(n) \/ NioDelete(n), slots' = slots PROVE SlotsInv'
  <2>1. refs' = refs /\ rxl' = rxl /\ \A m : SlotsAt(m)' = SlotsAt(m)
    BY <1>1 DEF NioCreate, NioDelete, held, SlotsAt
  <2>2. CASE NioCreate(n)
    <3>1. n \notin nios /\ nios' = nios \cup {n} /\ failed' = failed \ {n}
      BY <2>2 DEF NioCreate
    <3>2. SlotsAt(n) = {}
      BY <3>1, <1>t, <1>0 DEF SlotsAt
    <3>3. refs[n] = 0 /\ rxl[n] = 0
      BY <3>2, <1>t, FS_EmptySet DEF Listened
    <3> QED
      BY <1>1, <1>t, <2>1, <3>1, <3>3 DEF SlotsInv, Listened
  <2>3. CASE NioDelete(n)
    <3>1. Cardinality(SlotsAt(n)) = 0 /\ nios' = nios \ {n} /\ failed' = failed
      BY <2>3, <1>t DEF NioDelete
    <3>2. SlotsAt(n) = {}
      BY <3>1, SlotsFinite, FS_EmptySet
    <3>3. slots \in [BridgeSlot -> nios' \cup {NoNetio}]
      BY <3>1, <3>2, <1>t DEF SlotsAt
    <3> QED
      BY <1>1, <1>t, <2>1, <3>1, <3>3 DEF SlotsInv, Listened
  <2> QED
    BY <1>1, <2>2, <2>3
<1>2. ASSUME NEW n \in Netio, BridgeAddNetio(n) PROVE SlotsInv'
  <2> DEFINE i == First(NoNetio)
  <2>1. /\ n \in nios /\ slots' = [slots EXCEPT ![i] = n] /\ nios' = nios
        /\ refs' = [refs EXCEPT ![n] = @ + 1]
        /\ \/ rxl' = [rxl EXCEPT ![n] = @ + 1] /\ failed' = failed
           \/ rxl' = rxl /\ failed' = failed \cup {n}
    BY <1>2 DEF BridgeAddNetio
  <2>2. i \in BridgeSlot /\ slots[i] = NoNetio
    BY <1>2, FirstSlot DEF BridgeAddNetio
  <2> HIDE DEF i
  <2>3. /\ SlotsAt(n)' = SlotsAt(n) \cup {i} /\ i \notin SlotsAt(n)
        /\ \A m \in Netio : m # n => SlotsAt(m)' = SlotsAt(m)
    BY <2>1, <2>2, <1>0, <1>t DEF SlotsAt
  <2>4. Cardinality(SlotsAt(n) \cup {i}) = Cardinality(SlotsAt(n)) + 1
    BY <2>3, SlotsFinite, FS_AddElement
  <2>5. slots' \in [BridgeSlot -> nios \cup {NoNetio}]
    BY <2>1, <2>2, <1>t
  <2>6. /\ refs' \in [Netio -> Nat] /\ rxl' \in [Netio -> Nat]
        /\ \A m \in Netio : refs'[m] = IF m = n THEN refs[m] + 1 ELSE refs[m]
    BY <2>1, <1>t
  <2>7. \A m \in Netio : Listened(m)'
    BY <2>1, <1>t DEF Listened
  <2> QED
    BY <1>t, <2>1, <2>3, <2>4, <2>5, <2>6, <2>7 DEF SlotsInv
<1>3. ASSUME NEW n \in Netio, BridgeRemoveNetio(n) PROVE SlotsInv'
  <2> DEFINE i == First(n)
  <2>1. /\ n \in nios /\ slots' = [slots EXCEPT ![i] = NoNetio] /\ nios' = nios
        /\ refs' = [refs EXCEPT ![n] = @ - 1]
        /\ rxl' = [rxl EXCEPT ![n] = IF rxl[n] <= 1 THEN 0 ELSE rxl[n] - 1]
        /\ failed' = failed
    BY <1>3 DEF BridgeRemoveNetio, Unlisten
  <2>2. i \in BridgeSlot /\ slots[i] = n
    BY <1>3, FirstSlot DEF BridgeRemoveNetio
  <2> HIDE DEF i
  <2>3. /\ SlotsAt(n)' = SlotsAt(n) \ {i} /\ i \in SlotsAt(n)
        /\ \A m \in Netio : m # n => SlotsAt(m)' = SlotsAt(m)
    BY <2>1, <2>2, <1>0, <1>t DEF SlotsAt
  <2>4. Cardinality(SlotsAt(n) \ {i}) = Cardinality(SlotsAt(n)) - 1 /\ Cardinality(SlotsAt(n)) # 0
    BY <2>3, SlotsFinite, FS_RemoveElement, FS_EmptySet
  <2>5. slots' \in [BridgeSlot -> nios \cup {NoNetio}]
    BY <2>1, <2>2, <1>t
  <2>6. refs[n] # 0 /\ refs[n] \in Nat /\ rxl[n] \in Nat
    BY <1>t, <2>4
  <2>7. /\ refs' \in [Netio -> Nat] /\ rxl' \in [Netio -> Nat]
        /\ \A m \in Netio : refs'[m] = IF m = n THEN refs[m] - 1 ELSE refs[m]
    BY <2>1, <1>t, <2>6
  <2>8. \A m \in Netio : Listened(m)'
    BY <2>1, <1>t, <2>6 DEF Listened
  <2> QED
    BY <1>t, <2>1, <2>3, <2>4, <2>5, <2>7, <2>8 DEF SlotsInv
<1>4. ASSUME FreeBridge PROVE SlotsInv'
  <2>1. /\ slots' = [j \in BridgeSlot |-> NoNetio] /\ nios' = nios
        /\ refs' = [n \in Netio |-> refs[n] - Cardinality(SlotsAt(n))]
        /\ rxl' = [n \in Netio |-> IF rxl[n] <= Cardinality(SlotsAt(n)) THEN 0
                                 ELSE rxl[n] - Cardinality(SlotsAt(n))]
    BY <1>4 DEF FreeBridge, SlotsAt, Unlisten
  <2>2. \A n \in Netio : refs'[n] = 0 /\ rxl'[n] = 0
    BY <2>1, <1>t DEF Listened
  <2>3. refs' \in [Netio -> Nat] /\ rxl' \in [Netio -> Nat]
    BY <2>1, <2>2
  <2>4. \A n \in Netio : SlotsAt(n)' = {}
    BY <2>1, <1>0 DEF SlotsAt
  <2> QED
    <3>1. slots' \in [BridgeSlot -> nios' \cup {NoNetio}]
      BY <2>1
    <3>2. \A n \in Netio : refs'[n] = Cardinality(SlotsAt(n)') /\ Listened(n)'
      BY <2>2, <2>4, FS_EmptySet DEF Listened
    <3> QED
      BY <1>t, <2>1, <2>3, <3>1, <3>2 DEF SlotsInv
<1> QED
  BY <1>1, <1>2, <1>3, <1>4 DEF SlotsNext

-----------------------------------------------------------------------------
(* FIFO NIOs.  A FIFO that lives points to a FIFO that points back, or will  *)
(* as soon as the second half of the cross-connect is done; a sender keeps   *)
(* the endpoint it looked at.                                                *)
Senders ==
  \A f \in FifoNio :
    sending[f] # NoNetio => f \in live /\ sending[f] = endpoint[f]
Crossings ==
  \A f, g \in FifoNio :
    <<f, g>> \in crossing =>
      /\ f \in live /\ g \in live /\ f # g
      /\ endpoint[f] = g /\ endpoint[g] \in {f, NoNetio}
Peers ==
  /\ \A f, g \in live : endpoint[f] = endpoint[g] /\ endpoint[f] # NoNetio => f = g
  /\ \A f \in live :
    endpoint[f] # NoNetio =>
      /\ endpoint[f] \in live /\ endpoint[f] # f
      /\ \/ endpoint[endpoint[f]] = f
         \/ endpoint[endpoint[f]] = NoNetio /\ <<f, endpoint[f]>> \in crossing
Queued ==
  \A f \in live :
    endpoint[f] # NoNetio => \A i \in DOMAIN queue[f] : queue[f][i] = endpoint[f]

FifoInv == FifoTypeOK /\ Senders /\ Crossings /\ Peers /\ Queued

\* The elements of a sequence with one more at the end.
LEMMA AppendSeq ==
  ASSUME NEW S, NEW s \in Seq(S), NEW e \in S
  PROVE  /\ Append(s, e) \in Seq(S)
         /\ \A i \in DOMAIN Append(s, e) :
              Append(s, e)[i] = e \/ (i \in DOMAIN s /\ Append(s, e)[i] = s[i])
<1>1. /\ Append(s, e) \in Seq(S)
      /\ DOMAIN s = 1..Len(s) /\ Len(s) \in Nat
      /\ DOMAIN Append(s, e) = 1..Len(s) + 1
      /\ \A i \in 1..Len(s) : Append(s, e)[i] = s[i]
      /\ Append(s, e)[Len(s) + 1] = e
  OBVIOUS
<1> QED
  BY <1>1

\* Every step of FIFO NIOs that are cross-connected once.
LEMMA FifoStepInv ==
  ASSUME ~Recross, FifoInv, FifoNext
  PROVE  FifoInv'
<1>n. NoNetio \notin FifoNio
  BY SwitchesAssumption DEF FifoAssumption
<1>t. FifoTypeOK
  BY DEF FifoInv
<1>c. \A x \in crossing : \E f, g \in FifoNio : x = <<f, g>>
  BY <1>t DEF FifoTypeOK
<1>1. ASSUME NEW f \in FifoNio, Create(f) PROVE FifoInv'
  BY <1>1, <1>t DEF FifoInv, FifoTypeOK, Senders, Crossings, Peers, Queued, Create
<1>2. ASSUME NEW f \in FifoNio, SendBegin(f) PROVE FifoInv'
  BY <1>2, <1>t DEF FifoInv, FifoTypeOK, Senders, Crossings, Peers, Queued, SendBegin
<1>3. ASSUME NEW f \in FifoNio, SendEnd(f) PROVE FifoInv'
  <2> DEFINE g == sending[f]
  <2>1. f \in live /\ g = endpoint[f] /\ g \in FifoNio
    BY <1>3, <1>t DEF FifoInv, SendEnd, Senders, FifoTypeOK
  <2>2. queue' = [queue EXCEPT ![g] = Append(queue[g], f)] /\ queue[g] \in Seq(FifoNio)
    BY <1>3, <2>1, <1>t DEF SendEnd, FifoTypeOK
  <2> HIDE DEF g
  <2>3. /\ Append(queue[g], f) \in Seq(FifoNio)
        /\ \A i \in DOMAIN Append(queue[g], f) :
             \/ Append(queue[g], f)[i] = f
             \/ i \in DOMAIN queue[g] /\ Append(queue[g], f)[i] = queue[g][i]
    BY <2>2, AppendSeq
  <2> USE DEF g
  <2>4. FifoTypeOK' /\ Senders' /\ Crossings' /\ Peers'
    BY <1>3, <1>t, <2>3, <2>2 DEF FifoInv, FifoTypeOK, Senders, Crossings, Peers, SendEnd
  <2>5. Queued'
    <3>1. endpoint[g] # NoNetio => endpoint[g] = f
      BY <2>1, <1>n, <1>t DEF FifoInv, Peers, FifoTypeOK
    <3>2. UNCHANGED <<live, endpoint>>
      BY <1>3 DEF SendEnd
    <3>3. \A h \in live : h # g => queue'[h] = queue[h]
      BY <2>2, <1>t DEF FifoTypeOK
    <3>4. queue'[g] = Append(queue[g], f)
      BY <2>2, <2>1, <1>t DEF FifoTypeOK
    <3> SUFFICES ASSUME NEW h \in live, endpoint[h] # NoNetio, NEW i \in DOMAIN queue'[h]
                 PROVE  queue'[h][i] = endpoint[h]
      BY <3>2 DEF Queued
    <3>5. \A j \in DOMAIN queue[h] : queue[h][j] = endpoint[h]
      BY DEF Queued, FifoInv
    <3>6. CASE h = g
      BY <3>1, <3>4, <3>5, <3>6, <2>3
    <3>7. CASE h # g
      BY <3>3, <3>5, <3>7
    <3> QED
      BY <3>6, <3>7
  <2> QED
    BY <2>4, <2>5 DEF FifoInv
<1>4. ASSUME NEW f \in FifoNio, Recv(f) PROVE FifoInv'
  BY <1>4, <1>t DEF FifoInv, FifoTypeOK, Senders, Crossings, Peers, Queued, Recv
<1>5. ASSUME NEW f \in FifoNio, Free(f) PROVE FifoInv'
  <2>1. FifoTypeOK'
    BY <1>5, <1>t DEF Free, FifoTypeOK
  <2>2. \A g \in FifoNio : <<f, g>> \notin crossing /\ <<g, f>> \notin crossing
    BY <1>5 DEF Free, Unused
  <2>3. \A g \in live : endpoint[g] = f => g = endpoint[f]
    BY <1>5, <2>2, <1>n, <1>t DEF Free, FifoInv, Peers, FifoTypeOK
  <2>4. \A g \in FifoNio : endpoint'[g] = IF g = endpoint[f] THEN NoNetio ELSE endpoint[g]
    BY <1>5 DEF Free
  <2>5. live' = live \ {f} /\ UNCHANGED <<crossing, sending>> /\ sending[f] = NoNetio
    BY <1>5 DEF Free, Unused
  <2>6. Senders'
    BY <1>5, <2>4, <2>5, <1>n, <1>t DEF FifoInv, Senders, Free, FifoTypeOK
  <2>7. Crossings'
    <3> SUFFICES ASSUME NEW a \in FifoNio, NEW b \in FifoNio, <<a, b>> \in crossing
                 PROVE  /\ a \in live' /\ b \in live' /\ a # b
                        /\ endpoint'[a] = b /\ endpoint'[b] \in {a, NoNetio}
      BY <2>5 DEF Crossings
    <3>1. a \in live /\ b \in live /\ a # b /\ endpoint[a] = b /\ endpoint[b] \in {a, NoNetio}
      BY DEF FifoInv, Crossings
    <3>2. a # f /\ b # f
      BY <2>2
    <3>3. a # endpoint[f]
      BY <3>1, <3>2, <2>2, <1>5, <1>n DEF FifoInv, Peers, Free
    <3> QED
      BY <3>1, <3>2, <3>3, <2>4, <2>5
  <2>8. Peers'
    <3> SUFFICES ASSUME NEW a \in live, a # f, endpoint'[a] # NoNetio
                 PROVE  /\ endpoint'[a] \in live /\ endpoint'[a] # f /\ endpoint'[a] # a
                        /\ \/ endpoint'[endpoint'[a]] = a
                           \/ endpoint'[endpoint'[a]] = NoNetio /\ <<a, endpoint'[a]>> \in crossing
      <4>1. \A a, b \in live' : endpoint'[a] = endpoint'[b] /\ endpoint'[a] # NoNetio => a = b
        BY <2>4, <2>5, <1>t DEF FifoInv, Peers, FifoTypeOK
      <4> QED
        BY <4>1, <2>5 DEF Peers
    <3>0. a \in FifoNio /\ live \subseteq FifoNio
      BY <1>t DEF FifoTypeOK
    <3>1. endpoint'[a] = endpoint[a] /\ a # endpoint[f]
      BY <2>4, <3>0
    <3>2. /\ endpoint[a] \in live /\ endpoint[a] # a
          /\ \/ endpoint[endpoint[a]] = a
             \/ endpoint[endpoint[a]] = NoNetio /\ <<a, endpoint[a]>> \in crossing
      BY <3>1 DEF FifoInv, Peers
    <3>3. endpoint[a] # f
      BY <3>1, <2>3
    <3>4. endpoint[a] = endpoint[f] => endpoint[endpoint[f]] = f
      BY <3>1, <2>2, <1>n, <1>5, <3>2, <3>0 DEF FifoInv, Peers, Free
    <3>5. endpoint'[endpoint[a]] = endpoint[endpoint[a]] \/ endpoint[a] = endpoint[f]
      BY <2>4, <3>2, <3>0
    <3> QED
      BY <3>1, <3>2, <3>3, <3>4, <3>5, <1>n, <3>0
  <2>9. Queued'
    <3>1. \A h \in live' : queue'[h] = queue[h]
      BY <1>5, <2>5, <1>t DEF Free, FifoTypeOK
    <3> QED
      BY <3>1, <2>4, <2>5, <1>t DEF FifoInv, Queued, FifoTypeOK
  <2> QED
    BY <2>1, <2>6, <2>7, <2>8, <2>9 DEF FifoInv
<1>6. ASSUME NEW f \in FifoNio, NEW g \in FifoNio, Crossconnect(f, g) PROVE FifoInv'
  <2>0. f \in live /\ g \in live /\ f # g /\ ~Taken(f, g) /\ sending[f] = NoNetio
    BY <1>6 DEF Crossconnect, Point
  <2>1. /\ endpoint' = [endpoint EXCEPT ![f] = g] /\ queue' = [queue EXCEPT ![f] = <<>>]
        /\ crossing' = crossing \cup {<<f, g>>} /\ UNCHANGED <<live, sending>>
    BY <1>6 DEF Crossconnect, Point
  <2>2. endpoint[f] \in {g, NoNetio} /\ endpoint[g] \in {f, NoNetio}
    BY <2>0 DEF Taken
  <2>3. \A h, k \in FifoNio :
          <<h, k>> \in crossing => {h, k} = {f, g} \/ (h \notin {f, g} /\ k \notin {f, g})
    <3> SUFFICES ASSUME NEW h \in FifoNio, NEW k \in FifoNio, <<h, k>> \in crossing
                 PROVE  {h, k} = {f, g} \/ (h \notin {f, g} /\ k \notin {f, g})
      OBVIOUS
    <3>1. {<<h, k>>[1], <<h, k>>[2]} \cap {f, g} \in {{}, {f, g}}
      BY <2>0 DEF Taken
    <3>2. CASE {h, k} \cap {f, g} = {}
      BY <3>2
    <3>3. CASE {h, k} \cap {f, g} = {f, g}
      <4>1. f \in {h, k} /\ g \in {h, k}
        BY <3>3
      <4> QED
        BY <4>1, <2>0
    <3> QED
      BY <3>1, <3>2, <3>3
  <2>4. \A h \in live : h \notin {f, g} => endpoint[h] \notin {f, g}
    <3> SUFFICES ASSUME NEW h \in live, h \notin {f, g}, endpoint[h] \in {f, g} PROVE FALSE
      OBVIOUS
    <3>1. endpoint[h] # NoNetio /\ h \in FifoNio /\ endpoint[h] \in FifoNio
      BY <1>n, <1>t DEF FifoTypeOK
    <3>2. \/ endpoint[endpoint[h]] = h
          \/ endpoint[endpoint[h]] = NoNetio /\ <<h, endpoint[h]>> \in crossing
      BY <3>1 DEF FifoInv, Peers
    <3>3. CASE endpoint[endpoint[h]] = h
      BY <3>3, <2>2, <1>n, <3>1
    <3>4. CASE <<h, endpoint[h]>> \in crossing
      BY <3>4, <2>3, <3>1
    <3> QED
      BY <3>2, <3>3, <3>4
  <2>5. FifoTypeOK'
    BY <2>1, <1>t DEF FifoTypeOK
  <2>6. Senders'
    BY <2>0, <2>1, <1>t DEF FifoInv, Senders, FifoTypeOK
  <2>7. Crossings'
    <3> SUFFICES ASSUME NEW a \in FifoNio, NEW b \in FifoNio, <<a, b>> \in crossing'
                 PROVE  /\ a \in live /\ b \in live /\ a # b
                        /\ endpoint'[a] = b /\ endpoint'[b] \in {a, NoNetio}
      BY <2>1 DEF Crossings
    <3>e. \A h \in FifoNio : endpoint'[h] = IF h = f THEN g ELSE endpoint[h]
      BY <2>1, <1>t DEF FifoTypeOK
    <3>1. CASE <<a, b>> = <<f, g>>
      BY <3>1, <3>e, <2>0, <2>2
    <3>2. CASE <<a, b>> # <<f, g>>
      <4>1. <<a, b>> \in crossing
        BY <3>2, <2>1
      <4>2. a \in live /\ b \in live /\ a # b /\ endpoint[a] = b /\ endpoint[b] \in {a, NoNetio}
        BY <4>1 DEF FifoInv, Crossings
      <4>3. {a, b} = {f, g} \/ (a \notin {f, g} /\ b \notin {f, g})
        BY <4>1, <2>3
      <4> QED
        BY <4>2, <4>3, <3>e, <3>2
    <3> QED
      BY <3>e, <3>1, <3>2
  <2>8. Peers'
    BY <2>0, <2>1, <2>2, <2>4, <1>n, <1>t DEF FifoInv, Peers, FifoTypeOK
  <2>9. Queued'
    <3>1. queue'[f] = <<>> /\ \A h \in live : h # f => queue'[h] = queue[h] /\ endpoint'[h] = endpoint[h]
      BY <2>1, <2>0, <1>t DEF FifoTypeOK
    <3>2. DOMAIN queue'[f] = {}
      BY <3>1
    <3> QED
      BY <3>1, <3>2, <2>1 DEF FifoInv, Queued
  <2> QED
    BY <2>5, <2>6, <2>7, <2>8, <2>9 DEF FifoInv
<1>7. ASSUME NEW f \in FifoNio, NEW g \in FifoNio, CrossconnectBack(f, g) PROVE FifoInv'
  <2>0. f \in live /\ g \in live /\ f # g /\ endpoint[f] = g /\ endpoint[g] \in {f, NoNetio}
    BY <1>7 DEF CrossconnectBack, FifoInv, Crossings
  <2>1. /\ endpoint' = [endpoint EXCEPT ![g] = f] /\ queue' = [queue EXCEPT ![g] = <<>>]
        /\ crossing' = crossing \ {<<f, g>>} /\ UNCHANGED <<live, sending>> /\ sending[g] = NoNetio
    BY <1>7 DEF CrossconnectBack, Point
  <2>5. FifoTypeOK'
    BY <2>1, <1>t DEF FifoTypeOK
  <2>6. Senders'
    BY <2>0, <2>1, <1>t DEF FifoInv, Senders, FifoTypeOK
  <2>7. Crossings'
    <3> SUFFICES ASSUME NEW a \in FifoNio, NEW b \in FifoNio, <<a, b>> \in crossing'
                 PROVE  /\ a \in live /\ b \in live /\ a # b
                        /\ endpoint'[a] = b /\ endpoint'[b] \in {a, NoNetio}
      BY <2>1 DEF Crossings
    <3>e. \A h \in FifoNio : endpoint'[h] = IF h = g THEN f ELSE endpoint[h]
      BY <2>1, <1>t DEF FifoTypeOK
    <3>1. /\ a \in live /\ b \in live /\ a # b /\ endpoint[a] = b
          /\ endpoint[b] \in {a, NoNetio}
      BY <2>1 DEF FifoInv, Crossings
    <3>2. (a = g => b = f) /\ (b = g => a = f)
      BY <3>1, <2>0, <1>n, <1>t DEF FifoInv, Peers, FifoTypeOK
    <3> QED
      BY <3>e, <3>1, <3>2
  <2>8. Peers'
    <3>e. \A h \in live : endpoint'[h] = IF h = g THEN f ELSE endpoint[h]
      BY <2>1, <1>t DEF FifoTypeOK
    <3>1. ASSUME NEW a \in live, a \notin {f, g}, endpoint[a] # NoNetio
          PROVE  endpoint[a] \notin {f, g}
      BY <2>0, <3>1, <1>n, <1>t DEF FifoInv, Peers, FifoTypeOK
    <3>2. \A a, b \in live : endpoint'[a] = endpoint'[b] /\ endpoint'[a] # NoNetio => a = b
      BY <2>0, <3>e, <3>1 DEF FifoInv, Peers
    <3>3. ASSUME NEW a \in live, endpoint'[a] # NoNetio
          PROVE  /\ endpoint'[a] \in live /\ endpoint'[a] # a
                 /\ \/ endpoint'[endpoint'[a]] = a
                    \/ /\ endpoint'[endpoint'[a]] = NoNetio
                       /\ <<a, endpoint'[a]>> \in crossing'
      <4>1. CASE a \in {f, g}
        BY <4>1, <2>0, <3>e
      <4>2. CASE a \notin {f, g}
        <5>1. /\ endpoint'[a] = endpoint[a] /\ endpoint[a] \in live
              /\ endpoint[a] \notin {f, g} /\ endpoint'[endpoint[a]] = endpoint[endpoint[a]]
          BY <4>2, <3>1, <3>3, <3>e DEF FifoInv, Peers
        <5> QED
          BY <5>1, <4>2, <2>1, <3>3 DEF FifoInv, Peers
      <4> QED
        BY <4>1, <4>2
    <3> QED
      BY <3>2, <3>3, <2>1 DEF Peers
  <2>9. Queued'
    <3>1. queue'[g] = <<>> /\ \A h \in live : h # g => queue'[h] = queue[h] /\ endpoint'[h] = endpoint[h]
      BY <2>1, <2>0, <1>t DEF FifoTypeOK
    <3>2. DOMAIN queue'[g] = {}
      BY <3>1
    <3> QED
      BY <3>1, <3>2, <2>1 DEF FifoInv, Queued
  <2> QED
    BY <2>5, <2>6, <2>7, <2>8, <2>9 DEF FifoInv
<1> QED
  BY <1>1, <1>2, <1>3, <1>4, <1>5, <1>6, <1>7 DEF FifoNext

\* What the invariant says of the FIFOs that live.
LEMMA FifoPairedInv == FifoInv => FifosPaired
<1> SUFFICES ASSUME FifoInv, NEW f \in live PROVE
     /\ endpoint[f] \in live \cup {NoNetio} /\ sending[f] \in live \cup {NoNetio}
     /\ endpoint[f] # NoNetio => ToSet(queue[f]) \subseteq {endpoint[f]}
  BY DEF FifosPaired
<1>1. f \in FifoNio
  BY DEF FifoInv, FifoTypeOK
<1>2. endpoint[f] \in live \cup {NoNetio}
  BY DEF FifoInv, Peers
<1>3. sending[f] \in live \cup {NoNetio}
  BY <1>1, <1>2 DEF FifoInv, Senders
<1>4. endpoint[f] # NoNetio => \A x \in ToSet(queue[f]) : x = endpoint[f]
  BY DEF FifoInv, Queued, ToSet
<1> QED
  BY <1>2, <1>3, <1>4

-----------------------------------------------------------------------------
(* The devices together.  The one a behaviour is of keeps its invariant, the *)
(* others rest in their initial states.                                      *)

SwitchesInv ==
  /\ IndInv
  /\ nios \subseteq Netio
  /\ IF device = "frsw" THEN FrInv ELSE TableInit
  /\ IF device = "atmsw" THEN AtmInv ELSE TablesInit
  /\ device = "atm_bridge" => ConfInv
  /\ device = "nio_bridge" => SlotsInv
  /\ Recross \/ FifoInv

\* Nothing is held at first.
LEMMA HeldInitial ==
  ASSUME HeldInit
  PROVE  HeldOK({}, nios, refs, rxl, failed)
<1>1. \A n : EndsOf({}, n) = {} /\ UsersOf({}, n) = {}
  BY DEF EndsOf, UsersOf
<1> QED
  BY <1>1, FS_EmptySet DEF HeldInit, HeldOK

\* The circuits of a new Frame Relay switch.
LEMMA FrInitial == HeldInit /\ TableInit => FrInv
<1> SUFFICES ASSUME HeldInit, TableInit PROVE FrInv
  OBVIOUS
<1>1. chain = [b \in DlciBucket |-> <<>>] /\ conn = [n \in Netio |-> <<>>] /\ dangling = {}
  BY DEF TableInit
<1>2. Vcs = {} /\ \A n \in Netio : VcsOf(n) = {}
  BY <1>1 DEF Vcs, VcsOf, ToSet
<1>3. Conns(Vcs) = {} /\ releasing = {}
  BY <1>2 DEF Conns, HeldInit
<1>4. HeldOK(Conns(Vcs), nios, refs, rxl, failed)
  BY <1>3, HeldInitial
<1>5. ToSet(<<>>) = {} /\ Ascending(<<>>) /\ \A b : ChainOK(<<>>, b)
  BY DEF ToSet, Ascending, ChainOK
<1> QED
  BY <1>1, <1>2, <1>3, <1>4, <1>5 DEF FrInv

\* The tables of a new ATM switch.
LEMMA AtmInitial == HeldInit /\ TablesInit => AtmInv
<1> SUFFICES ASSUME HeldInit, TablesInit PROVE AtmInv
  OBVIOUS
<1>1. vps = {} /\ vcs = {} /\ hidden = {} /\ releasing = {}
  BY DEF TablesInit, HeldInit
<1>2. Conns(vps \cup vcs) = {}
  BY <1>1 DEF Conns
<1>3. HeldOK(Conns(vps \cup vcs), nios, refs, rxl, failed)
  BY <1>2, HeldInitial
<1> QED
  BY <1>1, <1>3 DEF AtmInv

\* The devices in their initial states.
LEMMA SwitchesInitial == SwitchesInit => SwitchesInv
<1> SUFFICES ASSUME SwitchesInit PROVE SwitchesInv
  OBVIOUS
<1>1. /\ Init /\ HeldInit /\ TableInit /\ TablesInit
      /\ conf = NoConf /\ slots = [i \in BridgeSlot |-> NoNetio] /\ FifoInit
  BY DEF SwitchesInit, BridgeInit, SlotsInit
<1>0. NoNetio \notin Netio /\ NoNetio \notin FifoNio
  BY SwitchesAssumption DEF FrAssumption, CircuitsAssumption, FifoAssumption
<1>2. nios = {} /\ refs = [n \in Netio |-> 0] /\ rxl = [n \in Netio |-> 0] /\ failed = {}
  BY <1>1 DEF HeldInit
<1>3. FrInv /\ AtmInv
  BY <1>1, FrInitial, AtmInitial
<1>4. ConfInv
  <2>1. \A n \in Netio : EndsAt(NoConf, n) = 0
    BY <1>0, EndsAtValue DEF NoConf
  <2>3. \A n \in Netio : HeardAt(NoConf, n) = 0
    BY FS_EmptySet DEF HeardAt, NoConf
  <2>2. ConfHeld
    BY <1>1, <1>2, <2>1, <2>3 DEF ConfHeld
  <2> QED
    BY <1>1, <1>2, <2>2 DEF ConfInv
<1>5. SlotsInv
  <2>1. \A n \in Netio : SlotsAt(n) = {}
    BY <1>0, <1>1 DEF SlotsAt
  <2>2. \A n \in Netio : refs[n] = 0 /\ rxl[n] = 0
    BY <1>2
  <2>3. \A n \in Netio : refs[n] = Cardinality(SlotsAt(n)) /\ Listened(n)
    BY <2>1, <2>2, FS_EmptySet DEF Listened
  <2>4. /\ refs \in [Netio -> Nat] /\ rxl \in [Netio -> Nat]
        /\ slots \in [BridgeSlot -> nios \cup {NoNetio}]
    BY <1>1, <1>2
  <2> QED
    BY <1>2, <2>3, <2>4 DEF SlotsInv
<1>6. FifoInv
  <2>1. FifoTypeOK
    BY <1>1 DEF FifoInit, FifoTypeOK
  <2> QED
    BY <1>1, <2>1 DEF FifoInv, FifoInit, Senders, Crossings, Peers, Queued
<1>7. IndInv
  BY <1>1, Initial
<1> QED
  BY <1>1, <1>2, <1>3, <1>4, <1>5, <1>6, <1>7 DEF SwitchesInv

\* What rests keeps its invariant.
LEMMA FrRests == UNCHANGED <<circuits, table>> /\ FrInv => FrInv'
BY DEF circuits, table, FrInv, Vcs, VcsOf, Conns

\* FIFO NIOs at rest.
LEMMA FifoRests == UNCHANGED fifoVars /\ FifoInv => FifoInv'
BY DEF fifoVars, FifoInv, FifoTypeOK, Senders, Crossings, Peers, Queued

\* The Ethernet switch at rest.
LEMMA EthRests == UNCHANGED vars /\ IndInv => IndInv'
BY Step

\* A table at rest.
LEMMA TableRests == UNCHANGED table /\ TableInit => TableInit'
BY DEF table, TableInit

\* The tables at rest.
LEMMA TablesRest == UNCHANGED tables /\ TablesInit => TablesInit'
BY DEF tables, TablesInit

\* NIOs come and go, nothing else changes the registry.
LEMMA NiosKnown ==
  ASSUME nios \subseteq Netio,
         FrNext \/ AtmNext \/ BridgeNext \/ SlotsNext \/ UNCHANGED nios
  PROVE  nios' \subseteq Netio
<1>1. nios' = nios \/ \E n \in Netio : nios' = nios \cup {n} \/ nios' = nios \ {n}
  <2>1. CASE FrNext
    BY <2>1 DEF FrNext, NioCreated, NioCreate, NioDelete, CreateVc, Hold, CreateVcFails,
       HoldFails, DeleteVc, Unhold, ReleaseConn, DeleteTable, ReleaseAll
  <2>2. CASE AtmNext
    BY <2>2 DEF AtmNext, NioCreate, NioDelete, CreateVpc, CreateVcc, Hold, CreateVpcFails,
       CreateVccFails, HoldFails, DeleteVpc, DeleteVcc, Unhold, ReleaseConn, DeleteTables,
       ReleaseAll
  <2>3. CASE BridgeNext
    BY <2>3 DEF BridgeNext, NioCreate, NioDelete, ConfigureFails, Configure, Unconfigure,
       Replace
  <2>4. CASE SlotsNext
    BY <2>4 DEF SlotsNext, NioCreate, NioDelete, BridgeAddNetio, BridgeRemoveNetio, FreeBridge
  <2> QED
    BY <2>1, <2>2, <2>3, <2>4
<1> QED
  BY <1>1

\* A step of one device leaves the others as they are.
LEMMA SwitchesStep == SwitchesInv /\ [SwitchesNext]_allVars => SwitchesInv'
<1> SUFFICES ASSUME SwitchesInv, [SwitchesNext]_allVars PROVE SwitchesInv'
  OBVIOUS
<1>t. /\ IndInv /\ nios \subseteq Netio
      /\ device = "frsw" => FrInv
      /\ device # "frsw" => TableInit
      /\ device = "atmsw" => AtmInv
      /\ device # "atmsw" => TablesInit
      /\ device = "atm_bridge" => ConfInv
      /\ device = "nio_bridge" => SlotsInv
      /\ Recross \/ FifoInv
  BY DEF SwitchesInv
<1>1. ASSUME EthStep, device' = device PROVE SwitchesInv'
  <2>1. /\ device = "ethsw" /\ Next /\ UNCHANGED nios
        /\ UNCHANGED table /\ UNCHANGED tables /\ UNCHANGED fifoVars
    BY <1>1 DEF EthStep, circuits
  <2>2. IndInv'
    BY <1>t, <2>1, Step
  <2> QED
    BY <1>t, <1>1, <2>1, <2>2, TableRests, TablesRest, FifoRests DEF SwitchesInv
<1>2. ASSUME FrStep, device' = device PROVE SwitchesInv'
  <2>1. /\ device = "frsw" /\ FrNext /\ UNCHANGED vars
        /\ UNCHANGED tables /\ UNCHANGED fifoVars
    BY <1>2 DEF FrStep
  <2>2. FrInv' /\ nios' \subseteq Netio
    BY <1>t, <2>1, FrStepInv, NiosKnown
  <2> QED
    BY <1>t, <1>2, <2>1, <2>2, EthRests, TablesRest, FifoRests DEF SwitchesInv
<1>3. ASSUME AtmStep, device' = device PROVE SwitchesInv'
  <2>1. /\ device = "atmsw" /\ AtmNext /\ UNCHANGED vars
        /\ UNCHANGED table /\ UNCHANGED fifoVars
    BY <1>3 DEF AtmStep
  <2>2. AtmInv' /\ nios' \subseteq Netio
    BY <1>t, <2>1, AtmStepInv, NiosKnown
  <2> QED
    BY <1>t, <1>3, <2>1, <2>2, EthRests, TableRests, FifoRests DEF SwitchesInv
<1>4. ASSUME AtmBridgeStep, device' = device PROVE SwitchesInv'
  <2>1. /\ device = "atm_bridge" /\ BridgeNext /\ UNCHANGED vars
        /\ UNCHANGED table /\ UNCHANGED tables /\ UNCHANGED fifoVars
    BY <1>4 DEF AtmBridgeStep
  <2>2. ConfInv' /\ nios' \subseteq Netio
    BY <1>t, <2>1, ConfStepInv, NiosKnown
  <2> QED
    BY <1>t, <1>4, <2>1, <2>2, EthRests, TableRests, TablesRest, FifoRests DEF SwitchesInv
<1>5. ASSUME NioBridgeStep, device' = device PROVE SwitchesInv'
  <2>1. /\ device = "nio_bridge" /\ SlotsNext /\ UNCHANGED vars
        /\ UNCHANGED table /\ UNCHANGED tables /\ UNCHANGED fifoVars
    BY <1>5 DEF NioBridgeStep
  <2>2. SlotsInv' /\ nios' \subseteq Netio
    BY <1>t, <2>1, SlotsStepInv, NiosKnown
  <2> QED
    BY <1>t, <1>5, <2>1, <2>2, EthRests, TableRests, TablesRest, FifoRests DEF SwitchesInv
<1>6. ASSUME FifoStep, device' = device PROVE SwitchesInv'
  <2>1. /\ device = "fifo" /\ FifoNext /\ UNCHANGED vars /\ UNCHANGED nios
        /\ UNCHANGED table /\ UNCHANGED tables
    BY <1>6 DEF FifoStep, circuits
  <2>2. Recross \/ FifoInv'
    BY <1>t, <2>1, FifoStepInv
  <2> QED
    BY <1>t, <1>6, <2>1, <2>2, EthRests, TableRests, TablesRest DEF SwitchesInv
<1>7. ASSUME UNCHANGED allVars PROVE SwitchesInv'
  <2>1. /\ device' = device /\ UNCHANGED vars /\ UNCHANGED table /\ UNCHANGED tables
        /\ UNCHANGED fifoVars /\ UNCHANGED circuits /\ UNCHANGED nios
        /\ conf' = conf /\ slots' = slots
    BY <1>7 DEF allVars, circuits, configured
  <2>2. FrInv => FrInv'
    BY <2>1, FrRests
  <2>3. AtmInv => AtmInv'
    BY <2>1 DEF AtmInv, Conns, circuits, tables
  <2>4. ConfInv => ConfInv'
    BY <2>1 DEF ConfInv, ConfHeld, circuits
  <2>5. SlotsInv => SlotsInv'
    BY <2>1 DEF SlotsInv, SlotsAt, Listened, circuits
  <2> QED
    BY <1>t, <2>1, <2>2, <2>3, <2>4, <2>5, EthRests, TableRests, TablesRest, FifoRests
       DEF SwitchesInv
<1> QED
  BY <1>1, <1>2, <1>3, <1>4, <1>5, <1>6, <1>7 DEF SwitchesNext

\* What the invariant says of each device.
LEMMA SwitchesExact == SwitchesInv => CircuitExact
<1> SUFFICES ASSUME SwitchesInv PROVE VcsExact /\ CellsSwitched
  BY DEF CircuitExact
<1>1. VcsExact
  <2>1. CASE device = "frsw"
    BY <2>1, FrExact DEF SwitchesInv
  <2>2. CASE device # "frsw"
    <3>1. /\ chain = [b \in DlciBucket |-> <<>>] /\ conn = [n \in Netio |-> <<>>]
          /\ nios \subseteq Netio
      BY <2>2 DEF SwitchesInv, TableInit
    <3>2. Vcs = {} /\ \A n \in Netio : VcsOf(n) = {}
      BY <3>1 DEF Vcs, VcsOf, ToSet
    <3>3. \A n \in nios : conn[n] = <<>> /\ ToSet(conn[n]) = VcsOf(n)
      BY <3>1, <3>2 DEF ToSet
    <3> QED
      BY <3>2, <3>3 DEF VcsExact
  <2> QED
    BY <2>1, <2>2
<1>2. CellsSwitched
  <2>1. CASE device = "atmsw"
    BY <2>1, AtmExact DEF SwitchesInv
  <2>2. CASE device # "atmsw"
    BY <2>2 DEF SwitchesInv, TablesInit, CellsSwitched
  <2> QED
    BY <2>1, <2>2
<1> QED
  BY <1>1, <1>2

\* What the invariant says of references and listeners.
LEMMA SwitchesResources == SwitchesInv => CircuitResources
<1> SUFFICES ASSUME SwitchesInv PROVE CircuitResources
  OBVIOUS
<1>1. device = "frsw" => VcsHeld
  BY HeldExactOK DEF SwitchesInv, FrInv, VcsHeld
<1>2. device = "atmsw" => ConnsHeld
  BY HeldExactOK DEF SwitchesInv, AtmInv, ConnsHeld
<1>3. device = "atm_bridge" => ConfHeld
  BY DEF SwitchesInv, ConfInv
<1>4. device = "nio_bridge" => SlotsHeld
  BY SlotsOK DEF SwitchesInv
<1> QED
  BY <1>1, <1>2, <1>3, <1>4 DEF CircuitResources

\* The invariant holds in every behaviour.
LEMMA SwitchesInvariance == SwitchesSpec => []SwitchesInv
BY SwitchesInitial, SwitchesStep, PTL DEF SwitchesSpec

\* A Frame Relay frame goes where its circuit says and LMI advertises each
\* circuit once, in order; an ATM cell goes where its connection says.
THEOREM SwitchesCircuitExact == SwitchesSpec => []CircuitExact
BY SwitchesInvariance, SwitchesExact, PTL

\* The references in the registry are exactly those that circuits, paths,
\* channels, bridge ports and slots hold, and the listeners too, except of a NIO
\* on which a creation or netio_rxl_add failed: no more than those there.
THEOREM SwitchesCircuitResources == SwitchesSpec => []CircuitResources
BY SwitchesInvariance, SwitchesResources, PTL

\* A FIFO NIO that is cross-connected once sends to a FIFO that lives and
\* receives only what its endpoint sent.
THEOREM SwitchesFifosPaired == SwitchesSpec => [](~Recross => FifosPaired)
<1>1. SwitchesInv => (~Recross => FifosPaired)
  BY FifoPairedInv DEF SwitchesInv
<1> QED
  BY <1>1, SwitchesInvariance, PTL

\* The Ethernet switch, as one of the devices.
THEOREM SwitchesEthernet ==
  SwitchesSpec => [](MatchHasPort /\ LocationCurrent /\ EgressKeepsVlan)
<1>1. SwitchesInv => MatchHasPort /\ LocationCurrent /\ EgressKeepsVlan
  BY Egress DEF SwitchesInv, IndInv
<1> QED
  BY <1>1, SwitchesInvariance, PTL
=============================================================================
