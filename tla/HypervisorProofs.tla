-------------------------- MODULE HypervisorProofs --------------------------
(***************************************************************************)
(* Proofs about the hypervisor (Hypervisor, HvCommands, HvVms), for any    *)
(* number of clients, names and objects, any set of modules and any number *)
(* of behaviours a scope allows.                                           *)
(*                                                                         *)
(* A handler is a program: a tree of calls that branches where one fails.  *)
(* What a program may rely on when it is at one of its steps, whatever the *)
(* other clients do, is a context: the types of the objects its two        *)
(* pointers are at, which argument names the first, whether the last line  *)
(* of the answer was sent, and whether the command is executed alone.      *)
(* Good(p, k) says that every step of p is allowed in the context it is    *)
(* reached in, from k on, on every path.  It is defined by the set of      *)
(* what can follow and not by recursion, and LinesSafe proves it of every  *)
(* command of every module.  The invariants add that the state agrees with *)
(* the context of each client.                                             *)
(***************************************************************************)
EXTENDS Hypervisor, FiniteSetTheorems, FunctionTheorems, SequenceTheorems, TLAPS

-----------------------------------------------------------------------------
(* Concatenations of tuples.                                               *)

\* Two sequences joined are the sequence with the elements of both.
LEMMA Joined ==
  ASSUME NEW S, NEW p \in Seq(S), NEW q \in Seq(S), NEW r \in Seq(S),
         Len(r) = Len(p) + Len(q),
         \A i \in 1 .. Len(p) : p[i] = r[i],
         \A i \in 1 .. Len(q) : q[i] = r[Len(p) + i]
  PROVE  p \o q = r
<1> DEFINE s == p \o q
<1>1. /\ s \in Seq(S) /\ Len(s) = Len(p) + Len(q)
      /\ \A i \in 1 .. Len(p) + Len(q) : s[i] = IF i <= Len(p) THEN p[i] ELSE q[i - Len(p)]
  BY ConcatProperties
<1>0. Len(p) \in Nat /\ Len(q) \in Nat OBVIOUS
<1> HIDE DEF s
<1>2. ASSUME NEW i \in 1 .. Len(s) PROVE s[i] = r[i]
  <2>1. CASE i <= Len(p)
    <3>1. i \in 1 .. Len(p) BY <2>1, <1>0, <1>1
    <3> QED BY <3>1, <2>1, <1>1
  <2>2. CASE ~ (i <= Len(p))
    <3>1. i - Len(p) \in 1 .. Len(q) /\ Len(p) + (i - Len(p)) = i BY <2>2, <1>0, <1>1
    <3>2. q[i - Len(p)] = r[i] BY <3>1
    <3> QED BY <3>2, <2>2, <1>1
  <2> QED BY <2>1, <2>2
<1>3. s = r BY <1>1, <1>2, SeqEqual
<1> QED BY <1>3 DEF s

\* A tuple of one and one of one.
LEMMA Join11 ==
  ASSUME NEW x1, NEW x2
  PROVE  <<x1>> \o <<x2>> = <<x1, x2>>
<1> DEFINE S == {x1, x2}
           p == <<x1>>
           q == <<x2>>
           r == <<x1, x2>>
<1>1. p \in Seq(S) /\ q \in Seq(S) /\ r \in Seq(S) OBVIOUS
<1>2. Len(r) = Len(p) + Len(q) OBVIOUS
<1>3. \A i \in 1 .. Len(p) : p[i] = r[i] OBVIOUS
<1>4. \A i \in 1 .. Len(q) : q[i] = r[Len(p) + i] OBVIOUS
<1> HIDE DEF p, q, r, S
<1>5. p \o q = r BY <1>1, <1>2, <1>3, <1>4, Joined
<1> QED BY <1>5 DEF p, q, r

\* A tuple of one and one of two.
LEMMA Join12 ==
  ASSUME NEW x1, NEW x2, NEW x3
  PROVE  <<x1>> \o <<x2, x3>> = <<x1, x2, x3>>
<1> DEFINE S == {x1, x2, x3}
           p == <<x1>>
           q == <<x2, x3>>
           r == <<x1, x2, x3>>
<1>1. p \in Seq(S) /\ q \in Seq(S) /\ r \in Seq(S) OBVIOUS
<1>2. Len(r) = Len(p) + Len(q) OBVIOUS
<1>3. \A i \in 1 .. Len(p) : p[i] = r[i] OBVIOUS
<1>4. \A i \in 1 .. Len(q) : q[i] = r[Len(p) + i] OBVIOUS
<1> HIDE DEF p, q, r, S
<1>5. p \o q = r BY <1>1, <1>2, <1>3, <1>4, Joined
<1> QED BY <1>5 DEF p, q, r

\* A tuple of two and one of one.
LEMMA Join21 ==
  ASSUME NEW x1, NEW x2, NEW x3
  PROVE  <<x1, x2>> \o <<x3>> = <<x1, x2, x3>>
<1> DEFINE S == {x1, x2, x3}
           p == <<x1, x2>>
           q == <<x3>>
           r == <<x1, x2, x3>>
<1>1. p \in Seq(S) /\ q \in Seq(S) /\ r \in Seq(S) OBVIOUS
<1>2. Len(r) = Len(p) + Len(q) OBVIOUS
<1>3. \A i \in 1 .. Len(p) : p[i] = r[i] OBVIOUS
<1>4. \A i \in 1 .. Len(q) : q[i] = r[Len(p) + i] OBVIOUS
<1> HIDE DEF p, q, r, S
<1>5. p \o q = r BY <1>1, <1>2, <1>3, <1>4, Joined
<1> QED BY <1>5 DEF p, q, r

\* A tuple of two and one of two.
LEMMA Join22 ==
  ASSUME NEW x1, NEW x2, NEW x3, NEW x4
  PROVE  <<x1, x2>> \o <<x3, x4>> = <<x1, x2, x3, x4>>
<1> DEFINE S == {x1, x2, x3, x4}
           p == <<x1, x2>>
           q == <<x3, x4>>
           r == <<x1, x2, x3, x4>>
<1>1. p \in Seq(S) /\ q \in Seq(S) /\ r \in Seq(S) OBVIOUS
<1>2. Len(r) = Len(p) + Len(q) OBVIOUS
<1>3. \A i \in 1 .. Len(p) : p[i] = r[i] OBVIOUS
<1>4. \A i \in 1 .. Len(q) : q[i] = r[Len(p) + i] OBVIOUS
<1> HIDE DEF p, q, r, S
<1>5. p \o q = r BY <1>1, <1>2, <1>3, <1>4, Joined
<1> QED BY <1>5 DEF p, q, r

\* A tuple of three and one of one.
LEMMA Join31 ==
  ASSUME NEW x1, NEW x2, NEW x3, NEW x4
  PROVE  <<x1, x2, x3>> \o <<x4>> = <<x1, x2, x3, x4>>
<1> DEFINE S == {x1, x2, x3, x4}
           p == <<x1, x2, x3>>
           q == <<x4>>
           r == <<x1, x2, x3, x4>>
<1>1. p \in Seq(S) /\ q \in Seq(S) /\ r \in Seq(S) OBVIOUS
<1>2. Len(r) = Len(p) + Len(q) OBVIOUS
<1>3. \A i \in 1 .. Len(p) : p[i] = r[i] OBVIOUS
<1>4. \A i \in 1 .. Len(q) : q[i] = r[Len(p) + i] OBVIOUS
<1> HIDE DEF p, q, r, S
<1>5. p \o q = r BY <1>1, <1>2, <1>3, <1>4, Joined
<1> QED BY <1>5 DEF p, q, r

\* A tuple of three and one of two.
LEMMA Join32 ==
  ASSUME NEW x1, NEW x2, NEW x3, NEW x4, NEW x5
  PROVE  <<x1, x2, x3>> \o <<x4, x5>> = <<x1, x2, x3, x4, x5>>
<1> DEFINE S == {x1, x2, x3, x4, x5}
           p == <<x1, x2, x3>>
           q == <<x4, x5>>
           r == <<x1, x2, x3, x4, x5>>
<1>1. p \in Seq(S) /\ q \in Seq(S) /\ r \in Seq(S) OBVIOUS
<1>2. Len(r) = Len(p) + Len(q) OBVIOUS
<1>3. \A i \in 1 .. Len(p) : p[i] = r[i] OBVIOUS
<1>4. \A i \in 1 .. Len(q) : q[i] = r[Len(p) + i] OBVIOUS
<1> HIDE DEF p, q, r, S
<1>5. p \o q = r BY <1>1, <1>2, <1>3, <1>4, Joined
<1> QED BY <1>5 DEF p, q, r

\* A tuple of four and one of two.
LEMMA Join42 ==
  ASSUME NEW x1, NEW x2, NEW x3, NEW x4, NEW x5, NEW x6
  PROVE  <<x1, x2, x3, x4>> \o <<x5, x6>> = <<x1, x2, x3, x4, x5, x6>>
<1> DEFINE S == {x1, x2, x3, x4, x5, x6}
           p == <<x1, x2, x3, x4>>
           q == <<x5, x6>>
           r == <<x1, x2, x3, x4, x5, x6>>
<1>1. p \in Seq(S) /\ q \in Seq(S) /\ r \in Seq(S) OBVIOUS
<1>2. Len(r) = Len(p) + Len(q) OBVIOUS
<1>3. \A i \in 1 .. Len(p) : p[i] = r[i] OBVIOUS
<1>4. \A i \in 1 .. Len(q) : q[i] = r[Len(p) + i] OBVIOUS
<1> HIDE DEF p, q, r, S
<1>5. p \o q = r BY <1>1, <1>2, <1>3, <1>4, Joined
<1> QED BY <1>5 DEF p, q, r

\* A tuple of seven and one of one.
LEMMA Join71 ==
  ASSUME NEW x1, NEW x2, NEW x3, NEW x4, NEW x5, NEW x6, NEW x7, NEW x8
  PROVE  <<x1, x2, x3, x4, x5, x6, x7>> \o <<x8>> = <<x1, x2, x3, x4, x5, x6, x7, x8>>
<1> DEFINE S == {x1, x2, x3, x4, x5, x6, x7, x8}
           p == <<x1, x2, x3, x4, x5, x6, x7>>
           q == <<x8>>
           r == <<x1, x2, x3, x4, x5, x6, x7, x8>>
<1>1. p \in Seq(S) /\ q \in Seq(S) /\ r \in Seq(S) OBVIOUS
<1>2. Len(r) = Len(p) + Len(q) OBVIOUS
<1>3. \A i \in 1 .. Len(p) : p[i] = r[i] OBVIOUS
<1>4. \A i \in 1 .. Len(q) : q[i] = r[Len(p) + i] OBVIOUS
<1> HIDE DEF p, q, r, S
<1>5. p \o q = r BY <1>1, <1>2, <1>3, <1>4, Joined
<1> QED BY <1>5 DEF p, q, r
-----------------------------------------------------------------------------
(* Programs and contexts.                                                  *)

\* What a pointer of a context is at, and the argument that names it.
Of(k, n) == IF n = 1 THEN k.one ELSE k.two
Key(k, n) == IF n = 1 THEN k.key ELSE 2
K(one, two, key, ans, alone) ==
  [one |-> one, two |-> two, key |-> key, ans |-> ans, alone |-> alone]
\* The context after a pointer is set or cleared, after a renaming and after
\* an answer.
Take(k, n, t) == IF n = 1 THEN K(t, k.two, 1, k.ans, k.alone)
                 ELSE K(k.one, t, k.key, k.ans, k.alone)
Renamed(k) == K(k.one, k.two, 2, k.ans, k.alone)
Answered(k, a) == K(k.one, k.two, k.key, a, k.alone)

\* What the first step of a program relies on.
Allowed(p, k) ==
  IF p = << >> THEN k.one = "none" /\ k.two = "none" /\ k.ans # "none" ELSE
  LET s == Head(p) IN
  /\ s.op \in {"find", "find_vm", "make"} =>
       s.arg \in 1 .. 2 /\ Of(k, s.arg) = "none" /\ s.type \in ObjType
  /\ s.op = "unref" => /\ s.arg \in 1 .. 2 /\ Of(k, s.arg) = s.type
                       /\ s.type \in ObjType /\ s.name = Key(k, s.arg)
  /\ s.op = "unref_own" => s.arg \in 1 .. 2 /\ Of(k, s.arg) # "none"
  /\ s.op \in {"bind", "unbind", "unbind_all", "configure", "forget"} => k.one # "none"
  /\ s.op \in {"bind", "unbind", "configure"} => s.nios \subseteq {2, 3}
  /\ s.op = "rename" => k.one = s.type /\ s.type \in ObjType /\ k.key = 1 /\ k.two = "none" /\ k.alone = TRUE
  /\ s.op = "reply" => k.ans = "none"

\* What can be left of a program after its first step.
After(p, k) ==
  IF p = << >> THEN {} ELSE
  LET s == Head(p)
      r == Tail(p) IN
  IF s.op = "find" THEN {<<s.other, k>>, <<r, Take(k, s.arg, s.type)>>} ELSE
  IF s.op = "find_vm" THEN {<<s.other, k>>, <<VmRefused, Take(k, s.arg, s.type)>>,
                            <<r, Take(k, s.arg, s.type)>>} ELSE
  IF s.op = "make" THEN {<<<<Err>>, k>>, <<r, Take(k, s.arg, s.type)>>} ELSE
  IF s.op \in {"exists", "attempt", "bind", "unbind", "configure"} THEN {<<s.other, k>>, <<r, k>>} ELSE
  IF s.op \in {"unref", "unref_own"} THEN {<<r, Take(k, s.arg, "none")>>} ELSE
  IF s.op = "rename" THEN {<<s.other, k>>, <<r, Renamed(k)>>} ELSE
  IF s.op = "delete" THEN {<<s.inUse, k>>, <<s.absent, k>>, <<r, k>>} ELSE
  IF s.op = "forget" THEN {<<r, Take(k, 1, "none")>>} ELSE
  IF s.op = "silence" THEN {<<r, Answered(k, "never")>>} ELSE
  IF s.op = "reply" THEN {<<r, Answered(k, "one")>>} ELSE {<<r, k>>}

\* All that can follow from p and k is allowed.
Closed(S) == \A x \in S : Allowed(x[1], x[2]) /\ After(x[1], x[2]) \subseteq S
Good(p, k) == \E S : Closed(S) /\ <<p, k>> \in S

\* A step of a good program is allowed, and what follows it is good.
LEMMA GoodStep ==
  ASSUME NEW p, NEW k, Good(p, k)
  PROVE  Allowed(p, k) /\ \A x \in After(p, k) : Good(x[1], x[2])
<1>1. PICK S : Closed(S) /\ <<p, k>> \in S BY DEF Good
<1>2. <<p, k>>[1] = p /\ <<p, k>>[2] = k OBVIOUS
<1>3. Allowed(p, k) /\ After(p, k) \subseteq S BY <1>1, <1>2 DEF Closed
<1>4. ASSUME NEW x \in After(p, k) PROVE Good(x[1], x[2])
  <2>1. x = <<x[1], x[2]>> BY DEF After
  <2>2. x \in S BY <1>3
  <2> QED BY <1>1, <2>1, <2>2 DEF Good
<1> QED BY <1>3, <1>4

\* A program is good when its first step is allowed and what follows is good.
LEMMA GoodIntro ==
  ASSUME NEW p, NEW k, Allowed(p, k), \A x \in After(p, k) : Good(x[1], x[2])
  PROVE  Good(p, k)
<1> DEFINE W(x) == CHOOSE S : Closed(S) /\ x \in S
           U == UNION {W(x) : x \in After(p, k)}
           V == U \cup {<<p, k>>}
<1>1. ASSUME NEW x \in After(p, k) PROVE Closed(W(x)) /\ x \in W(x)
  <2>1. x = <<x[1], x[2]>> BY DEF After
  <2>2. \E S : Closed(S) /\ x \in S BY <2>1 DEF Good
  <2> QED BY <2>2
<1> HIDE DEF W
<1>2. After(p, k) \subseteq U BY <1>1
<1>3. ASSUME NEW x \in U PROVE Allowed(x[1], x[2]) /\ After(x[1], x[2]) \subseteq U
  <2>1. PICK y \in After(p, k) : x \in W(y) OBVIOUS
  <2>2. Allowed(x[1], x[2]) /\ After(x[1], x[2]) \subseteq W(y) BY <1>1, <2>1 DEF Closed
  <2> QED BY <2>2
<1>4. <<p, k>>[1] = p /\ <<p, k>>[2] = k OBVIOUS
<1> HIDE DEF U
<1>5. Closed(V) BY <1>2, <1>3, <1>4 DEF Closed
<1> QED BY <1>5 DEF Good

-----------------------------------------------------------------------------
(* What has to be shown of the program of each step.                       *)

Start(al) == K("none", "none", 1, "none", al)
Holding(t, key, al) == K(t, "none", key, "none", al)

\* A program that begins with a step.
Begins(p, s, r) == p # << >> /\ Head(p) = s /\ Tail(p) = r

\* The first step of a program written out.
LEMMA Tuples ==
  ASSUME NEW a, NEW b, NEW c, NEW d, NEW e, NEW f
  PROVE  /\ Begins(<<a>>, a, << >>)
         /\ Begins(<<a, b>>, a, <<b>>)
         /\ Begins(<<a, b, c>>, a, <<b, c>>)
         /\ Begins(<<a, b, c, d>>, a, <<b, c, d>>)
         /\ Begins(<<a, b, c, d, e>>, a, <<b, c, d, e>>)
         /\ Begins(<<a, b, c, d, e, f>>, a, <<b, c, d, e, f>>)
BY DEF Begins

\* The fields of a context.
LEMMA Fields ==
  ASSUME NEW one, NEW two, NEW key, NEW ans, NEW al, NEW t
  PROVE  LET k == K(one, two, key, ans, al) IN
         /\ k.one = one /\ k.two = two /\ k.key = key /\ k.ans = ans /\ k.alone = al
         /\ Of(k, 1) = one /\ Of(k, 2) = two /\ Key(k, 1) = key /\ Key(k, 2) = 2
         /\ Take(k, 1, t) = K(t, two, 1, ans, al)
         /\ Take(k, 2, t) = K(one, t, key, ans, al)
         /\ Renamed(k) = K(one, two, 2, ans, al)
         /\ Answered(k, "one") = K(one, two, key, "one", al)
         /\ Answered(k, "never") = K(one, two, key, "never", al)
BY DEF K, Of, Key, Take, Renamed, Answered

\* The end of a program: nothing is held and an answer was sent.
LEMMA GoodEnd ==
  ASSUME NEW k, k.one = "none", k.two = "none", k.ans # "none"
  PROVE  Good(<< >>, k)
<1>1. Allowed(<< >>, k) BY DEF Allowed
<1>2. After(<< >>, k) = {} BY DEF After
<1> QED BY <1>1, <1>2, GoodIntro

\* A reply: none was sent yet.
LEMMA GoodReply ==
  ASSUME NEW p, NEW k, NEW r,
         Begins(p, Ok, r),
         k.ans = "none",
         Good(r, Answered(k, "one"))
  PROVE  Good(p, k)
<1> DEFINE s == Ok
<1>0. s.op = "reply" BY DEF Ok
<1> HIDE DEF s
<1>1. Head(p) = s /\ p # << >> /\ Tail(p) = r BY DEF Begins, s
<1>2. Allowed(p, k) BY <1>0, <1>1 DEF Allowed
<1>3. After(p, k) = {<<r, Answered(k, "one")>>}
  BY <1>0, <1>1 DEF After
<1> QED BY <1>2, <1>3, GoodIntro

\* An object is looked up: it takes a free pointer.
LEMMA GoodFind ==
  ASSUME NEW p, NEW k, NEW r, NEW t \in ObjType, NEW n \in 1 .. 2, NEW other,
         Begins(p, FindOr(t, n, other), r),
         Of(k, n) = "none",
         Good(other, k), Good(r, Take(k, n, t))
  PROVE  Good(p, k)
<1> DEFINE s == FindOr(t, n, other)
<1>0. s.op = "find" /\ s.arg = n /\ s.type = t /\ s.other = other BY DEF FindOr
<1> HIDE DEF s
<1>1. Head(p) = s /\ p # << >> /\ Tail(p) = r BY DEF Begins, s
<1>2. Allowed(p, k) BY <1>0, <1>1 DEF Allowed
<1>3. After(p, k) = {<<other, k>>, <<r, Take(k, n, t)>>}
  BY <1>0, <1>1 DEF After
<1> QED BY <1>2, <1>3, GoodIntro

\* A VM of a platform.
LEMMA GoodFindVm ==
  ASSUME NEW p, NEW k, NEW r, NEW plat, NEW n \in 1 .. 2,
         Begins(p, FindVm(plat, n), r),
         Of(k, n) = "none",
         Good(<<Err>>, k), Good(VmRefused, Take(k, n, "vm")), Good(r, Take(k, n, "vm"))
  PROVE  Good(p, k)
<1> DEFINE s == FindVm(plat, n)
<1>0. s.op = "find_vm" /\ s.arg = n /\ s.type = "vm" /\ "vm" \in ObjType /\ s.other = <<Err>>
  BY DEF FindVm, ObjType
<1> HIDE DEF s
<1>1. Head(p) = s /\ p # << >> /\ Tail(p) = r BY DEF Begins, s
<1>2. Allowed(p, k) BY <1>0, <1>1 DEF Allowed
<1>3. After(p, k) = {<<<<Err>>, k>>, <<VmRefused, Take(k, n, "vm")>>, <<r, Take(k, n, "vm")>>}
  BY <1>0, <1>1 DEF After
<1> QED BY <1>2, <1>3, GoodIntro

\* A creation.
LEMMA GoodMake ==
  ASSUME NEW p, NEW k, NEW r, NEW t \in ObjType, NEW n \in 1 .. 2,
         Begins(p, Make(t, n), r),
         Of(k, n) = "none",
         Good(<<Err>>, k), Good(r, Take(k, n, t))
  PROVE  Good(p, k)
<1> DEFINE s == Make(t, n)
<1>0. s.op = "make" /\ s.arg = n /\ s.type = t BY DEF Make
<1> HIDE DEF s
<1>1. Head(p) = s /\ p # << >> /\ Tail(p) = r BY DEF Begins, s
<1>2. Allowed(p, k) BY <1>0, <1>1 DEF Allowed
<1>3. After(p, k) = {<<<<Err>>, k>>, <<r, Take(k, n, t)>>}
  BY <1>0, <1>1 DEF After
<1> QED BY <1>2, <1>3, GoodIntro

\* A test of a name.
LEMMA GoodExists ==
  ASSUME NEW p, NEW k, NEW r, NEW t, NEW n, NEW other,
         Begins(p, Exists(t, n, other), r),
         Good(other, k), Good(r, k)
  PROVE  Good(p, k)
<1> DEFINE s == Exists(t, n, other)
<1>0. s.op = "exists" /\ s.other = other BY DEF Exists
<1> HIDE DEF s
<1>1. Head(p) = s /\ p # << >> /\ Tail(p) = r BY DEF Begins, s
<1>2. Allowed(p, k) BY <1>0, <1>1 DEF Allowed
<1>3. After(p, k) = {<<other, k>>, <<r, k>>}
  BY <1>0, <1>1 DEF After
<1> QED BY <1>2, <1>3, GoodIntro

\* Something that can fail.
LEMMA GoodAttempt ==
  ASSUME NEW p, NEW k, NEW r, NEW other,
         Begins(p, Attempt(other), r),
         Good(other, k), Good(r, k)
  PROVE  Good(p, k)
<1> DEFINE s == Attempt(other)
<1>0. s.op = "attempt" /\ s.other = other BY DEF Attempt
<1> HIDE DEF s
<1>1. Head(p) = s /\ p # << >> /\ Tail(p) = r BY DEF Begins, s
<1>2. Allowed(p, k) BY <1>0, <1>1 DEF Allowed
<1>3. After(p, k) = {<<other, k>>, <<r, k>>}
  BY <1>0, <1>1 DEF After
<1> QED BY <1>2, <1>3, GoodIntro

\* Object 1 and NIOs: it is held.
LEMMA GoodBind ==
  ASSUME NEW p, NEW k, NEW r, NEW nios \in SUBSET {2, 3}, NEW other,
         Begins(p, Bind(nios, other), r),
         k.one # "none",
         Good(other, k), Good(r, k)
  PROVE  Good(p, k)
<1> DEFINE s == Bind(nios, other)
<1>0. s.op = "bind" /\ s.nios = nios /\ s.other = other BY DEF Bind
<1> HIDE DEF s
<1>1. Head(p) = s /\ p # << >> /\ Tail(p) = r BY DEF Begins, s
<1>2. Allowed(p, k) BY <1>0, <1>1 DEF Allowed
<1>3. After(p, k) = {<<other, k>>, <<r, k>>}
  BY <1>0, <1>1 DEF After
<1> QED BY <1>2, <1>3, GoodIntro

\* Object 1 and NIOs: it is held.
LEMMA GoodUnbind ==
  ASSUME NEW p, NEW k, NEW r, NEW nios \in SUBSET {2, 3}, NEW other,
         Begins(p, Unbind(nios, other), r),
         k.one # "none",
         Good(other, k), Good(r, k)
  PROVE  Good(p, k)
<1> DEFINE s == Unbind(nios, other)
<1>0. s.op = "unbind" /\ s.nios = nios /\ s.other = other BY DEF Unbind
<1> HIDE DEF s
<1>1. Head(p) = s /\ p # << >> /\ Tail(p) = r BY DEF Begins, s
<1>2. Allowed(p, k) BY <1>0, <1>1 DEF Allowed
<1>3. After(p, k) = {<<other, k>>, <<r, k>>}
  BY <1>0, <1>1 DEF After
<1> QED BY <1>2, <1>3, GoodIntro

\* Object 1 and NIOs: it is held.
LEMMA GoodConfigure ==
  ASSUME NEW p, NEW k, NEW r, NEW nios \in SUBSET {2, 3}, NEW other,
         Begins(p, Configure(nios, other), r),
         k.one # "none",
         Good(other, k), Good(r, k)
  PROVE  Good(p, k)
<1> DEFINE s == Configure(nios, other)
<1>0. s.op = "configure" /\ s.nios = nios /\ s.other = other BY DEF Configure
<1> HIDE DEF s
<1>1. Head(p) = s /\ p # << >> /\ Tail(p) = r BY DEF Begins, s
<1>2. Allowed(p, k) BY <1>0, <1>1 DEF Allowed
<1>3. After(p, k) = {<<other, k>>, <<r, k>>}
  BY <1>0, <1>1 DEF After
<1> QED BY <1>2, <1>3, GoodIntro

\* Object 1 gives its NIOs up.
LEMMA GoodUnbindAll ==
  ASSUME NEW p, NEW k, NEW r,
         Begins(p, UnbindAll, r),
         k.one # "none",
         Good(r, k)
  PROVE  Good(p, k)
<1> DEFINE s == UnbindAll
<1>0. s.op = "unbind_all" BY DEF UnbindAll
<1> HIDE DEF s
<1>1. Head(p) = s /\ p # << >> /\ Tail(p) = r BY DEF Begins, s
<1>2. Allowed(p, k) BY <1>0, <1>1 DEF Allowed
<1>3. After(p, k) = {<<r, k>>}
  BY <1>0, <1>1 DEF After
<1> QED BY <1>2, <1>3, GoodIntro

\* A pointer is given up by the name the object has.
LEMMA GoodUnref ==
  ASSUME NEW p, NEW k, NEW r, NEW t \in ObjType, NEW n \in 1 .. 2, NEW m,
         Begins(p, Unref(t, n, m), r),
         Of(k, n) = t,
         m = Key(k, n),
         Good(r, Take(k, n, "none"))
  PROVE  Good(p, k)
<1> DEFINE s == Unref(t, n, m)
<1>0. s.op = "unref" /\ s.arg = n /\ s.type = t /\ s.name = m BY DEF Unref
<1> HIDE DEF s
<1>1. Head(p) = s /\ p # << >> /\ Tail(p) = r BY DEF Begins, s
<1>2. Allowed(p, k) BY <1>0, <1>1 DEF Allowed
<1>3. After(p, k) = {<<r, Take(k, n, "none")>>}
  BY <1>0, <1>1 DEF After
<1> QED BY <1>2, <1>3, GoodIntro

\* A pointer is given up by the object's own name.
LEMMA GoodUnrefOwn ==
  ASSUME NEW p, NEW k, NEW r, NEW n \in 1 .. 2,
         Begins(p, UnrefOwn(n), r),
         Of(k, n) # "none",
         Good(r, Take(k, n, "none"))
  PROVE  Good(p, k)
<1> DEFINE s == UnrefOwn(n)
<1>0. s.op = "unref_own" /\ s.arg = n BY DEF UnrefOwn
<1> HIDE DEF s
<1>1. Head(p) = s /\ p # << >> /\ Tail(p) = r BY DEF Begins, s
<1>2. Allowed(p, k) BY <1>0, <1>1 DEF Allowed
<1>3. After(p, k) = {<<r, Take(k, n, "none")>>}
  BY <1>0, <1>1 DEF After
<1> QED BY <1>2, <1>3, GoodIntro

\* A renaming: nothing else is held, and nobody else is at work.
LEMMA GoodRename ==
  ASSUME NEW p, NEW k, NEW r, NEW t \in ObjType, NEW other,
         Begins(p, Rename(t, other), r),
         k.one = t,
         k.key = 1,
         k.two = "none",
         k.alone = TRUE,
         Good(other, k), Good(r, Renamed(k))
  PROVE  Good(p, k)
<1> DEFINE s == Rename(t, other)
<1>0. s.op = "rename" /\ s.type = t /\ s.other = other BY DEF Rename
<1> HIDE DEF s
<1>1. Head(p) = s /\ p # << >> /\ Tail(p) = r BY DEF Begins, s
<1>2. Allowed(p, k) BY <1>0, <1>1 DEF Allowed
<1>3. After(p, k) = {<<other, k>>, <<r, Renamed(k)>>}
  BY <1>0, <1>1 DEF After
<1> QED BY <1>2, <1>3, GoodIntro

\* A deletion, and its two failures.
LEMMA GoodDelete ==
  ASSUME NEW p, NEW k, NEW r, NEW t, NEW inUse, NEW absent,
         Begins(p, Delete(t, inUse, absent), r),
         Good(inUse, k), Good(absent, k), Good(r, k)
  PROVE  Good(p, k)
<1> DEFINE s == Delete(t, inUse, absent)
<1>0. s.op = "delete" /\ s.inUse = inUse /\ s.absent = absent BY DEF Delete
<1> HIDE DEF s
<1>1. Head(p) = s /\ p # << >> /\ Tail(p) = r BY DEF Begins, s
<1>2. Allowed(p, k) BY <1>0, <1>1 DEF Allowed
<1>3. After(p, k) = {<<inUse, k>>, <<absent, k>>, <<r, k>>}
  BY <1>0, <1>1 DEF After
<1> QED BY <1>2, <1>3, GoodIntro

\* A deletion of all objects of a type.
LEMMA GoodDeleteType ==
  ASSUME NEW p, NEW k, NEW r, NEW t,
         Begins(p, DeleteType(t), r),
         Good(r, k)
  PROVE  Good(p, k)
<1> DEFINE s == DeleteType(t)
<1>0. s.op = "delete_type" BY DEF DeleteType
<1> HIDE DEF s
<1>1. Head(p) = s /\ p # << >> /\ Tail(p) = r BY DEF Begins, s
<1>2. Allowed(p, k) BY <1>0, <1>1 DEF Allowed
<1>3. After(p, k) = {<<r, k>>}
  BY <1>0, <1>1 DEF After
<1> QED BY <1>2, <1>3, GoodIntro

\* A walk over the objects of a type.
LEMMA GoodWalk ==
  ASSUME NEW p, NEW k, NEW r, NEW t,
         Begins(p, Walk(t), r),
         Good(r, k)
  PROVE  Good(p, k)
<1> DEFINE s == Walk(t)
<1>0. s.op = "walk" BY DEF Walk
<1> HIDE DEF s
<1>1. Head(p) = s /\ p # << >> /\ Tail(p) = r BY DEF Begins, s
<1>2. Allowed(p, k) BY <1>0, <1>1 DEF Allowed
<1>3. After(p, k) = {<<r, k>>}
  BY <1>0, <1>1 DEF After
<1> QED BY <1>2, <1>3, GoodIntro

\* Object 1 is not given up.
LEMMA GoodForget ==
  ASSUME NEW p, NEW k, NEW r,
         Begins(p, Forget, r),
         k.one # "none",
         Good(r, Take(k, 1, "none"))
  PROVE  Good(p, k)
<1> DEFINE s == Forget
<1>0. s.op = "forget" BY DEF Forget
<1> HIDE DEF s
<1>1. Head(p) = s /\ p # << >> /\ Tail(p) = r BY DEF Begins, s
<1>2. Allowed(p, k) BY <1>0, <1>1 DEF Allowed
<1>3. After(p, k) = {<<r, Take(k, 1, "none")>>}
  BY <1>0, <1>1 DEF After
<1> QED BY <1>2, <1>3, GoodIntro

\* There will be no reply.
LEMMA GoodSilence ==
  ASSUME NEW p, NEW k, NEW r,
         Begins(p, Silence, r),
         Good(r, Answered(k, "never"))
  PROVE  Good(p, k)
<1> DEFINE s == Silence
<1>0. s.op = "silence" BY DEF Silence
<1> HIDE DEF s
<1>1. Head(p) = s /\ p # << >> /\ Tail(p) = r BY DEF Begins, s
<1>2. Allowed(p, k) BY <1>0, <1>1 DEF Allowed
<1>3. After(p, k) = {<<r, Answered(k, "never")>>}
  BY <1>0, <1>1 DEF After
<1> QED BY <1>2, <1>3, GoodIntro

\* The client closes its connection.
LEMMA GoodDeactivate ==
  ASSUME NEW p, NEW k, NEW r,
         Begins(p, Deactivate, r),
         Good(r, k)
  PROVE  Good(p, k)
<1> DEFINE s == Deactivate
<1>0. s.op = "deactivate" BY DEF Deactivate
<1> HIDE DEF s
<1>1. Head(p) = s /\ p # << >> /\ Tail(p) = r BY DEF Begins, s
<1>2. Allowed(p, k) BY <1>0, <1>1 DEF Allowed
<1>3. After(p, k) = {<<r, k>>}
  BY <1>0, <1>1 DEF After
<1> QED BY <1>2, <1>3, GoodIntro

\* The client stops the server.
LEMMA GoodHalt ==
  ASSUME NEW p, NEW k, NEW r,
         Begins(p, Halt, r),
         Good(r, k)
  PROVE  Good(p, k)
<1> DEFINE s == Halt
<1>0. s.op = "halt" BY DEF Halt
<1> HIDE DEF s
<1>1. Head(p) = s /\ p # << >> /\ Tail(p) = r BY DEF Begins, s
<1>2. Allowed(p, k) BY <1>0, <1>1 DEF Allowed
<1>3. After(p, k) = {<<r, k>>}
  BY <1>0, <1>1 DEF After
<1> QED BY <1>2, <1>3, GoodIntro

-----------------------------------------------------------------------------
(* The shapes of the handlers.                                             *)

\* An answer when nothing is held.
LEMMA GoodAnswer ==
  ASSUME NEW key, NEW al
  PROVE  Good(<<Ok>>, K("none", "none", key, "none", al))
<1> DEFINE k == K("none", "none", key, "none", al)
<1>1. k.ans = "none" /\ Answered(k, "one") = K("none", "none", key, "one", al) BY Fields
<1>2. Good(<< >>, K("none", "none", key, "one", al)) BY Fields, GoodEnd
<1> QED BY <1>1, <1>2, Tuples, GoodReply

\* An object is given up by the name of an argument, and answered (Release).
LEMMA GoodRelease ==
  ASSUME NEW t \in ObjType, NEW key, NEW al
  PROVE  Good(<<Unref(t, 1, key), Ok>>, Holding(t, key, al))
<1> DEFINE k == K(t, "none", key, "none", al)
<1>1. Of(k, 1) = t /\ Key(k, 1) = key /\ Take(k, 1, "none") = K("none", "none", 1, "none", al)
  BY Fields
<1>2. Good(<<Ok>>, Take(k, 1, "none")) BY <1>1, GoodAnswer
<1>3. Begins(<<Unref(t, 1, key), Ok>>, Unref(t, 1, key), <<Ok>>) BY Tuples
<1> QED BY <1>1, <1>2, <1>3, GoodUnref DEF Holding

\* An object is given up by its own name, and answered (vm_release).
LEMMA GoodOwn ==
  ASSUME NEW t \in ObjType, NEW key, NEW al
  PROVE  Good(<<UnrefOwn(1), Ok>>, Holding(t, key, al))
<1> DEFINE k == K(t, "none", key, "none", al)
<1>1. Of(k, 1) = t /\ Take(k, 1, "none") = K("none", "none", 1, "none", al) BY Fields
<1>2. Good(<<Ok>>, Take(k, 1, "none")) BY <1>1, GoodAnswer
<1>3. Begins(<<UnrefOwn(1), Ok>>, UnrefOwn(1), <<Ok>>) BY Tuples
<1>4. t # "none" BY DEF ObjType
<1> QED BY <1>1, <1>2, <1>3, <1>4, GoodUnrefOwn DEF Holding

\* A command begins with a lookup that is refused when there is no such object.
LEMMA GoodLookup ==
  ASSUME NEW p, NEW r, NEW t \in ObjType, NEW al,
         Begins(p, Find(t, 1), r), Good(r, Holding(t, 1, al))
  PROVE  Good(p, Start(al))
<1> DEFINE k == K("none", "none", 1, "none", al)
<1>1. Of(k, 1) = "none" /\ Take(k, 1, t) = Holding(t, 1, al) BY Fields DEF Holding
<1>2. Good(<<Err>>, k) BY GoodAnswer DEF Err, Ok
<1>3. Begins(p, FindOr(t, 1, <<Err>>), r) BY DEF Find
<1> QED BY <1>1, <1>2, <1>3, GoodFind DEF Start

\* A command of a platform begins with a lookup of a VM of that platform.
LEMMA GoodLookupVm ==
  ASSUME NEW p, NEW r, NEW plat, NEW al,
         Begins(p, FindVm(plat, 1), r), Good(r, Holding("vm", 1, al))
  PROVE  Good(p, Start(al))
<1> DEFINE k == K("none", "none", 1, "none", al)
<1>1. Of(k, 1) = "none" /\ Take(k, 1, "vm") = Holding("vm", 1, al) BY Fields DEF Holding
<1>2. Good(<<Err>>, k) BY GoodAnswer DEF Err, Ok
<1>3. Good(VmRefused, Holding("vm", 1, al)) BY GoodOwn DEF VmRefused, Err, Ok, ObjType
<1> QED BY <1>1, <1>2, <1>3, GoodFindVm DEF Start

\* What a handler does with the object it looked up, when giving the object up
\* is right at the end and in every error branch.
LEMMA GoodMiddle ==
  ASSUME NEW t \in ObjType, NEW al, NEW u, NEW v, NEW nios \in SUBSET {2, 3},
         Good(<<u, v>>, Holding(t, 1, al))
  PROVE  /\ Good(<<Attempt(<<u, v>>), u, v>>, Holding(t, 1, al))
         /\ Good(<<Bind(nios, <<u, v>>), u, v>>, Holding(t, 1, al))
         /\ Good(<<Unbind(nios, <<u, v>>), u, v>>, Holding(t, 1, al))
         /\ Good(<<Configure(nios, <<u, v>>), u, v>>, Holding(t, 1, al))
         /\ Good(<<UnbindAll, u, v>>, Holding(t, 1, al))
<1> DEFINE k == Holding(t, 1, al)
           d == <<u, v>>
<1>1. k.one # "none" BY Fields DEF Holding, ObjType
<1> HIDE DEF k
<1>2. \A s : Begins(<<s, u, v>>, s, d) BY Tuples
<1> HIDE DEF d
<1>g. Good(d, k) BY DEF d, k
<1>3. Good(<<Attempt(d), u, v>>, k) BY <1>g, <1>2, GoodAttempt
<1>4. Good(<<Bind(nios, d), u, v>>, k) BY <1>g, <1>1, <1>2, GoodBind
<1>5. Good(<<Unbind(nios, d), u, v>>, k) BY <1>g, <1>1, <1>2, GoodUnbind
<1>6. Good(<<Configure(nios, d), u, v>>, k) BY <1>g, <1>1, <1>2, GoodConfigure
<1>7. Good(<<UnbindAll, u, v>>, k) BY <1>g, <1>1, <1>2, GoodUnbindAll
<1> QED BY <1>3, <1>4, <1>5, <1>6, <1>7 DEF d, k

\* A renaming that gives the object up by u in its first error branch and by
\* its new name or its own name at the end, and does f in the others.
LEMMA GoodRenaming ==
  ASSUME NEW p, NEW t \in ObjType, NEW d, NEW f, NEW u,
         p = <<Find(t, 1), Exists(t, 2, d), Attempt(f), Rename(t, f), u, Ok>>,
         Good(d, Holding(t, 1, TRUE)), Good(f, Holding(t, 1, TRUE)),
         Good(<<u, Ok>>, Holding(t, 2, TRUE))
  PROVE  Good(p, Start(TRUE))
<1> DEFINE k == Holding(t, 1, TRUE)
<1>0. k.one = t /\ k.key = 1 /\ k.two = "none" /\ k.alone = TRUE
  BY DEF Holding, K
<1>1. Renamed(k) = Holding(t, 2, TRUE) BY <1>0 DEF Holding, Renamed, K
<1>2. Good(<<Rename(t, f), u, Ok>>, k)
  <2>1. Begins(<<Rename(t, f), u, Ok>>, Rename(t, f), <<u, Ok>>) BY Tuples
  <2> HIDE DEF k
  <2>2. Good(f, k) BY DEF k
  <2> QED BY <1>0, <1>1, <2>1, <2>2, GoodRename
<1>3. Good(<<Attempt(f), Rename(t, f), u, Ok>>, k)
  <2>1. Begins(<<Attempt(f), Rename(t, f), u, Ok>>, Attempt(f), <<Rename(t, f), u, Ok>>)
    BY Tuples
  <2> QED BY <1>2, <2>1, GoodAttempt
<1>4. Good(<<Exists(t, 2, d), Attempt(f), Rename(t, f), u, Ok>>, k)
  <2>1. Begins(<<Exists(t, 2, d), Attempt(f), Rename(t, f), u, Ok>>, Exists(t, 2, d),
               <<Attempt(f), Rename(t, f), u, Ok>>) BY Tuples
  <2> QED BY <1>3, <2>1, GoodExists
<1>5. Begins(p, Find(t, 1), <<Exists(t, 2, d), Attempt(f), Rename(t, f), u, Ok>>) BY Tuples
<1> QED BY <1>4, <1>5, GoodLookup

\* A command that creates an object gives it up at the end (create in hv_nio.c).
LEMMA GoodCreation ==
  ASSUME NEW t \in ObjType, NEW al, NEW u, Good(<<u, Ok>>, Holding(t, 1, al))
  PROVE  Good(<<Make(t, 1), u, Ok>>, Start(al))
<1> DEFINE k == K("none", "none", 1, "none", al)
<1>1. Of(k, 1) = "none" /\ Take(k, 1, t) = Holding(t, 1, al) BY Fields DEF Holding
<1>2. Good(<<Err>>, k) BY GoodAnswer DEF Err, Ok
<1>3. Begins(<<Make(t, 1), u, Ok>>, Make(t, 1), <<u, Ok>>) BY Tuples
<1> QED BY <1>1, <1>2, <1>3, GoodMake DEF Start

\* A command that only answers.
LEMMA GoodStart == ASSUME NEW al PROVE Good(<<Ok>>, Start(al)) /\ Good(<<Err>>, Start(al))
BY GoodAnswer DEF Start, Ok, Err

\* A command that deletes an object holds none.
LEMMA GoodDeletion ==
  ASSUME NEW t, NEW al, NEW inUse, inUse = <<Ok>>
  PROVE  Good(<<Delete(t, inUse, <<Err>>), Ok>>, Start(al))
<1>1. Begins(<<Delete(t, inUse, <<Err>>), Ok>>, Delete(t, inUse, <<Err>>), <<Ok>>) BY Tuples
<1>2. Good(inUse, Start(al)) BY GoodStart
<1> QED BY <1>1, <1>2, GoodStart, GoodDelete

\* A command that lists the objects of a type holds none.
LEMMA GoodListing ==
  ASSUME NEW t, NEW al
  PROVE  Good(Listing(t), Start(al))
<1>1. Begins(<<Walk(t), Ok>>, Walk(t), <<Ok>>) BY Tuples
<1> QED BY <1>1, GoodStart, GoodWalk DEF Listing

\* What is to be shown of a line.
Safe(p) == Good(p, Start(Renames(p)))

\* A program with a renaming step is a renaming command.
LEMMA RenamingSafe ==
  ASSUME NEW p, NEW t, NEW d, NEW f, NEW u,
         p = <<Find(t, 1), Exists(t, 2, d), Attempt(f), Rename(t, f), u, Ok>>,
         Good(p, Start(TRUE))
  PROVE  Safe(p)
<1>1. 4 \in DOMAIN p /\ p[4] = Rename(t, f) OBVIOUS
<1>2. Rename(t, f).op = "rename" BY DEF Rename
<1>3. Renames(p) BY <1>1, <1>2 DEF Renames
<1>4. Renames(p) = TRUE BY <1>3 DEF Renames
<1> QED BY <1>4 DEF Safe

\* The shapes whose handlers give an object up by the name of the argument.
LEMMA ShapesSafe ==
  ASSUME NEW t \in ObjType
  PROVE  /\ Safe(Creation(t)) /\ Safe(Deletion(t)) /\ Safe(Renaming(t)) /\ Safe(Change(t))
         /\ Safe(Trial(t)) /\ Safe(Listing(t))
         /\ \A nios \in SUBSET {2, 3} : Safe(Binding(t, nios)) /\ Safe(Unbinding(t, nios))
<1> DEFINE u == Unref(t, 1, 1)
<1>0. Release(t) = <<u>> /\ Err = Ok BY DEF Release, Err, Ok
<1> HIDE DEF u
<1>1. Refused(t) = <<u, Ok>> BY <1>0, Join11 DEF Refused
<1>2. \A al : Good(<<u, Ok>>, Holding(t, 1, al)) BY GoodRelease DEF u
<1>3. Safe(Creation(t))
  <2>1. Creation(t) = <<Make(t, 1), u, Ok>> BY <1>0, Join11, Join21 DEF Creation
  <2> QED BY <1>2, <2>1, GoodCreation DEF Safe
<1>4. Safe(Deletion(t)) BY <1>0, GoodDeletion DEF Deletion, Safe
<1>5. Safe(Change(t))
  <2>1. Change(t) = <<Find(t, 1), u, Ok>> BY <1>0, Join11, Join21 DEF Change
  <2>2. Begins(<<Find(t, 1), u, Ok>>, Find(t, 1), <<u, Ok>>) BY Tuples
  <2> QED BY <1>2, <2>1, <2>2, GoodLookup DEF Safe
<1>6. ASSUME NEW s, NEW p, p = <<Find(t, 1), s>> \o Release(t) \o <<Ok>>,
             \A al : Good(<<s, u, Ok>>, Holding(t, 1, al))
      PROVE  Safe(p)
  <2>a. <<Find(t, 1), s>> \o <<u>> = <<Find(t, 1), s, u>> BY Join21
  <2>b. <<Find(t, 1), s, u>> \o <<Ok>> = <<Find(t, 1), s, u, Ok>> BY Join31
  <2>1. p = <<Find(t, 1), s, u, Ok>> BY <1>0, <1>6, <2>a, <2>b
  <2>2. Begins(p, Find(t, 1), <<s, u, Ok>>) BY <2>1, Tuples
  <2> QED BY <1>6, <2>2, GoodLookup DEF Safe
<1>7. \A al : \A nios \in SUBSET {2, 3} :
        /\ Good(<<Attempt(<<u, Ok>>), u, Ok>>, Holding(t, 1, al))
        /\ Good(<<Bind(nios, <<u, Ok>>), u, Ok>>, Holding(t, 1, al))
        /\ Good(<<Unbind(nios, <<u, Ok>>), u, Ok>>, Holding(t, 1, al))
  BY <1>2, GoodMiddle
<1>8. Safe(Trial(t)) BY <1>1, <1>6, <1>7 DEF Trial
<1>9. ASSUME NEW nios \in SUBSET {2, 3} PROVE Safe(Binding(t, nios)) /\ Safe(Unbinding(t, nios))
  BY <1>1, <1>6, <1>7 DEF Binding, Unbinding
<1>10. Safe(Listing(t)) BY GoodListing DEF Safe
<1>11. Safe(Renaming(t))
  <2> DEFINE d == Refused(t)
             w == Unref(t, 1, 2)
  <2>1. Renaming(t) = <<Find(t, 1), Exists(t, 2, d), Attempt(d), Rename(t, d), w, Ok>>
    BY DEF Renaming
  <2>2. Good(d, Holding(t, 1, TRUE)) BY <1>1, <1>2
  <2>3. Good(<<w, Ok>>, Holding(t, 2, TRUE)) BY GoodRelease
  <2> HIDE DEF d, w
  <2>4. Good(Renaming(t), Start(TRUE)) BY <2>1, <2>2, <2>3, GoodRenaming
  <2> QED BY <2>1, <2>4, RenamingSafe
<1> QED BY <1>3, <1>4, <1>5, <1>8, <1>9, <1>10, <1>11

\* The commands that only answer.
LEMMA AnswerSafe == Safe(<<Ok>>) /\ Safe(<<Err>>)
BY GoodStart DEF Safe

\* A step that changes neither the pointers nor the answer, and then a line.
LEMMA NioSafe == ASSUME NEW p \in nio_commands PROVE Safe(p)
<1>1. "nio" \in ObjType BY DEF ObjType
<1>2. /\ Safe(Creation("nio")) /\ Safe(Deletion("nio")) /\ Safe(Renaming("nio")) /\ Safe(Change("nio"))
      /\ Safe(Trial("nio")) /\ Safe(Listing("nio"))
  BY <1>1, ShapesSafe
<1>3. nio_create_udp_auto = Creation("nio") BY DEF nio_create_udp_auto, Creation
<1>4. nio_connect_udp_auto = Trial("nio") BY DEF nio_connect_udp_auto, Trial
<1>5. Safe(nio_crossconnect_fifo)
  <2> DEFINE u == Unref("nio", 1, 1)
             w == Unref("nio", 2, 2)
             o == <<Err, u>>
             al == Renames(nio_crossconnect_fifo)
             k == K("nio", "none", 1, "none", al)
             k2 == K("nio", "nio", 1, "none", al)
             e2 == K("none", "nio", 1, "none", al)
  <2>1. nio_crossconnect_fifo = <<Find("nio", 1), FindOr("nio", 2, o), u, w, Ok>>
    BY Join11 DEF nio_crossconnect_fifo, Release
  <2>2. Good(o, k)
    <3>1. Begins(o, Ok, <<u>>) BY Tuples DEF Ok, Err
    <3>2. Begins(<<u>>, u, << >>) BY Tuples
    <3> DEFINE k1 == K("nio", "none", 1, "one", al)
    <3>3. Of(k1, 1) = "nio" /\ Key(k1, 1) = 1 /\ Take(k1, 1, "none") = K("none", "none", 1, "one", al)
      BY Fields
    <3>4. Good(<< >>, K("none", "none", 1, "one", al)) BY Fields, GoodEnd
    <3>5. Good(<<u>>, k1) BY <1>1, <3>2, <3>3, <3>4, GoodUnref
    <3>6. k.ans = "none" /\ Answered(k, "one") = k1 BY Fields
    <3> QED BY <3>1, <3>5, <3>6, GoodReply
  <2>3. Good(<<w, Ok>>, e2)
    <3>1. Of(e2, 2) = "nio" /\ Key(e2, 2) = 2 /\ Take(e2, 2, "none") = K("none", "none", 1, "none", al)
      BY Fields
    <3>2. Begins(<<w, Ok>>, w, <<Ok>>) BY Tuples
    <3> QED BY <1>1, <3>1, <3>2, GoodAnswer, GoodUnref
  <2>4. Good(<<u, w, Ok>>, k2)
    <3>1. Of(k2, 1) = "nio" /\ Key(k2, 1) = 1 /\ Take(k2, 1, "none") = e2 BY Fields
    <3>2. Begins(<<u, w, Ok>>, u, <<w, Ok>>) BY Tuples
    <3> QED BY <1>1, <2>3, <3>1, <3>2, GoodUnref
  <2>5. Good(<<FindOr("nio", 2, o), u, w, Ok>>, k)
    <3>1. Of(k, 2) = "none" /\ Take(k, 2, "nio") = k2 BY Fields
    <3>2. Begins(<<FindOr("nio", 2, o), u, w, Ok>>, FindOr("nio", 2, o), <<u, w, Ok>>)
      BY Tuples
    <3> HIDE DEF k, o, u, w, k2
    <3> QED BY <1>1, <2>2, <2>4, <3>1, <3>2, GoodFind
  <2>6. Begins(nio_crossconnect_fifo, Find("nio", 1), <<FindOr("nio", 2, o), u, w, Ok>>)
    BY <2>1, Tuples
  <2> QED BY <1>1, <2>5, <2>6, GoodLookup DEF Holding, Safe
<1> QED
  BY <1>2, <1>3, <1>4, <1>5
  DEF nio_commands, nio_create_udp, nio_create_unix,
   nio_create_vde, nio_create_tap, nio_create_gen_eth, nio_create_linux_eth,
   nio_create_null, nio_create_fifo, nio_rename,
   nio_delete, nio_set_debug, nio_bind_filter, nio_unbind_filter,
   nio_setup_filter, nio_get_stats, nio_reset_stats, nio_set_bandwidth, nio_list

\* The other commands on objects.
LEMMA ObjectSafe ==
  ASSUME NEW p \in nio_bridge_commands \cup frsw_commands \cup atmsw_commands
                    \cup atm_bridge_commands \cup ethsw_commands
  PROVE  Safe(p)
<1>1. \A t \in {"nio_bridge", "frsw", "atmsw", "atm_bridge", "ethsw"} :
        /\ t \in ObjType
        /\ Safe(Creation(t)) /\ Safe(Deletion(t)) /\ Safe(Renaming(t)) /\ Safe(Change(t))
        /\ Safe(Trial(t)) /\ Safe(Listing(t))
        /\ Safe(Binding(t, {2})) /\ Safe(Unbinding(t, {2}))
        /\ Safe(Binding(t, {2, 3})) /\ Safe(Unbinding(t, {2, 3}))
  <2>1. ASSUME NEW t \in {"nio_bridge", "frsw", "atmsw", "atm_bridge", "ethsw"} PROVE t \in ObjType
    BY DEF ObjType
  <2>2. {2} \in SUBSET {2, 3} /\ {2, 3} \in SUBSET {2, 3} OBVIOUS
  <2> QED BY <2>1, <2>2, ShapesSafe
<1>2. Safe(atm_bridge_configure) /\ Safe(atm_bridge_unconfigure)
  <2> DEFINE t == "atm_bridge"
             u == Unref(t, 1, 1)
             d == <<u, Ok>>
  <2>0. Release(t) = <<u>> /\ Err = Ok BY DEF Release, Err, Ok
  <2>1. t \in ObjType BY <1>1
  <2>2. \A al : Good(d, Holding(t, 1, al)) BY <2>1, GoodRelease
  <2>3. Refused(t) = d BY <2>0, Join11 DEF Refused
  <2> HIDE DEF u
  <2>4. \A al : /\ Good(<<Configure({2, 3}, d), u, Ok>>, Holding(t, 1, al))
                /\ Good(<<UnbindAll, u, Ok>>, Holding(t, 1, al))
    BY <2>1, <2>2, GoodMiddle
  <2>5. ASSUME NEW s, NEW q, q = <<Find(t, 1), s>> \o Release(t) \o <<Ok>>,
               \A al : Good(<<s, u, Ok>>, Holding(t, 1, al))
        PROVE  Safe(q)
    <3>a. <<Find(t, 1), s>> \o <<u>> = <<Find(t, 1), s, u>> BY Join21
    <3>b. <<Find(t, 1), s, u>> \o <<Ok>> = <<Find(t, 1), s, u, Ok>> BY Join31
    <3>1. q = <<Find(t, 1), s, u, Ok>> BY <2>0, <2>5, <3>a, <3>b
    <3>2. Begins(q, Find(t, 1), <<s, u, Ok>>) BY <3>1, Tuples
    <3> QED BY <2>1, <2>5, <3>2, GoodLookup DEF Safe
  <2>6. Safe(atm_bridge_configure) BY <2>3, <2>4, <2>5 DEF atm_bridge_configure
  <2>7. Safe(atm_bridge_unconfigure) BY <2>4, <2>5 DEF atm_bridge_unconfigure
  <2> QED BY <2>6, <2>7
<1>3. CASE p \in nio_bridge_commands
 
    BY <1>1, <1>3 DEF nio_bridge_commands, nio_bridge_create, nio_bridge_rename, nio_bridge_delete,
    nio_bridge_add_nio, nio_bridge_remove_nio, nio_bridge_list
<1>4. CASE p \in frsw_commands
  BY <1>1, <1>4 DEF frsw_commands, frsw_create, frsw_rename, frsw_delete, frsw_create_vc,
    frsw_delete_vc, frsw_list
<1>5. CASE p \in atmsw_commands
 
    BY <1>1, <1>5 DEF atmsw_commands, atmsw_create, atmsw_rename, atmsw_delete, atmsw_create_vpc,
    atmsw_delete_vpc, atmsw_create_vcc, atmsw_delete_vcc, atmsw_list
<1>6. CASE p \in atm_bridge_commands
  BY <1>1, <1>2, <1>6 DEF atm_bridge_commands, atm_bridge_create, atm_bridge_rename,
    atm_bridge_delete, atm_bridge_list
<1>7. CASE p \in ethsw_commands
  BY <1>1, <1>7 DEF ethsw_commands, ethsw_create, ethsw_rename, ethsw_delete, ethsw_add_nio,
    ethsw_remove_nio, ethsw_set_access_port, ethsw_set_dot1q_port, ethsw_set_qinq_port,
    ethsw_clear_mac_addr_table, ethsw_show_mac_addr_table, ethsw_list
<1> QED BY <1>3, <1>4, <1>5, <1>6, <1>7

\* The commands on stored objects.
LEMMA StoreSafe == ASSUME NEW p \in store_commands PROVE Safe(p)
<1> DEFINE t == "store"
           d == <<UnrefOwn(1), Ok>>
<1>0. t \in ObjType /\ Err = Ok BY DEF ObjType, Err, Ok
<1>1. \A key, al : Good(d, Holding(t, key, al)) BY <1>0, GoodOwn
<1>2. store_refused = d BY <1>0 DEF store_refused
<1>3. Safe(store_write)
  <2>1. store_write = <<Make(t, 1), UnrefOwn(1), Ok>> BY DEF store_write
  <2> QED BY <1>0, <1>1, <2>1, GoodCreation DEF Safe
<1>4. Safe(store_read)
  <2>1. Begins(store_read, Find(t, 1), <<Attempt(d), UnrefOwn(1), Ok>>)
    BY <1>2, Tuples DEF store_read
  <2>2. \A al : Good(<<Attempt(d), UnrefOwn(1), Ok>>, Holding(t, 1, al))
    <3>1. {2} \in SUBSET {2, 3} OBVIOUS
    <3> QED BY <1>0, <1>1, <3>1, GoodMiddle
  <2> QED BY <1>0, <2>1, <2>2, GoodLookup DEF Safe
<1>5. Safe(store_rename)
  <2>1. store_rename = <<Find(t, 1), Exists(t, 2, d), Attempt(d), Rename(t, d), UnrefOwn(1), Ok>>
    BY <1>2 DEF store_rename
  <2>2. Good(d, Holding(t, 1, TRUE)) /\ Good(<<UnrefOwn(1), Ok>>, Holding(t, 2, TRUE))
    BY <1>1
  <2> HIDE DEF d
  <2>3. Good(store_rename, Start(TRUE)) BY <1>0, <2>1, <2>2, GoodRenaming
  <2> QED BY <2>1, <2>3, RenamingSafe
<1>6. Safe(store_delete) BY <1>0, GoodDeletion DEF store_delete, Safe
<1>7. Safe(store_delete_all)
  <2>1. Begins(<<DeleteType(t), Ok>>, DeleteType(t), <<Ok>>) BY Tuples
  <2> QED BY <2>1, GoodStart, GoodDeleteType DEF store_delete_all, Safe
<1>8. Safe(store_list) BY GoodListing DEF store_list, Safe
<1> QED
  BY <1>3, <1>4, <1>5, <1>6, <1>7, <1>8, AnswerSafe DEF store_commands, store_write_undecoded

-----------------------------------------------------------------------------
(* The commands on VMs.                                                    *)

\* An answer, and a VM that is not given up.
LEMMA GoodForgotten ==
  ASSUME NEW al PROVE Good(<<Ok, Forget>>, Holding("vm", 1, al))
<1> DEFINE k == Holding("vm", 1, al)
           k1 == K("vm", "none", 1, "one", al)
           x == <<Ok, Forget>>
<1>1. /\ k.ans = "none" /\ Answered(k, "one") = k1
      /\ k1.one # "none" /\ Take(k1, 1, "none") = K("none", "none", 1, "one", al)
  BY Fields DEF Holding
<1>2. Good(<< >>, K("none", "none", 1, "one", al)) BY Fields, GoodEnd
<1>3. Begins(x, Ok, <<Forget>>) /\ Begins(<<Forget>>, Forget, << >>) BY Tuples
<1> HIDE DEF k1, x, k
<1>4. Good(<<Forget>>, k1) BY <1>1, <1>2, <1>3, GoodForget
<1>5. Good(x, k) BY <1>1, <1>3, <1>4, GoodReply
<1> QED BY <1>5 DEF x, k

\* The shapes whose handlers give a VM up by its own name.
LEMMA VmShapes ==
  ASSUME NEW look, NEW p,
         \/ look = Find("vm", 1)
         \/ \E plat : look = FindVm(plat, 1)
  PROVE  /\ p = <<look>> \o VmDone => Safe(p)
         /\ p = <<look, Attempt(VmRefused)>> \o VmDone => Safe(p)
         /\ p = <<look, Bind({2}, VmRefused)>> \o VmDone => Safe(p)
         /\ p = <<look, Unbind({2}, VmRefused)>> \o VmDone => Safe(p)
         /\ p = <<look, Attempt(<<Err, Forget>>), Attempt(VmRefused)>> \o VmDone => Safe(p)
         /\ p = <<look, Ok, UnrefOwn(1)>> => Safe(p)
<1> DEFINE u == UnrefOwn(1)
           d == <<u, Ok>>
           x == <<Ok, Forget>>
           H(al) == Holding("vm", 1, al)
<1>0. "vm" \in ObjType /\ Err = Ok /\ VmDone = d /\ VmRefused = d
  BY DEF ObjType, Err, Ok, VmDone, VmRefused
<1>1. \A al : Good(d, H(al)) BY <1>0, GoodOwn
<1>2. ASSUME NEW r, NEW al, Begins(p, look, r), Good(r, H(al)) PROVE Good(p, Start(al))
  BY <1>0, <1>2, GoodLookup, GoodLookupVm
<1>3. \A al : /\ Good(<<Attempt(d), u, Ok>>, H(al))
              /\ Good(<<Bind({2}, d), u, Ok>>, H(al))
              /\ Good(<<Unbind({2}, d), u, Ok>>, H(al))
  <2>1. {2} \in SUBSET {2, 3} OBVIOUS
  <2> QED BY <1>0, <1>1, <2>1, GoodMiddle
<1>4. ASSUME NEW al PROVE Good(x, H(al)) BY GoodForgotten
<1>5. ASSUME NEW al PROVE Good(<<Attempt(x), Attempt(d), u, Ok>>, H(al))
  <2>1. Begins(<<Attempt(x), Attempt(d), u, Ok>>, Attempt(x), <<Attempt(d), u, Ok>>)
    BY Tuples
  <2> HIDE DEF x, d, u, H
  <2> QED BY <1>3, <1>4, <2>1, GoodAttempt
<1>6. ASSUME NEW al PROVE Good(<<Ok, u>>, H(al))
  <2> DEFINE k1 == K("vm", "none", 1, "one", al)
  <2>1. /\ H(al).ans = "none" /\ Answered(H(al), "one") = k1
        /\ Of(k1, 1) # "none" /\ Take(k1, 1, "none") = K("none", "none", 1, "one", al)
    BY Fields DEF Holding
  <2>2. Good(<< >>, K("none", "none", 1, "one", al)) BY Fields, GoodEnd
  <2>3. Begins(<<Ok, u>>, Ok, <<u>>) /\ Begins(<<u>>, u, << >>) BY Tuples
  <2> HIDE DEF k1, H
  <2>4. Good(<<u>>, k1) BY <2>1, <2>2, <2>3, GoodUnrefOwn
  <2> QED BY <2>1, <2>3, <2>4, GoodReply
<1>7. ASSUME NEW s, p = <<look, s>> \o VmDone, \A al : Good(<<s, u, Ok>>, H(al)) PROVE Safe(p)
  <2>1. p = <<look, s, u, Ok>> BY <1>0, <1>7, Join22
  <2>2. Begins(p, look, <<s, u, Ok>>) BY <2>1, Tuples
  <2> QED BY <1>2, <1>7, <2>2 DEF Safe
<1>8. ASSUME p = <<look>> \o VmDone PROVE Safe(p)
  <2>1. p = <<look, u, Ok>> BY <1>0, <1>8, Join12
  <2>2. Begins(p, look, d) BY <2>1, Tuples
  <2> QED BY <1>1, <1>2, <2>2 DEF Safe
<1>9. ASSUME p = <<look, Attempt(<<Err, Forget>>), Attempt(VmRefused)>> \o VmDone PROVE Safe(p)
  <2>1. p = <<look, Attempt(x), Attempt(d), u, Ok>> BY <1>0, <1>9, Join32
  <2>2. Begins(p, look, <<Attempt(x), Attempt(d), u, Ok>>) BY <2>1, Tuples
  <2> QED BY <1>2, <1>5, <2>2 DEF Safe
<1>10. ASSUME p = <<look, Ok, UnrefOwn(1)>> PROVE Safe(p)
  <2>1. Begins(p, look, <<Ok, u>>) BY <1>10, Tuples
  <2> QED BY <1>2, <1>6, <2>1 DEF Safe
<1> HIDE DEF u, d, x, H
<1> QED BY <1>0, <1>3, <1>7, <1>8, <1>9, <1>10

\* The commands of hv_vm.c.
LEMMA VmSafe == ASSUME NEW p \in vm_commands PROVE Safe(p)
<1>1. Safe(VmChange) BY VmShapes DEF VmChange
<1>2. Safe(VmTrial) BY VmShapes DEF VmTrial
<1>3. Safe(OnCpu) BY VmShapes DEF OnCpu, find_cpu
<1>4. Safe(vm_send_con_msg) BY VmShapes DEF vm_send_con_msg
<1>5. Safe(vm_send_aux_msg) BY VmShapes DEF vm_send_aux_msg
<1>6. Safe(vm_slot_add_nio_binding) BY VmShapes DEF vm_slot_add_nio_binding
<1>7. Safe(vm_slot_remove_nio_binding) BY VmShapes DEF vm_slot_remove_nio_binding
<1> DEFINE u == UnrefOwn(1)
           d == <<u, Ok>>
           x == <<Ok, Forget>>
           y == <<Forget, Silence>>
           H(al) == Holding("vm", 1, al)
<1>0. "vm" \in ObjType /\ Err = Ok /\ VmDone = d /\ VmRefused = d
  BY DEF ObjType, Err, Ok, VmDone, VmRefused
<1>a. \A key, al : Good(d, Holding("vm", key, al)) BY <1>0, GoodOwn
<1>8. Safe(vm_create)
  <2>1. vm_create = <<Make("vm", 1), u, Ok>> BY <1>0, Join12 DEF vm_create
  <2> QED BY <1>0, <1>a, <2>1, GoodCreation DEF Safe
<1>9. Safe(vm_rename)
  <2>1. vm_rename = <<Find("vm", 1), Exists("vm", 2, d), Attempt(x), Rename("vm", x), u, Ok>>
    BY <1>0, Join42 DEF vm_rename
  <2>2. Good(x, Holding("vm", 1, TRUE)) BY GoodForgotten
  <2>3. Good(d, Holding("vm", 1, TRUE)) /\ Good(<<u, Ok>>, Holding("vm", 2, TRUE)) BY <1>a
  <2> HIDE DEF d, x, u
  <2>4. Good(vm_rename, Start(TRUE)) BY <1>0, <2>1, <2>2, <2>3, GoodRenaming
  <2> QED BY <2>1, <2>4, RenamingSafe
<1>10. Safe(vm_delete) BY <1>0, GoodDeletion DEF vm_delete, Deletion, Safe
<1>11. Safe(vm_clean_delete)
  <2> DEFINE del == Delete("vm", <<Err>>, <<Err>>)
             al == Renames(vm_clean_delete)
  <2>1. vm_clean_delete = <<Find("vm", 1), u, del, Ok>>
    BY Join22 DEF vm_clean_delete, Deletion
  <2>2. Good(<<del, Ok>>, Start(al)) BY <1>0, GoodDeletion
  <2>3. Of(H(al), 1) # "none" /\ Take(H(al), 1, "none") = Start(al)
    BY Fields DEF Holding, Start
  <2>4. Begins(<<u, del, Ok>>, u, <<del, Ok>>) BY Tuples
  <2>5. Begins(vm_clean_delete, Find("vm", 1), <<u, del, Ok>>) BY <2>1, Tuples
  <2> HIDE DEF del, al
  <2>6. Good(<<u, del, Ok>>, H(al)) BY <2>2, <2>3, <2>4, GoodUnrefOwn
  <2>7. Good(vm_clean_delete, Start(al)) BY <1>0, <2>5, <2>6, GoodLookup
  <2> QED BY <2>7 DEF Safe, al
<1>12. Safe(vm_show_cpu_usage)
  <2> DEFINE al == Renames(vm_show_cpu_usage)
             k1 == K("none", "none", 1, "none", al)
             k2 == K("none", "none", 1, "never", al)
  <2>1. Begins(vm_show_cpu_usage, Find("vm", 1), <<Attempt(y), u, Ok>>)
    BY Tuples DEF vm_show_cpu_usage
  <2>2. Begins(<<Attempt(y), u, Ok>>, Attempt(y), d) BY Tuples
  <2>3. Begins(y, Forget, <<Silence>>) /\ Begins(<<Silence>>, Silence, << >>) BY Tuples
  <2>4. H(al).one # "none" /\ Take(H(al), 1, "none") = k1 /\ Answered(k1, "never") = k2
    BY Fields DEF Holding
  <2>5. Good(<< >>, k2) BY Fields, GoodEnd
  <2>6. Good(d, H(al)) BY <1>a
  <2> HIDE DEF al, k1, k2, y, d, H
  <2>7. Good(<<Silence>>, k1) BY <2>3, <2>4, <2>5, GoodSilence
  <2>8. Good(y, H(al)) BY <2>3, <2>4, <2>7, GoodForget
  <2>9. Good(<<Attempt(y), u, Ok>>, H(al)) BY <2>2, <2>6, <2>8, GoodAttempt
  <2> QED BY <1>0, <2>1, <2>9, GoodLookup DEF Safe, H, al
<1>13. Safe(vm_list) /\ Safe(vm_list_con_ports)
  BY GoodListing DEF vm_list, vm_list_con_ports, Safe
<1> QED
  BY <1>1, <1>2, <1>3, <1>4, <1>5, <1>6, <1>7, <1>8, <1>9, <1>10, <1>11, <1>12, <1>13
  DEF vm_commands, vm_start, vm_stop, vm_get_status, vm_set_debug_level, vm_set_ios,
    vm_set_config, vm_set_ram, vm_set_nvram, vm_set_ram_mmap, vm_set_sparse_mem,
    vm_set_clock_divisor, vm_set_blk_direct_jump, vm_set_idle_pc, vm_set_idle_pc_online,
    vm_get_idle_pc_prop, vm_show_idle_pc_prop, vm_set_idle_max, vm_set_idle_sleep_time,
    vm_show_timer_drift, vm_set_exec_area, vm_set_ghost_file, vm_set_ghost_status,
    vm_set_disk0, vm_set_disk1, vm_set_conf_reg, vm_set_con_tcp_port, vm_set_aux_tcp_port,
    vm_extract_config, vm_push_config, vm_show_cpu_info, vm_suspend, vm_resume,
    vm_slot_bindings, vm_slot_nio_bindings, vm_slot_add_binding, vm_slot_remove_binding,
    vm_slot_enable_nio, vm_slot_disable_nio, vm_slot_oir_start, vm_slot_oir_stop

\* The commands of hv_vm_debug.c.
LEMMA DebugSafe == ASSUME NEW p \in vm_debug_commands PROVE Safe(p)
<1>1. Safe(VmChange) BY VmShapes DEF VmChange
<1>2. Safe(VmTrial) BY VmShapes DEF VmTrial
<1>3. Safe(OnCpu) BY VmShapes DEF OnCpu, find_cpu
<1> QED
  BY <1>1, <1>2, <1>3
  DEF vm_debug_commands, show_cpu_regs, show_cpu_mmu, set_cpu_reg, add_cpu_breakpoint,
    remove_cpu_breakpoint, pmem_w32, pmem_r32, pmem_w16, pmem_r16, pmem_cfind

\* The commands of the platforms (hv_c*.c).
LEMMA PlatformSafe ==
  ASSUME NEW p \in c7200_commands \cup c3600_commands \cup c2691_commands \cup c3725_commands
                    \cup c3745_commands \cup c2600_commands \cup c1700_commands
  PROVE  Safe(p)
<1>1. \A plat : Safe(PlatformChange(plat)) /\ Safe(PlatformTrial(plat)) /\ Safe(PlatformRead(plat))
  BY VmShapes DEF PlatformChange, PlatformTrial, PlatformRead
<1>2. Safe(Listing("vm")) BY GoodListing DEF Safe
<1>3. CASE p \in c7200_commands
  BY <1>1, <1>2, <1>3 DEF c7200_commands, c7200_set_npe, c7200_set_midplane,
    c7200_set_system_id, c7200_get_mac_addr, c7200_set_mac_addr, c7200_set_temp_sensor,
    c7200_set_power_supply, c7200_show_hardware, c7200_list
<1>4. CASE p \in c3600_commands
  BY <1>1, <1>2, <1>4 DEF c3600_commands, c3600_set_chassis, c3600_set_iomem,
    c3600_set_system_id, c3600_get_mac_addr, c3600_set_mac_addr, c3600_show_hardware,
    c3600_list
<1>5. CASE p \in c2691_commands
  BY <1>1, <1>2, <1>5 DEF c2691_commands, c2691_set_iomem, c2691_set_system_id,
    c2691_get_mac_addr, c2691_set_mac_addr, c2691_show_hardware, c2691_list
<1>6. CASE p \in c3725_commands
  BY <1>1, <1>2, <1>6 DEF c3725_commands, c3725_set_iomem, c3725_set_system_id,
    c3725_get_mac_addr, c3725_set_mac_addr, c3725_show_hardware, c3725_list
<1>7. CASE p \in c3745_commands
  BY <1>1, <1>2, <1>7 DEF c3745_commands, c3745_set_iomem, c3745_set_system_id,
    c3745_get_mac_addr, c3745_set_mac_addr, c3745_show_hardware, c3745_list
<1>8. CASE p \in c2600_commands
  BY <1>1, <1>2, <1>8 DEF c2600_commands, c2600_set_chassis, c2600_set_iomem,
    c2600_set_system_id, c2600_get_mac_addr, c2600_set_mac_addr, c2600_show_hardware,
    c2600_list
<1>9. CASE p \in c1700_commands
  BY <1>1, <1>2, <1>9 DEF c1700_commands, c1700_set_chassis, c1700_set_iomem,
    c1700_set_system_id, c1700_get_mac_addr, c1700_set_mac_addr, c1700_show_hardware,
    c1700_list
<1> QED BY <1>3, <1>4, <1>5, <1>6, <1>7, <1>8, <1>9

\* The commands of the hypervisor itself (hypervisor.c).
LEMMA HypervisorSafe == ASSUME NEW p \in hypervisor_commands PROVE Safe(p)
<1> DEFINE al == Renames(p)
<1>1. ASSUME NEW t, NEW q, NEW r, Begins(q, DeleteType(t), r), Good(r, Start(al))
      PROVE  Good(q, Start(al))
  BY <1>1, GoodDeleteType
<1>2. ASSUME NEW t, NEW q, NEW r, Begins(q, Walk(t), r), Good(r, Start(al))
      PROVE  Good(q, Start(al))
  BY <1>2, GoodWalk
<1>3. Good(<<Ok>>, Start(al)) /\ Good(<<Err>>, Start(al)) BY GoodStart
<1>4. ASSUME p \in {close, stop} PROVE Safe(p)
  <2> DEFINE k == K("none", "none", 1, "none", al)
             k1 == K("none", "none", 1, "one", al)
  <2>1. k.ans = "none" /\ Answered(k, "one") = k1 BY Fields
  <2>2. Good(<< >>, k1) BY Fields, GoodEnd
  <2>3. \A s : Begins(<<Ok, s>>, Ok, <<s>>) /\ Begins(<<s>>, s, << >>) BY Tuples
  <2> HIDE DEF k, k1
  <2>4. Good(<<Deactivate>>, k1) BY <2>2, <2>3, GoodDeactivate
  <2>5. Good(<<Halt>>, k1) BY <2>2, <2>3, GoodHalt
  <2>6. Good(<<Ok, Deactivate>>, k) BY <2>1, <2>3, <2>4, GoodReply
  <2>7. Good(<<Ok, Halt>>, k) BY <2>1, <2>3, <2>5, GoodReply
  <2> QED BY <1>4, <2>6, <2>7 DEF close, stop, Safe, Start, k
<1>5. ASSUME p = save_config PROVE Safe(p)
  <2> DEFINE w1 == <<Walk("vm"), Ok>>
             w2 == <<Walk("nio_bridge"), Walk("vm"), Ok>>
             w3 == <<Walk("atmsw"), Walk("nio_bridge"), Walk("vm"), Ok>>
             w4 == <<Walk("frsw"), Walk("atmsw"), Walk("nio_bridge"), Walk("vm"), Ok>>
  <2>1. Begins(w1, Walk("vm"), <<Ok>>) BY Tuples
  <2>2. Begins(w2, Walk("nio_bridge"), w1) BY Tuples
  <2>3. Begins(w3, Walk("atmsw"), w2) BY Tuples
  <2>4. Begins(w4, Walk("frsw"), w3) BY Tuples
  <2>5. Begins(p, Walk("nio"), w4) BY <1>5, Tuples DEF save_config
  <2> HIDE DEF al, w1, w2, w3, w4
  <2>6. Good(w2, Start(al)) BY <1>2, <1>3, <2>1, <2>2
  <2>7. Good(p, Start(al)) BY <1>2, <2>3, <2>4, <2>5, <2>6
  <2> QED BY <2>7 DEF Safe, al
<1>6. ASSUME p = reset PROVE Safe(p)
  <2> DEFINE D(t) == DeleteType(t)
             w1 == <<D("nio"), Ok>>
             w2 == <<D("ethsw"), D("nio"), Ok>>
             w3 == <<D("frsw"), D("ethsw"), D("nio"), Ok>>
             w4 == <<D("atm_bridge"), D("frsw"), D("ethsw"), D("nio"), Ok>>
             w5 == <<D("atmsw"), D("atm_bridge"), D("frsw"), D("ethsw"), D("nio"), Ok>>
             w6 == <<D("nio_bridge"), D("atmsw"), D("atm_bridge"), D("frsw"), D("ethsw"),
                     D("nio"), Ok>>
  <2>1. Begins(w1, D("nio"), <<Ok>>) BY Tuples
  <2>2. Begins(w2, D("ethsw"), w1) BY Tuples
  <2>3. Begins(w3, D("frsw"), w2) BY Tuples
  <2>4. Begins(w4, D("atm_bridge"), w3) BY Tuples
  <2>5. Begins(w5, D("atmsw"), w4) BY Tuples
  <2>6. Begins(w6, D("nio_bridge"), w5) BY DEF Begins
  <2>7. Begins(p, D("vm"), w6)
    <3>1. p = <<D("vm"), D("nio_bridge"), D("atmsw"), D("atm_bridge"), D("frsw"), D("ethsw"),
                D("nio"), Ok>>
      BY <1>6, Join71 DEF reset, dynamips_reset
    <3> QED BY <3>1 DEF Begins
  <2> HIDE DEF al, w1, w2, w3, w4, w5, w6
  <2>8. Good(w3, Start(al)) BY <1>1, <1>3, <2>1, <2>2, <2>3
  <2>9. Good(w6, Start(al)) BY <1>1, <2>4, <2>5, <2>6, <2>8
  <2> QED BY <1>1, <2>7, <2>9 DEF Safe, al
<1> QED
  BY <1>3, <1>4, <1>5, <1>6
  DEF hypervisor_commands, version, parser_test, module_list, cmd_list, cmd_list_unknown,
    working_dir, working_dir_absent, save_config_unopened, Safe

\* Every line.
LEMMA LinesSafe == ASSUME HypervisorAssumption, scope \in Scopes, NEW p \in Lines PROVE Safe(p)
<1>1. ASSUME NEW m \in DOMAIN Modules, p \in Modules[m] PROVE Safe(p)
  BY <1>1, NioSafe, ObjectSafe, StoreSafe, VmSafe, DebugSafe, PlatformSafe, HypervisorSafe
  DEF Modules
<1>2. p = refused_line => Safe(p) BY AnswerSafe DEF refused_line
<1>3. scope.modules \subseteq DOMAIN Modules BY DEF HypervisorAssumption
<1> QED BY <1>1, <1>2, <1>3 DEF Lines

-----------------------------------------------------------------------------
(* Counting holders and bindings.                                          *)

HoldersIn(q, o) == {h \in Conn \X (1 .. 2) : q[h[1]][h[2]] = o}
BindingsIn(u, S, o) == {b \in S \X (1 .. MaxUse) : b[2] <= u[b[1]][o]}

One(x, o) == IF x = o THEN 1 ELSE 0
Grown(A, B, d) == IsFiniteSet(B) /\ Cardinality(B) = Cardinality(A) + d

\* A pointer that is set adds one holder.
LEMMA AddHolder ==
  ASSUME NEW q \in [Conn -> [1 .. 2 -> 0 .. MaxObj]], NEW c \in Conn, NEW n \in 1 .. 2,
         NEW o \in Obj, NEW x \in Obj, q[c][n] = NoObj, IsFiniteSet(HoldersIn(q, x)),
         NEW r, r = [q EXCEPT ![c][n] = o]
  PROVE  Grown(HoldersIn(q, x), HoldersIn(r, x), One(x, o))
<1>0. o # NoObj /\ x # NoObj BY DEF Obj, NoObj
<1>1. \A d \in Conn, m \in 1 .. 2 : r[d][m] = IF d = c /\ m = n THEN o ELSE q[d][m] OBVIOUS
<1>2. <<c, n>> \notin HoldersIn(q, x) BY <1>0 DEF HoldersIn
<1>3. CASE x = o
  <2>1. HoldersIn(r, x) = HoldersIn(q, x) \cup {<<c, n>>} BY <1>1, <1>3 DEF HoldersIn
  <2> DEFINE A == HoldersIn(q, x)
             h == <<c, n>>
  <2> HIDE DEF A, h
  <2>2. IsFiniteSet(A) /\ h \notin A BY <1>2 DEF A, h
  <2>3. IsFiniteSet(A \cup {h}) /\ Cardinality(A \cup {h}) = Cardinality(A) + 1
    BY <2>2, FS_AddElement
  <2>4. HoldersIn(r, x) = A \cup {h} BY <2>1 DEF A, h
  <2> QED BY <1>3, <2>3, <2>4 DEF A, One, Grown
<1>4. CASE x # o
  <2>1. HoldersIn(r, x) = HoldersIn(q, x) BY <1>0, <1>1, <1>4 DEF HoldersIn
  <2>2. Cardinality(HoldersIn(q, x)) \in Nat BY FS_CardinalityType
  <2> QED BY <1>4, <2>1, <2>2 DEF One, Grown
<1> QED BY <1>3, <1>4

\* A pointer that is cleared takes one holder away.
LEMMA DropHolder ==
  ASSUME NEW q \in [Conn -> [1 .. 2 -> 0 .. MaxObj]], NEW c \in Conn, NEW n \in 1 .. 2,
         NEW o \in Obj, NEW x \in Obj, q[c][n] = o, IsFiniteSet(HoldersIn(q, x)),
         NEW r, r = [q EXCEPT ![c][n] = NoObj]
  PROVE  Grown(HoldersIn(q, x), HoldersIn(r, x), -One(x, o))
<1>0. o # NoObj /\ x # NoObj BY DEF Obj, NoObj
<1>1. \A d \in Conn, m \in 1 .. 2 : r[d][m] = IF d = c /\ m = n THEN NoObj ELSE q[d][m]
  BY DEF NoObj
<1>3. CASE x = o
  <2>1. HoldersIn(r, x) = HoldersIn(q, x) \ {<<c, n>>} BY <1>0, <1>1, <1>3 DEF HoldersIn
  <2>2. <<c, n>> \in HoldersIn(q, x) BY <1>3 DEF HoldersIn
  <2> DEFINE A == HoldersIn(q, x)
             h == <<c, n>>
  <2> HIDE DEF A, h
  <2>3. IsFiniteSet(A) /\ h \in A BY <2>2 DEF A, h
  <2>4. IsFiniteSet(A \ {h}) /\ Cardinality(A \ {h}) = Cardinality(A) - 1
    BY <2>3, FS_RemoveElement
  <2>5. HoldersIn(r, x) = A \ {h} BY <2>1 DEF A, h
  <2> QED BY <1>3, <2>4, <2>5 DEF A, One, Grown
<1>4. CASE x # o
  <2>1. HoldersIn(r, x) = HoldersIn(q, x) BY <1>0, <1>1, <1>4 DEF HoldersIn
  <2>2. Cardinality(HoldersIn(q, x)) \in Nat BY FS_CardinalityType
  <2> QED BY <1>4, <2>1, <2>2 DEF One, Grown
<1> QED BY <1>3, <1>4

Table == [Obj -> [Obj -> 0 .. MaxUse]]

\* The bindings of an object can be counted.
LEMMA BindingsFinite ==
  ASSUME HypervisorAssumption, NEW u, NEW S \in SUBSET Obj, NEW o
  PROVE  /\ IsFiniteSet(BindingsIn(u, S, o))
         /\ Cardinality(BindingsIn(u, S, o)) \in Nat
<1>1. IsFiniteSet(Obj) BY FS_Interval DEF Obj, HypervisorAssumption
<1>2. IsFiniteSet(S) BY <1>1, FS_Subset
<1>3. IsFiniteSet(1 .. MaxUse) BY FS_Interval DEF HypervisorAssumption
<1>4. IsFiniteSet(S \X (1 .. MaxUse)) BY <1>2, <1>3, FS_Product
<1>5. BindingsIn(u, S, o) \in SUBSET (S \X (1 .. MaxUse)) BY DEF BindingsIn
<1>6. IsFiniteSet(BindingsIn(u, S, o)) BY <1>4, <1>5, FS_Subset
<1> QED BY <1>6, FS_CardinalityType

\* What one object binds.
LEMMA RowCount ==
  ASSUME HypervisorAssumption, NEW u \in Table, NEW b \in Obj, NEW o \in Obj
  PROVE  Cardinality(BindingsIn(u, {b}, o)) = u[b][o]
<1> DEFINE m == u[b][o]
           V == BindingsIn(u, {b}, o)
           f == [i \in 1 .. m |-> <<b, i>>]
<1>1. m \in Nat /\ m <= MaxUse /\ MaxUse \in Nat BY DEF Table, HypervisorAssumption
<1>2. V = {<<b, i>> : i \in 1 .. m} BY <1>1 DEF BindingsIn
<1> HIDE DEF m, V
<1>3. f \in Bijection(1 .. m, V) BY <1>2, Fun_IsBij
<1>4. ExistsBijection(1 .. m, V) BY <1>3, Fun_ExistsBij
<1> QED BY <1>1, <1>4, FS_CountingElements DEF V, m

\* The bindings of some objects and those of the others.
LEMMA Split ==
  ASSUME HypervisorAssumption, NEW u, NEW D \in SUBSET Obj, NEW o
  PROVE  Cardinality(BindingsIn(u, Obj, o))
           = Cardinality(BindingsIn(u, Obj \ D, o)) + Cardinality(BindingsIn(u, D, o))
<1>1. BindingsIn(u, Obj, o) = BindingsIn(u, Obj \ D, o) \cup BindingsIn(u, D, o)
  BY DEF BindingsIn
<1>2. BindingsIn(u, Obj \ D, o) \cap BindingsIn(u, D, o) = {} BY DEF BindingsIn
<1>3. \A S \in SUBSET Obj : IsFiniteSet(BindingsIn(u, S, o)) /\ Cardinality(BindingsIn(u, S, o)) \in Nat
  BY BindingsFinite
<1>4. Cardinality({}) = 0 BY FS_EmptySet
<1>5. Obj \ D \in SUBSET Obj OBVIOUS
<1> DEFINE A == BindingsIn(u, Obj \ D, o)
           E == BindingsIn(u, D, o)
<1>6. IsFiniteSet(A) /\ IsFiniteSet(E) /\ Cardinality(A) \in Nat /\ Cardinality(E) \in Nat
  BY <1>3, <1>5
<1>7. A \cap E = {} BY <1>2
<1> HIDE DEF A, E
<1>8. Cardinality(A \cup E) = Cardinality(A) + Cardinality(E) - Cardinality(A \cap E)
  BY <1>6, FS_Union
<1>a. Cardinality(A \cap E) = 0 BY <1>4, <1>7
<1>9. Cardinality(A \cup E) = Cardinality(A) + Cardinality(E) BY <1>6, <1>8, <1>a
<1> QED BY <1>1, <1>9 DEF A, E

Sum(a, b, d) == a = b + d

\* The bindings to an NIO when one object binds others.
LEMMA RebindCount ==
  ASSUME HypervisorAssumption, NEW u \in Table, NEW b \in Obj, NEW bag \in [Obj -> 0 .. MaxUse],
         NEW o \in Obj, NEW v, v = [u EXCEPT ![b] = bag]
  PROVE  Sum(Cardinality(BindingsIn(v, Obj, o)), Cardinality(BindingsIn(u, Obj, o)),
             bag[o] - u[b][o])
<1> DEFINE n(w, S) == Cardinality(BindingsIn(w, S, o))
<1>1. v \in Table /\ v[b] = bag /\ \A x \in Obj \ {b} : v[x] = u[x] BY DEF Table
<1>t. u[b][o] \in Nat /\ bag[o] \in Nat BY DEF Table, HypervisorAssumption
<1>2. BindingsIn(v, Obj \ {b}, o) = BindingsIn(u, Obj \ {b}, o) BY <1>1 DEF BindingsIn
<1>3. n(v, {b}) = bag[o] /\ n(u, {b}) = u[b][o]
  <2>1. v \in Table BY <1>1
  <2>2. Cardinality(BindingsIn(v, {b}, o)) = v[b][o] BY <2>1, RowCount
  <2>3. Cardinality(BindingsIn(u, {b}, o)) = u[b][o] BY RowCount
  <2> QED BY <1>1, <2>2, <2>3
<1>4. {b} \in SUBSET Obj /\ Obj \ {b} \in SUBSET Obj OBVIOUS
<1>5. n(v, Obj) = n(v, Obj \ {b}) + n(v, {b}) BY <1>4, Split
<1>6. n(u, Obj) = n(u, Obj \ {b}) + n(u, {b}) BY <1>4, Split
<1>7. n(u, Obj \ {b}) \in Nat BY <1>4, BindingsFinite
<1>8. n(v, Obj \ {b}) = n(u, Obj \ {b}) BY <1>2
<1> HIDE DEF n
<1>9. n(v, Obj) = n(u, Obj) + (bag[o] - u[b][o]) BY <1>3, <1>5, <1>6, <1>7, <1>8, <1>t
<1> QED BY <1>9 DEF n, Sum

\* The bindings to an NIO when some objects bind nothing any more.
LEMMA DestroyCount ==
  ASSUME HypervisorAssumption, NEW u \in Table, NEW D \in SUBSET Obj, NEW o \in Obj,
         NEW v, v = [x \in Obj |-> IF x \in D THEN [n \in Obj |-> 0] ELSE u[x]]
  PROVE  /\ v \in Table
         /\ Sum(Cardinality(BindingsIn(u, Obj, o)), Cardinality(BindingsIn(v, Obj, o)),
                Cardinality(BindingsIn(u, D, o)))
<1>0. MaxUse \in Nat BY DEF HypervisorAssumption
<1>1. v \in Table /\ (\A x \in D : v[x][o] = 0) /\ \A x \in Obj \ D : v[x] = u[x]
  BY <1>0 DEF Table
<1>2. BindingsIn(v, Obj \ D, o) = BindingsIn(u, Obj \ D, o) BY <1>1 DEF BindingsIn
<1>3. BindingsIn(v, D, o) = {} BY <1>0, <1>1 DEF BindingsIn
<1>4. Cardinality(BindingsIn(v, D, o)) = 0 BY <1>3, FS_EmptySet
<1>5. \A S \in SUBSET Obj : Cardinality(BindingsIn(u, S, o)) \in Nat BY BindingsFinite
<1>6. Obj \ D \in SUBSET Obj OBVIOUS
<1>7. Cardinality(BindingsIn(v, Obj, o)) = Cardinality(BindingsIn(u, Obj \ D, o)) + 0
  BY <1>2, <1>4, Split
<1>8. Cardinality(BindingsIn(u, Obj, o))
        = Cardinality(BindingsIn(u, Obj \ D, o)) + Cardinality(BindingsIn(u, D, o))
  BY Split
<1>9. Cardinality(BindingsIn(u, Obj \ D, o)) \in Nat /\ Cardinality(BindingsIn(u, D, o)) \in Nat
  BY <1>5, <1>6
<1> QED BY <1>1, <1>7, <1>8, <1>9 DEF Sum

\* An NIO without bindings is bound by no object.
LEMMA NoBindings ==
  ASSUME HypervisorAssumption, NEW u \in Table, NEW o \in Obj, NEW s \in Obj,
         Cardinality(BindingsIn(u, Obj, o)) = 0
  PROVE  u[s][o] = 0
<1>1. BindingsIn(u, Obj, o) = {} BY BindingsFinite, FS_EmptySet
<1>2. u[s][o] \in 0 .. MaxUse /\ MaxUse \in Nat BY DEF Table, HypervisorAssumption
<1>3. ASSUME u[s][o] # 0 PROVE FALSE
  <2>1. <<s, 1>> \in Obj \X (1 .. MaxUse) /\ 1 <= u[s][o] BY <1>2, <1>3
  <2>2. <<s, 1>> \in BindingsIn(u, Obj, o) BY <2>1 DEF BindingsIn
  <2> QED BY <1>1, <2>2
<1> QED BY <1>3

-----------------------------------------------------------------------------
(* The objects: references are counted, an object that is not registered   *)
(* has none, and a name is of one object of its type.                      *)

Ptrs == [Conn -> [1 .. 2 -> 0 .. MaxObj]]
EntryTyped(e) == \E T, N, P : e \in [Obj -> [type : T, name : N, platform : P, refs : Int]]
Counted(r, q, u, f, o) ==
  /\ IsFiniteSet(HoldersIn(q, o))
  /\ r = Cardinality(HoldersIn(q, o)) + Cardinality(BindingsIn(u, Obj, o)) + f[o]

ObjOK(e, q, u, f) ==
  /\ EntryTyped(e) /\ q \in Ptrs /\ u \in Table /\ f \in [Obj -> Nat]
  /\ \A o \in Obj : Counted(e[o].refs, q, u, f, o)
  /\ \A o \in Obj : e[o].type = "none" => e[o].refs = 0 /\ \A x \in Obj : u[o][x] = 0
  /\ \A o, x \in Obj : e[o].type # "none" /\ e[o].type = e[x].type /\ e[o].name = e[x].name
                         => o = x

\* The count of an object that nothing refers to, and only of such an object, is 0.
LEMMA Unreferenced ==
  ASSUME HypervisorAssumption, NEW e, NEW q, NEW u, NEW f, ObjOK(e, q, u, f), NEW o \in Obj
  PROVE  /\ e[o].refs \in Nat
         /\ e[o].refs = 0 => /\ \A c \in Conn, n \in 1 .. 2 : q[c][n] # o
                             /\ \A s \in Obj : u[s][o] = 0
                             /\ f[o] = 0
<1> DEFINE A == HoldersIn(q, o)
           a == Cardinality(A)
           b == Cardinality(BindingsIn(u, Obj, o))
<1>1. IsFiniteSet(A) /\ e[o].refs = a + b + f[o] /\ u \in Table /\ f[o] \in Nat
  BY DEF ObjOK, Counted
<1>2. a \in Nat /\ b \in Nat
  <2>1. Obj \in SUBSET Obj OBVIOUS
  <2> QED BY <1>1, <2>1, FS_CardinalityType, BindingsFinite
<1> HIDE DEF a, b
<1>3. e[o].refs \in Nat /\ (e[o].refs = 0 => a = 0 /\ b = 0 /\ f[o] = 0) BY <1>1, <1>2
<1>4. ASSUME a = 0 PROVE \A c \in Conn, n \in 1 .. 2 : q[c][n] # o
  <2>1. A = {} BY <1>1, <1>4, FS_EmptySet DEF a
  <2>2. ASSUME NEW c \in Conn, NEW n \in 1 .. 2, q[c][n] = o PROVE FALSE
    <3>1. <<c, n>> \in A BY <2>2 DEF HoldersIn
    <3> QED BY <2>1, <3>1
  <2> QED BY <2>2
<1>5. ASSUME b = 0 PROVE \A s \in Obj : u[s][o] = 0 BY <1>1, <1>5, NoBindings DEF b
<1> QED BY <1>3, <1>4, <1>5

\* What is referred to is registered.
LEMMA Registered ==
  ASSUME HypervisorAssumption, NEW e, NEW q, NEW u, NEW f, ObjOK(e, q, u, f), NEW o \in Obj
  PROVE  /\ (\E c \in Conn, n \in 1 .. 2 : q[c][n] = o) => e[o].type # "none"
         /\ \A s \in Obj : u[s][o] # 0 => e[o].type # "none" /\ e[s].type # "none"
<1>1. e[o].type = "none" => e[o].refs = 0 BY DEF ObjOK
<1>2. \A s \in Obj : e[s].type = "none" => u[s][o] = 0 BY DEF ObjOK
<1> QED BY <1>1, <1>2, Unreferenced

\* The steps of the tables.
Points(q, q2, c, n, o) == q2 = [q EXCEPT ![c][n] = o]
Counts(e, e2, o, d) == e2 = [e EXCEPT ![o].refs = @ + d]
Taken(e, t, nm) == \E x \in Obj : e[x].type = t /\ e[x].name = nm
Enters(e, e2, q, q2, c, n, o, t, nm, plat) ==
  /\ q[c][n] = NoObj /\ e[o].type = "none" /\ ~ Taken(e, t, nm)
  /\ q2 = [q EXCEPT ![c][n] = o]
  /\ e2 = [e EXCEPT ![o] = [type |-> t, name |-> nm, platform |-> plat, refs |-> 1]]
Rebinds(e, e2, u, u2, b, bag) ==
  /\ e[b].type # "none" /\ bag \in [Obj -> 0 .. MaxUse]
  /\ \A o \in Obj : e[o].type = "none" => bag[o] = 0
  /\ u2 = [u EXCEPT ![b] = bag]
  /\ e2 = [o \in Obj |-> [e[o] EXCEPT !.refs = @ + bag[o] - u[b][o]]]
ForgotBag(e, e2, f, f2, bag) ==
  /\ bag \in [Obj -> 0 .. MaxUse]
  /\ \A o \in Obj : e[o].type = "none" => bag[o] = 0
  /\ e2 = [o \in Obj |-> [e[o] EXCEPT !.refs = @ + bag[o]]]
  /\ f2 = [o \in Obj |-> f[o] + bag[o]]
NameSet(e, e2, o, nm) ==
  /\ e[o].type # "none" /\ ~ Taken(e, e[o].type, nm)
  /\ e2 = [e EXCEPT ![o].name = nm]
Destroys(e, e2, u, u2, f, f2, D) ==
  /\ \A o \in D : e[o].refs = 0
  /\ e2 = [o \in Obj |-> IF o \in D THEN Free
                         ELSE [e[o] EXCEPT !.refs = @ - Cardinality(BindingsIn(u, D, o))]]
  /\ u2 = [o \in Obj |-> IF o \in D THEN [n \in Obj |-> 0] ELSE u[o]]
  /\ f2 = [o \in Obj |-> IF o \in D THEN 0 ELSE f[o]]
Forgot(f, f2, o) == f2 = [f EXCEPT ![o] = @ + 1]

Keeps(e, e2, o) == e2[o].type = e[o].type /\ e2[o].name = e[o].name

\* registry_find, and the reference of a pointer.
LEMMA ObjTake ==
  ASSUME HypervisorAssumption, NEW e, NEW q, NEW u, NEW f, ObjOK(e, q, u, f),
         NEW c \in Conn, NEW n \in 1 .. 2, NEW o \in Obj, q[c][n] = NoObj, e[o].type # "none",
         NEW e2, Counts(e, e2, o, 1),
         NEW q2, Points(q, q2, c, n, o)
  PROVE  ObjOK(e2, q2, u, f) /\ \A x \in Obj : Keeps(e, e2, x)
<1> USE DEF Counts, Points
<1>0. PICK T, N, P : e \in [Obj -> [type : T, name : N, platform : P, refs : Int]]
  BY DEF ObjOK, EntryTyped
<1>1. /\ e2 \in [Obj -> [type : T, name : N, platform : P, refs : Int]]
      /\ \A x \in Obj : e2[x].type = e[x].type /\ e2[x].name = e[x].name
                        /\ e2[x].refs = IF x = o THEN e[x].refs + 1 ELSE e[x].refs
  BY <1>0
<1>2. q \in Ptrs /\ q2 \in Ptrs BY DEF ObjOK, Ptrs, Obj
<1>q. q \in [Conn -> [1 .. 2 -> 0 .. MaxObj]] BY <1>2 DEF Ptrs
<1>3. ASSUME NEW x \in Obj PROVE Counted(e2[x].refs, q2, u, f, x)
  <2>1. IsFiniteSet(HoldersIn(q, x)) BY DEF ObjOK, Counted
  <2>2. Grown(HoldersIn(q, x), HoldersIn(q2, x), One(x, o)) BY <1>q, <2>1, AddHolder
  <2>3. /\ e[x].refs = Cardinality(HoldersIn(q, x)) + Cardinality(BindingsIn(u, Obj, x)) + f[x]
        /\ f[x] \in Nat
    BY DEF ObjOK, Counted
  <2>4. Cardinality(HoldersIn(q, x)) \in Nat /\ Cardinality(BindingsIn(u, Obj, x)) \in Nat
    <3>1. Obj \in SUBSET Obj OBVIOUS
    <3> QED BY <2>1, <3>1, FS_CardinalityType, BindingsFinite
  <2>5. e2[x].refs = IF x = o THEN e[x].refs + 1 ELSE e[x].refs BY <1>1
  <2> QED BY <2>2, <2>3, <2>4, <2>5 DEF Counted, One, Grown
<1>4. ObjOK(e2, q2, u, f)
  <2>1. EntryTyped(e2) BY <1>1 DEF EntryTyped
  <2>2. \A x \in Obj : e2[x].type = "none" => e2[x].refs = 0 /\ \A y \in Obj : u[x][y] = 0
    BY <1>1 DEF ObjOK
  <2>3. \A y, x \in Obj : e2[y].type # "none" /\ e2[y].type = e2[x].type /\ e2[y].name = e2[x].name
                            => y = x
    BY <1>1 DEF ObjOK
  <2>4. u \in Table /\ f \in [Obj -> Nat] BY DEF ObjOK
  <2> QED BY <1>2, <1>3, <2>1, <2>2, <2>3, <2>4 DEF ObjOK
<1> QED BY <1>1, <1>4 DEF Keeps

\* registry_unref of a pointer.
LEMMA ObjDrop ==
  ASSUME HypervisorAssumption, NEW e, NEW q, NEW u, NEW f, ObjOK(e, q, u, f),
         NEW c \in Conn, NEW n \in 1 .. 2, NEW o \in Obj, q[c][n] = o,
         NEW e2, Counts(e, e2, o, -1),
         NEW q2, Points(q, q2, c, n, NoObj)
  PROVE  ObjOK(e2, q2, u, f) /\ \A x \in Obj : Keeps(e, e2, x)
<1> USE DEF Counts, Points
<1>0. PICK T, N, P : e \in [Obj -> [type : T, name : N, platform : P, refs : Int]]
  BY DEF ObjOK, EntryTyped
<1>1. /\ e2 \in [Obj -> [type : T, name : N, platform : P, refs : Int]]
      /\ \A x \in Obj : e2[x].type = e[x].type /\ e2[x].name = e[x].name
                        /\ e2[x].refs = IF x = o THEN e[x].refs - 1 ELSE e[x].refs
  BY <1>0
<1>2. q \in Ptrs /\ q2 \in Ptrs BY DEF ObjOK, Ptrs, NoObj, Obj, HypervisorAssumption
<1>q. q \in [Conn -> [1 .. 2 -> 0 .. MaxObj]] BY <1>2 DEF Ptrs
<1>3. ASSUME NEW x \in Obj PROVE Counted(e2[x].refs, q2, u, f, x)
  <2>1. IsFiniteSet(HoldersIn(q, x)) BY DEF ObjOK, Counted
  <2>2. Grown(HoldersIn(q, x), HoldersIn(q2, x), -One(x, o)) BY <1>q, <2>1, DropHolder
  <2>3. /\ e[x].refs = Cardinality(HoldersIn(q, x)) + Cardinality(BindingsIn(u, Obj, x)) + f[x]
        /\ f[x] \in Nat
    BY DEF ObjOK, Counted
  <2>4. Cardinality(HoldersIn(q, x)) \in Nat /\ Cardinality(BindingsIn(u, Obj, x)) \in Nat
    <3>1. Obj \in SUBSET Obj OBVIOUS
    <3> QED BY <2>1, <3>1, FS_CardinalityType, BindingsFinite
  <2>5. e2[x].refs = IF x = o THEN e[x].refs - 1 ELSE e[x].refs BY <1>1
  <2> QED BY <2>2, <2>3, <2>4, <2>5 DEF Counted, One, Grown
<1>5. e[o].type # "none" BY Registered
<1>4. ObjOK(e2, q2, u, f)
  <2>1. EntryTyped(e2) BY <1>1 DEF EntryTyped
  <2>2. \A x \in Obj : e2[x].type = "none" => e2[x].refs = 0 /\ \A y \in Obj : u[x][y] = 0
    BY <1>1, <1>5 DEF ObjOK
  <2>3. \A y, x \in Obj : e2[y].type # "none" /\ e2[y].type = e2[x].type /\ e2[y].name = e2[x].name
                            => y = x
    BY <1>1 DEF ObjOK
  <2>4. u \in Table /\ f \in [Obj -> Nat] BY DEF ObjOK
  <2> QED BY <1>2, <1>3, <2>1, <2>2, <2>3, <2>4 DEF ObjOK
<1> QED BY <1>1, <1>4 DEF Keeps

\* The numbers of a count.
LEMMA Numbers ==
  ASSUME HypervisorAssumption, NEW e, NEW q, NEW u, NEW f, ObjOK(e, q, u, f), NEW o \in Obj
  PROVE  /\ IsFiniteSet(HoldersIn(q, o))
         /\ Cardinality(HoldersIn(q, o)) \in Nat
         /\ Cardinality(BindingsIn(u, Obj, o)) \in Nat
         /\ f[o] \in Nat
         /\ e[o].refs = Cardinality(HoldersIn(q, o)) + Cardinality(BindingsIn(u, Obj, o)) + f[o]
         /\ \A b \in Obj : u[b][o] \in Nat
<1>1. Obj \in SUBSET Obj OBVIOUS
<1>2. u \in Table /\ IsFiniteSet(HoldersIn(q, o)) BY DEF ObjOK, Counted
<1>3. \A b \in Obj : u[b][o] \in Nat BY <1>2 DEF Table, HypervisorAssumption
<1>4. f[o] \in Nat /\ e[o].refs = Cardinality(HoldersIn(q, o)) + Cardinality(BindingsIn(u, Obj, o)) + f[o]
  BY DEF ObjOK, Counted
<1>5. Cardinality(HoldersIn(q, o)) \in Nat BY <1>2, FS_CardinalityType
<1>6. Cardinality(BindingsIn(u, Obj, o)) \in Nat BY <1>1, BindingsFinite
<1> QED BY <1>2, <1>3, <1>4, <1>5, <1>6

\* registry_add: the new object has the reference of its creator.
LEMMA ObjRegister ==
  ASSUME HypervisorAssumption, NEW e, NEW q, NEW u, NEW f, ObjOK(e, q, u, f),
         NEW c \in Conn, NEW n \in 1 .. 2, NEW o \in Obj, NEW t \in ObjType, NEW nm, NEW plat,
         NEW e2, NEW q2, Enters(e, e2, q, q2, c, n, o, t, nm, plat)
  PROVE  /\ ObjOK(e2, q2, u, f)
         /\ \A x \in Obj \ {o} : Keeps(e, e2, x)
         /\ e2[o].type = t /\ e2[o].name = nm
         /\ \A d \in Conn, m \in 1 .. 2 : q[d][m] # o
<1> USE DEF Enters, Taken
<1>t. t # "none" BY DEF ObjType
<1>0. PICK T, N, P : e \in [Obj -> [type : T, name : N, platform : P, refs : Int]]
  BY DEF ObjOK, EntryTyped
<1>1. /\ e2 \in [Obj -> [type : T \cup {t}, name : N \cup {nm}, platform : P \cup {plat}, refs : Int]]
      /\ \A x \in Obj \ {o} : e2[x] = e[x]
      /\ e2[o].type = t /\ e2[o].name = nm /\ e2[o].refs = 1
  BY <1>0
<1>2. q \in Ptrs /\ q2 \in Ptrs BY DEF ObjOK, Ptrs, Obj
<1>q. q \in [Conn -> [1 .. 2 -> 0 .. MaxObj]] BY <1>2 DEF Ptrs
<1>z. e[o].refs = 0 BY DEF ObjOK
<1>3. ASSUME NEW x \in Obj PROVE Counted(e2[x].refs, q2, u, f, x)
  <2>1. /\ IsFiniteSet(HoldersIn(q, x))
        /\ Cardinality(HoldersIn(q, x)) \in Nat
        /\ Cardinality(BindingsIn(u, Obj, x)) \in Nat
        /\ f[x] \in Nat
        /\ e[x].refs = Cardinality(HoldersIn(q, x)) + Cardinality(BindingsIn(u, Obj, x)) + f[x]
    BY Numbers
  <2>2. Grown(HoldersIn(q, x), HoldersIn(q2, x), One(x, o)) BY <1>q, <2>1, AddHolder
  <2>3. e2[x].refs = e[x].refs + One(x, o)
    <3>1. CASE x = o BY <1>1, <1>z, <3>1 DEF One
    <3>2. CASE x # o BY <1>1, <2>1, <3>2 DEF One
    <3> QED BY <3>1, <3>2
  <2> QED BY <2>1, <2>2, <2>3 DEF Counted, One, Grown
<1>4. ObjOK(e2, q2, u, f)
  <2>1. EntryTyped(e2) BY <1>1 DEF EntryTyped
  <2>2. \A x \in Obj : e2[x].type = "none" => e2[x].refs = 0 /\ \A y \in Obj : u[x][y] = 0
    BY <1>1, <1>t DEF ObjOK
  <2>3. \A y, x \in Obj : e2[y].type # "none" /\ e2[y].type = e2[x].type /\ e2[y].name = e2[x].name
                            => y = x
    BY <1>1 DEF ObjOK
  <2>4. u \in Table /\ f \in [Obj -> Nat] BY DEF ObjOK
  <2> QED BY <1>2, <1>3, <2>1, <2>2, <2>3, <2>4 DEF ObjOK
<1>5. \A d \in Conn, m \in 1 .. 2 : q[d][m] # o BY <1>z, Unreferenced
<1> QED BY <1>1, <1>4, <1>5 DEF Keeps

\* netio_acquire and netio_release: the count of an NIO follows what a bound
\* object binds.
LEMMA ObjRebind ==
  ASSUME HypervisorAssumption, NEW e, NEW q, NEW u, NEW f, ObjOK(e, q, u, f),
         NEW b \in Obj, NEW bag, NEW e2, NEW u2, Rebinds(e, e2, u, u2, b, bag)
  PROVE  ObjOK(e2, q, u2, f) /\ \A x \in Obj : Keeps(e, e2, x)
<1> USE DEF Rebinds
<1>0. PICK T, N, P : e \in [Obj -> [type : T, name : N, platform : P, refs : Int]]
  BY DEF ObjOK, EntryTyped
<1>n. \A o \in Obj : bag[o] \in Nat /\ u[b][o] \in Nat BY Numbers DEF HypervisorAssumption
<1>1. /\ e2 \in [Obj -> [type : T, name : N, platform : P, refs : Int]]
      /\ \A x \in Obj : e2[x].type = e[x].type /\ e2[x].name = e[x].name
                        /\ e2[x].refs = e[x].refs + bag[x] - u[b][x]
  BY <1>0, <1>n
<1>2. u \in Table /\ u2 \in Table BY DEF ObjOK, Table
<1>u. u2 = [u EXCEPT ![b] = bag] /\ u2[b] = bag /\ \A x \in Obj \ {b} : u2[x] = u[x]
  BY <1>2 DEF Table
<1>3. ASSUME NEW x \in Obj PROVE Counted(e2[x].refs, q, u2, f, x)
  <2>1. /\ IsFiniteSet(HoldersIn(q, x))
        /\ Cardinality(HoldersIn(q, x)) \in Nat
        /\ Cardinality(BindingsIn(u, Obj, x)) \in Nat
        /\ f[x] \in Nat
        /\ e[x].refs = Cardinality(HoldersIn(q, x)) + Cardinality(BindingsIn(u, Obj, x)) + f[x]
    BY Numbers
  <2>2. Sum(Cardinality(BindingsIn(u2, Obj, x)), Cardinality(BindingsIn(u, Obj, x)), bag[x] - u[b][x])
    BY <1>2, <1>u, RebindCount
  <2>3. e2[x].refs = e[x].refs + bag[x] - u[b][x] BY <1>1
  <2> QED BY <1>n, <2>1, <2>2, <2>3 DEF Counted, Sum
<1>4. ObjOK(e2, q, u2, f)
  <2>1. EntryTyped(e2) BY <1>1 DEF EntryTyped
  <2>2. ASSUME NEW x \in Obj, e2[x].type = "none" PROVE e2[x].refs = 0 /\ \A y \in Obj : u2[x][y] = 0
    <3>1. e[x].type = "none" /\ x # b BY <1>1, <2>2
    <3>2. e[x].refs = 0 /\ \A y \in Obj : u[x][y] = 0 BY <3>1 DEF ObjOK
    <3>3. u[b][x] = 0 BY <3>2, Unreferenced
    <3> QED BY <1>1, <1>u, <3>1, <3>2, <3>3
  <2>3. \A y, x \in Obj : e2[y].type # "none" /\ e2[y].type = e2[x].type /\ e2[y].name = e2[x].name
                            => y = x
    BY <1>1 DEF ObjOK
  <2>4. q \in Ptrs /\ f \in [Obj -> Nat] BY DEF ObjOK
  <2> QED BY <1>2, <1>3, <2>1, <2>2, <2>3, <2>4 DEF ObjOK
<1> QED BY <1>1, <1>4 DEF Keeps

\* atm_bridge_configure, when one of the NIOs is missing.
LEMMA ObjForgetBag ==
  ASSUME HypervisorAssumption, NEW e, NEW q, NEW u, NEW f, ObjOK(e, q, u, f),
         NEW bag, NEW e2, NEW f2, ForgotBag(e, e2, f, f2, bag)
  PROVE  ObjOK(e2, q, u, f2) /\ \A x \in Obj : Keeps(e, e2, x)
<1> USE DEF ForgotBag
<1>b. bag \in [Obj -> Nat] BY DEF HypervisorAssumption
<1>0. PICK T, N, P : e \in [Obj -> [type : T, name : N, platform : P, refs : Int]]
  BY DEF ObjOK, EntryTyped
<1>1. /\ e2 \in [Obj -> [type : T, name : N, platform : P, refs : Int]]
      /\ \A x \in Obj : e2[x].type = e[x].type /\ e2[x].name = e[x].name
                        /\ e2[x].refs = e[x].refs + bag[x]
  BY <1>0, <1>b
<1>2. q \in Ptrs /\ u \in Table /\ f2 \in [Obj -> Nat] /\ \A o \in Obj : f2[o] = f[o] + bag[o]
  BY <1>b DEF ObjOK
<1>3. ASSUME NEW x \in Obj PROVE Counted(e2[x].refs, q, u, f2, x)
  <2>1. /\ IsFiniteSet(HoldersIn(q, x))
        /\ Cardinality(HoldersIn(q, x)) \in Nat
        /\ Cardinality(BindingsIn(u, Obj, x)) \in Nat
        /\ f[x] \in Nat
        /\ e[x].refs = Cardinality(HoldersIn(q, x)) + Cardinality(BindingsIn(u, Obj, x)) + f[x]
    BY Numbers
  <2>2. bag[x] \in Nat BY <1>b
  <2>3. e2[x].refs = e[x].refs + bag[x] /\ f2[x] = f[x] + bag[x] BY <1>1, <1>2
  <2> QED BY <2>1, <2>2, <2>3 DEF Counted
<1>4. ObjOK(e2, q, u, f2)
  <2>1. EntryTyped(e2) BY <1>1 DEF EntryTyped
  <2>2. \A x \in Obj : e2[x].type = "none" => e2[x].refs = 0 /\ \A y \in Obj : u[x][y] = 0
    BY <1>1 DEF ObjOK
  <2>3. \A y, x \in Obj : e2[y].type # "none" /\ e2[y].type = e2[x].type /\ e2[y].name = e2[x].name
                            => y = x
    BY <1>1 DEF ObjOK
  <2> QED BY <1>2, <1>3, <2>1, <2>2, <2>3 DEF ObjOK
<1> QED BY <1>1, <1>4 DEF Keeps

\* registry_rename.
LEMMA ObjRename ==
  ASSUME HypervisorAssumption, NEW e, NEW q, NEW u, NEW f, ObjOK(e, q, u, f),
         NEW o \in Obj, NEW nm, NEW e2, NameSet(e, e2, o, nm)
  PROVE  /\ ObjOK(e2, q, u, f)
         /\ \A x \in Obj : e2[x].type = e[x].type /\ e2[x].name = IF x = o THEN nm ELSE e[x].name
<1> USE DEF NameSet, Taken
<1>0. PICK T, N, P : e \in [Obj -> [type : T, name : N, platform : P, refs : Int]]
  BY DEF ObjOK, EntryTyped
<1>1. /\ e2 \in [Obj -> [type : T, name : N \cup {nm}, platform : P, refs : Int]]
      /\ \A x \in Obj : e2[x].type = e[x].type /\ e2[x].refs = e[x].refs
                        /\ e2[x].name = IF x = o THEN nm ELSE e[x].name
  BY <1>0
<1>2. EntryTyped(e2) BY <1>1 DEF EntryTyped
<1>3. \A x \in Obj : Counted(e2[x].refs, q, u, f, x) BY <1>1 DEF ObjOK
<1>4. \A x \in Obj : e2[x].type = "none" => e2[x].refs = 0 /\ \A y \in Obj : u[x][y] = 0
  BY <1>1 DEF ObjOK
<1>5. \A y, x \in Obj : e2[y].type # "none" /\ e2[y].type = e2[x].type /\ e2[y].name = e2[x].name
                          => y = x
  BY <1>1 DEF ObjOK
<1>6. q \in Ptrs /\ u \in Table /\ f \in [Obj -> Nat] BY DEF ObjOK
<1> QED BY <1>1, <1>2, <1>3, <1>4, <1>5, <1>6 DEF ObjOK

\* registry_delete_if_unused and registry_delete_type: nothing refers to what
\* is deleted.
LEMMA ObjDestroy ==
  ASSUME HypervisorAssumption, NEW e, NEW q, NEW u, NEW f, ObjOK(e, q, u, f),
         NEW D \in SUBSET Obj, NEW e2, NEW u2, NEW f2, Destroys(e, e2, u, u2, f, f2, D)
  PROVE  /\ ObjOK(e2, q, u2, f2)
         /\ \A x \in Obj \ D : Keeps(e, e2, x)
         /\ \A d \in Conn, m \in 1 .. 2 : q[d][m] \notin D
<1> USE DEF Destroys
<1>0. PICK T, N, P : e \in [Obj -> [type : T, name : N, platform : P, refs : Int]]
  BY DEF ObjOK, EntryTyped
<1>a. u \in Table /\ q \in Ptrs /\ f \in [Obj -> Nat] BY DEF ObjOK
<1>b. \A x \in Obj : u2 \in Table /\ Sum(Cardinality(BindingsIn(u, Obj, x)), Cardinality(BindingsIn(u2, Obj, x)),
                Cardinality(BindingsIn(u, D, x)))
  BY <1>a, DestroyCount
<1>c. \A x \in Obj : Cardinality(BindingsIn(u, D, x)) \in Nat BY BindingsFinite
<1>d. \A o \in D : /\ \A c \in Conn, n \in 1 .. 2 : q[c][n] # o
                   /\ \A s \in Obj : u[s][o] = 0
                   /\ f[o] = 0
  BY Unreferenced
<1>f. /\ Free.type = "none" /\ Free.refs = 0
      /\ Free \in [type : T \cup {Free.type}, name : N \cup {Free.name},
                   platform : P \cup {Free.platform}, refs : Int]
  BY DEF Free
<1>1. /\ e2 \in [Obj -> [type : T \cup {Free.type}, name : N \cup {Free.name},
                         platform : P \cup {Free.platform}, refs : Int]]
      /\ \A x \in Obj \ D : /\ e2[x].type = e[x].type /\ e2[x].name = e[x].name
                            /\ e2[x].refs = e[x].refs - Cardinality(BindingsIn(u, D, x))
      /\ \A x \in D : e2[x] = Free
  <2> HIDE DEF Free
  <2> QED BY <1>0, <1>c, <1>f
<1>2. f2 \in [Obj -> Nat] /\ (\A x \in D : f2[x] = 0) /\ (\A x \in Obj \ D : f2[x] = f[x])
  BY <1>a
<1>u. (\A x \in D : \A y \in Obj : u2[x][y] = 0) /\ \A x \in Obj \ D : u2[x] = u[x] OBVIOUS
<1>3. ASSUME NEW x \in Obj PROVE Counted(e2[x].refs, q, u2, f2, x) /\ u2 \in Table
  <2>1. /\ IsFiniteSet(HoldersIn(q, x))
        /\ Cardinality(HoldersIn(q, x)) \in Nat
        /\ Cardinality(BindingsIn(u, Obj, x)) \in Nat
        /\ f[x] \in Nat
        /\ e[x].refs = Cardinality(HoldersIn(q, x)) + Cardinality(BindingsIn(u, Obj, x)) + f[x]
    BY Numbers
  <2>2. /\ u2 \in Table
        /\ Sum(Cardinality(BindingsIn(u, Obj, x)), Cardinality(BindingsIn(u2, Obj, x)),
               Cardinality(BindingsIn(u, D, x)))
    BY <1>b
  <2>3. Cardinality(BindingsIn(u, D, x)) \in Nat BY <1>c
  <2>4. Cardinality(BindingsIn(u2, Obj, x)) \in Nat
    <3>1. Obj \in SUBSET Obj OBVIOUS
    <3> QED BY <3>1, BindingsFinite
  <2>5. CASE x \notin D
    <3>1. e2[x].refs = e[x].refs - Cardinality(BindingsIn(u, D, x)) /\ f2[x] = f[x]
      BY <1>1, <1>2, <2>5
    <3> QED BY <2>1, <2>2, <2>3, <2>4, <3>1 DEF Counted, Sum
  <2>6. CASE x \in D
    <3> DEFINE h == Cardinality(HoldersIn(q, x))
               b == Cardinality(BindingsIn(u, Obj, x))
               a == Cardinality(BindingsIn(u2, Obj, x))
               d == Cardinality(BindingsIn(u, D, x))
               g == f[x]
    <3>1. e2[x].refs = 0 /\ f2[x] = 0 BY <1>1, <1>2, <1>f, <2>6
    <3>2. e[x].refs = 0 BY <2>6
    <3>3. 0 = h + b + g /\ h \in Nat /\ b \in Nat /\ g \in Nat BY <2>1, <3>2
    <3>4. b = a + d /\ a \in Nat /\ d \in Nat BY <2>2, <2>3, <2>4 DEF Sum
    <3>5. h = 0 /\ a = 0
      <4> HIDE DEF h, a, b, d, g
      <4> QED BY <3>3, <3>4
    <3>6. e2[x].refs = h + a + f2[x] BY <3>1, <3>5
    <3> QED BY <2>1, <2>2, <3>6 DEF Counted
  <2> QED BY <2>2, <2>5, <2>6
<1>4. ObjOK(e2, q, u2, f2)
  <2>1. EntryTyped(e2) BY <1>1 DEF EntryTyped
  <2>2. \A x \in Obj : e2[x].type = "none" => e2[x].refs = 0 /\ \A y \in Obj : u2[x][y] = 0
    <3> SUFFICES ASSUME NEW x \in Obj, e2[x].type = "none"
                 PROVE  e2[x].refs = 0 /\ \A y \in Obj : u2[x][y] = 0
      OBVIOUS
    <3>1. CASE x \in D BY <1>1, <1>f, <1>u, <3>1
    <3>2. CASE x \notin D
      <4>1. e[x].type = "none" BY <1>1, <3>2
      <4>2. e[x].refs = 0 /\ \A y \in Obj : u[x][y] = 0 BY <4>1 DEF ObjOK
      <4>3. \A s \in Obj : u[s][x] = 0 BY <4>2, Unreferenced
      <4>4. BindingsIn(u, D, x) = {} BY <4>3 DEF BindingsIn
      <4>5. Cardinality(BindingsIn(u, D, x)) = 0 BY <4>4, FS_EmptySet
      <4> QED BY <1>1, <1>u, <3>2, <4>2, <4>5
    <3> QED BY <3>1, <3>2
  <2>3. \A y, x \in Obj : e2[y].type # "none" /\ e2[y].type = e2[x].type /\ e2[y].name = e2[x].name
                            => y = x
    BY <1>1, <1>f DEF ObjOK
  <2>4. u2 \in Table
    <3>1. CASE Obj = {} BY <3>1 DEF Table
    <3>2. CASE Obj # {} BY <1>3, <3>2
    <3> QED BY <3>1, <3>2
  <2> QED BY <1>2, <1>3, <1>a, <2>1, <2>2, <2>3, <2>4 DEF ObjOK
<1> QED BY <1>1, <1>4, <1>d DEF Keeps

\* A pointer that is not given up.
LEMMA ObjForget ==
  ASSUME HypervisorAssumption, NEW e, NEW q, NEW u, NEW f, ObjOK(e, q, u, f),
         NEW c \in Conn, NEW n \in 1 .. 2, NEW o \in Obj, q[c][n] = o,
         NEW f2, Forgot(f, f2, o),
         NEW q2, Points(q, q2, c, n, NoObj)
  PROVE  ObjOK(e, q2, u, f2)
<1> USE DEF Forgot, Points
<1>2. q \in Ptrs /\ q2 \in Ptrs BY DEF ObjOK, Ptrs, NoObj, Obj, HypervisorAssumption
<1>q. q \in [Conn -> [1 .. 2 -> 0 .. MaxObj]] BY <1>2 DEF Ptrs
<1>1. f2 \in [Obj -> Nat] /\ \A x \in Obj : f2[x] = f[x] + One(x, o) BY DEF ObjOK, One
<1>3. ASSUME NEW x \in Obj PROVE Counted(e[x].refs, q2, u, f2, x)
  <2>1. /\ IsFiniteSet(HoldersIn(q, x))
        /\ Cardinality(HoldersIn(q, x)) \in Nat
        /\ Cardinality(BindingsIn(u, Obj, x)) \in Nat
        /\ f[x] \in Nat
        /\ e[x].refs = Cardinality(HoldersIn(q, x)) + Cardinality(BindingsIn(u, Obj, x)) + f[x]
    BY Numbers
  <2>2. Grown(HoldersIn(q, x), HoldersIn(q2, x), -One(x, o)) BY <1>q, <2>1, DropHolder
  <2>3. f2[x] = f[x] + One(x, o) BY <1>1
  <2> QED BY <2>1, <2>2, <2>3 DEF Counted, One, Grown
<1>4. ObjOK(e, q2, u, f2) BY <1>1, <1>2, <1>3 DEF ObjOK
<1> QED BY <1>4

-----------------------------------------------------------------------------
(* Threads and connections.                                                *)

OwnInv ==
  /\ thread = [c \in Conn |-> thread[c]]
  /\ conn = [c \in Conn |-> conn[c]]
  /\ prog = [c \in Conn |-> prog[c]]
  /\ \A c \in Conn : prog[c] # << >> => thread[c] = "body"
  /\ \A c \in Conn : thread[c] \in {"top", "body"} => conn[c] = "listed"

\* No connection has a thread at first.
LEMMA OwnInit == Init => OwnInv
BY DEF Init, OwnInv

\* A step of a command, and the return to the top of the loop after the last.
LEMMA OwnCommand ==
  ASSUME OwnInv, NEW c \in Conn, NEW p, prog[c] # << >>,
         prog' = [prog EXCEPT ![c] = p], UNCHANGED conn,
         \/ UNCHANGED thread
         \/ p = << >> /\ thread' = [thread EXCEPT ![c] = "top"]
  PROVE  OwnInv'
<1>1. thread[c] = "body" /\ conn[c] = "listed" BY DEF OwnInv
<1>2. CASE UNCHANGED thread BY <1>1, <1>2 DEF OwnInv
<1>3. CASE p = << >> /\ thread' = [thread EXCEPT ![c] = "top"] BY <1>1, <1>3 DEF OwnInv
<1> QED BY <1>2, <1>3

\* Every step keeps threads and connections together.
LEMMA OwnStep == OwnInv /\ [Next]_vars => OwnInv'
<1> SUFFICES ASSUME OwnInv, [Next]_vars PROVE OwnInv' OBVIOUS
<1>1. ASSUME NEW c \in Conn, Step(c) PROVE OwnInv'
  <2>0. ASSUME NEW p, prog[c] # << >>, prog' = [prog EXCEPT ![c] = p], Over(c), UNCHANGED conn
        PROVE  OwnInv'
    <3>1. prog'[c] = p BY <2>0 DEF OwnInv
    <3>2. UNCHANGED thread \/ (p = << >> /\ thread' = [thread EXCEPT ![c] = "top"])
      BY <2>0, <3>1 DEF Over
    <3> QED BY <2>0, <3>2, OwnCommand
  <2>1. CASE \/ FindObject(c) \/ NameExists(c) \/ AttemptStep(c) \/ Register(c) \/ Unreference(c)
             \/ BindNios(c) \/ UnbindNios(c) \/ UnbindEverything(c) \/ ConfigureBridge(c)
             \/ RenameObject(c) \/ DeleteObject(c) \/ DeleteAll(c) \/ WalkType(c)
    <3>1. prog[c] # << >> BY <2>1
      DEF FindObject, NameExists, AttemptStep, Register, Unreference, BindNios, UnbindNios,
          UnbindEverything, ConfigureBridge, RenameObject, DeleteObject, DeleteAll, WalkType, At
    <3>2. UNCHANGED <<conn, thread>> BY <2>1
      DEF FindObject, NameExists, AttemptStep, Register, Unreference, BindNios, UnbindNios,
          UnbindEverything, ConfigureBridge, RenameObject, DeleteObject, DeleteAll, WalkType,
          Looks, connections, server_side
    <3>3. \E p : prog' = [prog EXCEPT ![c] = p]
      <4>1. CASE FindObject(c) BY <4>1 DEF FindObject, Continue
      <4>2. CASE NameExists(c) BY <4>2 DEF NameExists, Continue
      <4>3. CASE AttemptStep(c) BY <4>3 DEF AttemptStep, Continue
      <4>4. CASE Register(c) BY <4>4 DEF Register, Continue
      <4>5. CASE Unreference(c) BY <4>5 DEF Unreference, Continue
      <4>6. CASE BindNios(c) BY <4>6 DEF BindNios, Continue
      <4>7. CASE UnbindNios(c) BY <4>7 DEF UnbindNios, Continue
      <4>8. CASE UnbindEverything(c) BY <4>8 DEF UnbindEverything, Continue
      <4>9. CASE ConfigureBridge(c) BY <4>9 DEF ConfigureBridge, Continue
      <4>a. CASE RenameObject(c) BY <4>a DEF RenameObject, Continue
      <4>b. CASE DeleteObject(c) BY <4>b DEF DeleteObject, Continue
      <4>c. CASE DeleteAll(c) BY <4>c DEF DeleteAll, Continue
      <4>d. CASE WalkType(c) BY <4>d DEF WalkType, Continue
      <4> QED
        BY <2>1, <4>1, <4>2, <4>3, <4>4, <4>5, <4>6, <4>7, <4>8, <4>9, <4>a, <4>b, <4>c, <4>d
    <3> QED BY <3>1, <3>2, <3>3, OwnCommand
  <2>2. CASE UnreferenceOwn(c) BY <2>0, <2>2 DEF UnreferenceOwn, At, Continue, server_side
  <2>3. CASE ForgetPointer(c) BY <2>0, <2>3 DEF ForgetPointer, At, Continue, server_side
  <2>4. CASE Silent(c) BY <2>0, <2>4 DEF Silent, At, Continue, server_side
  <2>5. CASE Reply(c) BY <2>0, <2>5 DEF Reply, At, Continue, server_side
  <2>6. CASE CloseCommand(c) BY <2>0, <2>6 DEF CloseCommand, At, Continue
  <2>7. CASE StopCommand(c) BY <2>0, <2>7 DEF StopCommand, At, Continue
  <2>8. CASE LoopTop(c) BY <2>8 DEF LoopTop, server_side, OwnInv
  <2>9. CASE EndOfFile(c) BY <2>9 DEF EndOfFile, server_side, OwnInv
  <2> QED BY <1>1, <2>1, <2>2, <2>3, <2>4, <2>5, <2>6, <2>7, <2>8, <2>9 DEF Step
<1>2. ASSUME NEW c \in Conn, NEW p, NEW a, Read(c, p, a) PROVE OwnInv'
  BY <1>2 DEF Read, Continue, connections, server_side, OwnInv
<1>3. ASSUME NEW c \in Conn, Accept(c) PROVE OwnInv' BY <1>3 DEF Accept, OwnInv
<1>4. ASSUME NEW c \in Conn, FreeConn(c) PROVE OwnInv' BY <1>4 DEF FreeConn, OwnInv
<1>5. CASE UNCHANGED <<conn, thread, prog>> BY <1>5 DEF OwnInv
<1>6. ASSUME NEW c \in Conn, Disconnect(c) \/ CloseConn(c) PROVE OwnInv'
  BY <1>5, <1>6 DEF Disconnect, CloseConn
<1>7. CASE StopSignal \/ LeaveLoop \/ ServerReturns
  BY <1>5, <1>7 DEF StopSignal, LeaveLoop, ServerReturns
<1>8. CASE UNCHANGED vars BY <1>5, <1>8 DEF vars
<1> QED BY <1>1, <1>2, <1>3, <1>4, <1>6, <1>7, <1>8 DEF Next, ServerStep

(* A connection is freed after its thread, also when the client closes it or  *)
(* stops the server (hypervisor_close_conn joins the thread before the free,  *)
(* and hypervisor_thread does not touch the connection once it has returned). *)
THEOREM HypervisorConnectionOwned == Spec => []ConnectionOwned
<1>1. OwnInv => ConnectionOwned BY DEF OwnInv, ConnectionOwned
<1> QED BY <1>1, OwnInit, OwnStep, PTL DEF Spec

-----------------------------------------------------------------------------
(* Answers.                                                                *)

AnsInv ==
  /\ scope \in Scopes
  /\ prog = [c \in Conn |-> prog[c]]
  /\ answer = [c \in Conn |-> answer[c]]
  /\ \A c \in Conn : \E k : /\ Good(prog[c], k)
                            /\ answer[c] = k.ans /\ k.ans \in {"none", "one", "never"}

\* No command is executed at first.
LEMMA AnsInit == HypervisorAssumption /\ Init => AnsInv
<1> SUFFICES ASSUME HypervisorAssumption, Init PROVE AnsInv OBVIOUS
<1> DEFINE k == K("none", "none", 1, "one", FALSE)
<1>1. k.ans = "one" /\ k.one = "none" /\ k.two = "none" BY DEF K
<1> HIDE DEF k
<1>2. Good(<< >>, k) BY <1>1, GoodEnd
<1> QED BY <1>1, <1>2 DEF Init, AnsInv

\* A step of a command goes on with what its program and context say.
LEMMA AnsCommand ==
  ASSUME AnsInv, NEW c \in Conn, NEW k, NEW p, NEW k2,
         Good(prog[c], k), k.ans \in {"none", "one", "never"},
         <<p, k2>> \in After(prog[c], k), k2.ans \in {k.ans, "one", "never"},
         UNCHANGED scope, prog' = [prog EXCEPT ![c] = p],
         answer' = [answer EXCEPT ![c] = k2.ans]
  PROVE  AnsInv'
<1>1. Good(p, k2)
  <2> DEFINE x == <<p, k2>>
  <2>1. x[1] = p /\ x[2] = k2 OBVIOUS
  <2>2. Good(x[1], x[2]) BY GoodStep
  <2> QED BY <2>1, <2>2
<1>2. prog'[c] = p /\ answer'[c] = k2.ans /\ k2.ans \in {"none", "one", "never"}
  BY DEF AnsInv
<1>3. \A d \in Conn \ {c} : prog'[d] = prog[d] /\ answer'[d] = answer[d] BY DEF AnsInv
<1> QED BY <1>1, <1>2, <1>3 DEF AnsInv

\* Every step keeps the answers with the programs.
LEMMA AnsStep == HypervisorAssumption /\ AnsInv /\ [Next]_vars => AnsInv'
<1> SUFFICES ASSUME HypervisorAssumption, AnsInv, [Next]_vars PROVE AnsInv' OBVIOUS
<1>1. ASSUME NEW c \in Conn, Step(c), prog[c] # << >> PROVE AnsInv'
  <2>1. PICK k : Good(prog[c], k) /\ answer[c] = k.ans /\ k.ans \in {"none", "one", "never"}
    BY DEF AnsInv
  <2>0. Allowed(prog[c], k) BY <2>1, GoodStep
  <2>a. answer = [answer EXCEPT ![c] = k.ans] BY <2>1 DEF AnsInv
  <2> DEFINE s == Head(prog[c])
             r == Tail(prog[c])
  <2>k. ASSUME NEW p, NEW k2, <<p, k2>> \in After(prog[c], k), k2.ans = k.ans,
               UNCHANGED <<scope, answer>>, Continue(c, p)
        PROVE  AnsInv'
    BY <2>1, <2>a, <2>k, AnsCommand DEF Continue
  <2>2. CASE FindObject(c)
    <3>1. UNCHANGED <<scope, answer>> /\ s.op \in {"find", "find_vm"}
          /\ (Continue(c, s.other) \/ Continue(c, r) \/ (s.op = "find_vm" /\ Continue(c, VmRefused)))
      BY <2>2 DEF FindObject, At, connections, server_side, Rest
    <3>2. <<s.other, k>> \in After(prog[c], k) /\ <<r, Take(k, s.arg, s.type)>> \in After(prog[c], k)
      BY <1>1, <3>1 DEF After
    <3>3. s.op = "find_vm" => <<VmRefused, Take(k, s.arg, s.type)>> \in After(prog[c], k)
      BY <1>1 DEF After
    <3>4. Take(k, s.arg, s.type).ans = k.ans BY DEF Take, K
    <3> QED BY <2>k, <3>1, <3>2, <3>3, <3>4
  <2>3. CASE NameExists(c) \/ AttemptStep(c) \/ BindNios(c) \/ UnbindNios(c) \/ ConfigureBridge(c)
    <3>1. UNCHANGED <<scope, answer>> /\ s.op \in {"exists", "attempt", "bind", "unbind", "configure"}
      BY <2>3 DEF NameExists, AttemptStep, BindNios, UnbindNios, ConfigureBridge, Looks, At,
                  connections, server_side
    <3>2. Continue(c, s.other) \/ Continue(c, r)
      BY <2>3 DEF NameExists, AttemptStep, BindNios, UnbindNios, ConfigureBridge, Rest
    <3>3. <<s.other, k>> \in After(prog[c], k) /\ <<r, k>> \in After(prog[c], k)
      BY <1>1, <3>1 DEF After
    <3> QED BY <2>k, <3>1, <3>2, <3>3
  <2>4. CASE Register(c)
    <3>1. UNCHANGED <<scope, answer>> /\ s.op = "make" /\ (Continue(c, <<Err>>) \/ Continue(c, r))
      BY <2>4 DEF Register, At, connections, server_side, Rest
    <3>2. <<<<Err>>, k>> \in After(prog[c], k) /\ <<r, Take(k, s.arg, s.type)>> \in After(prog[c], k)
      BY <1>1, <3>1 DEF After
    <3>4. Take(k, s.arg, s.type).ans = k.ans BY DEF Take, K
    <3> QED BY <2>k, <3>1, <3>2, <3>4
  <2>5. CASE Unreference(c) \/ UnreferenceOwn(c)
    <3>1. UNCHANGED <<scope, answer>> /\ s.op \in {"unref", "unref_own"} /\ Continue(c, r)
      BY <2>5 DEF Unreference, UnreferenceOwn, At, connections, server_side, Rest
    <3>2. <<r, Take(k, s.arg, "none")>> \in After(prog[c], k) BY <1>1, <3>1 DEF After
    <3>4. Take(k, s.arg, "none").ans = k.ans BY DEF Take, K
    <3> QED BY <2>k, <3>1, <3>2, <3>4
  <2>6. CASE RenameObject(c)
    <3>1. UNCHANGED <<scope, answer>> /\ s.op = "rename" /\ (Continue(c, s.other) \/ Continue(c, r))
      BY <2>6 DEF RenameObject, At, connections, server_side, Rest
    <3>2. <<s.other, k>> \in After(prog[c], k) /\ <<r, Renamed(k)>> \in After(prog[c], k)
      BY <1>1, <3>1 DEF After
    <3>4. Renamed(k).ans = k.ans BY DEF Renamed, K
    <3> QED BY <2>k, <3>1, <3>2, <3>4
  <2>7. CASE DeleteObject(c)
    <3>1. UNCHANGED <<scope, answer>> /\ s.op = "delete"
          /\ (Continue(c, s.absent) \/ Continue(c, s.inUse) \/ Continue(c, r))
      BY <2>7 DEF DeleteObject, At, connections, server_side, Rest
    <3>2. <<s.inUse, k>> \in After(prog[c], k) /\ <<s.absent, k>> \in After(prog[c], k)
          /\ <<r, k>> \in After(prog[c], k)
      BY <1>1, <3>1 DEF After
    <3> QED BY <2>k, <3>1, <3>2
  <2>8. CASE \/ UnbindEverything(c) \/ DeleteAll(c) \/ WalkType(c)
             \/ CloseCommand(c) \/ StopCommand(c)
    <3>1. UNCHANGED <<scope, answer>> /\ Continue(c, r)
          /\ s.op \in {"unbind_all", "delete_type", "walk", "deactivate", "halt"}
     
        BY <2>8 DEF UnbindEverything, DeleteAll, WalkType, CloseCommand, StopCommand, Looks, At,
                  connections, server_side, Rest
    <3>2. <<r, k>> \in After(prog[c], k) BY <1>1, <3>1 DEF After
    <3> QED BY <2>k, <3>1, <3>2
  <2>9. CASE ForgetPointer(c)
    <3>1. UNCHANGED <<scope, answer>> /\ s.op = "forget" /\ Continue(c, r)
      BY <2>9 DEF ForgetPointer, At, server_side, Rest
    <3>2. <<r, Take(k, 1, "none")>> \in After(prog[c], k) BY <1>1, <3>1 DEF After
    <3>4. Take(k, 1, "none").ans = k.ans BY DEF Take, K
    <3> QED BY <2>k, <3>1, <3>2, <3>4
  <2>b. CASE Silent(c)
    <3>1. UNCHANGED scope /\ s.op = "silence" /\ prog' = [prog EXCEPT ![c] = r]
          /\ answer' = [answer EXCEPT ![c] = "never"]
      BY <2>b DEF Silent, At, Continue, server_side, Rest
    <3>2. <<r, Answered(k, "never")>> \in After(prog[c], k) BY <1>1, <3>1 DEF After
    <3>3. Answered(k, "never").ans = "never" BY DEF Answered, K
    <3> QED BY <2>1, <3>1, <3>2, <3>3, AnsCommand
  <2>c. CASE Reply(c)
    <3>1. UNCHANGED scope /\ s.op = "reply" /\ prog' = [prog EXCEPT ![c] = r]
          /\ answer' = [answer EXCEPT ![c] = IF answer[c] = "none" THEN "one" ELSE "many"]
      BY <2>c DEF Reply, At, Continue, server_side, Rest, AnsInv
    <3>2. <<r, Answered(k, "one")>> \in After(prog[c], k) BY <1>1, <3>1 DEF After
    <3>3. Answered(k, "one").ans = "one" BY DEF Answered, K
    <3>4. answer[c] = "none" BY <1>1, <2>0, <2>1, <3>1 DEF Allowed
    <3> QED BY <2>1, <3>1, <3>2, <3>3, <3>4, AnsCommand
  <2>d. CASE LoopTop(c) \/ EndOfFile(c)
    <3>1. UNCHANGED <<scope, prog, answer>> BY <2>d DEF LoopTop, EndOfFile, server_side
    <3> QED BY <3>1 DEF AnsInv
  <2> QED BY <1>1, <2>2, <2>3, <2>4, <2>5, <2>6, <2>7, <2>8, <2>9, <2>b, <2>c, <2>d DEF Step
<1>2. ASSUME NEW c \in Conn, NEW p \in Lines, NEW a, Read(c, p, a) PROVE AnsInv'
  <2> DEFINE k == Start(Renames(p))
  <2>1. k.ans = "none" BY DEF Start, K
  <2>2. Good(p, k) BY LinesSafe DEF Safe, AnsInv
  <2>3. UNCHANGED scope /\ prog' = [prog EXCEPT ![c] = p] /\ answer' = [answer EXCEPT ![c] = "none"]
    BY <1>2 DEF Read, Continue, connections, server_side
  <2> HIDE DEF k
  <2>4. prog'[c] = p /\ answer'[c] = "none" BY <2>3 DEF AnsInv
  <2>5. \A d \in Conn \ {c} : prog'[d] = prog[d] /\ answer'[d] = answer[d]
    BY <2>3 DEF AnsInv
  <2> QED BY <2>1, <2>2, <2>3, <2>4, <2>5 DEF AnsInv
<1>3. CASE UNCHANGED <<scope, prog, answer>> BY <1>3 DEF AnsInv
<1>4. ASSUME NEW c \in Conn, Step(c), prog[c] = << >> PROVE AnsInv'
  <2>1. LoopTop(c) \/ EndOfFile(c)
   
      BY <1>4 DEF Step, At, FindObject, NameExists, AttemptStep, Register, Unreference, UnreferenceOwn,
      BindNios, UnbindNios, UnbindEverything, ConfigureBridge, RenameObject, DeleteObject,
      DeleteAll, WalkType, ForgetPointer, Silent, Reply, CloseCommand, StopCommand
  <2>2. UNCHANGED <<scope, prog, answer>> BY <2>1 DEF LoopTop, EndOfFile, server_side
  <2> QED BY <1>3, <2>2
<1>5. ASSUME NEW c \in Conn, Accept(c) \/ Disconnect(c) \/ CloseConn(c) \/ FreeConn(c) PROVE AnsInv'
  BY <1>3, <1>5 DEF Accept, Disconnect, CloseConn, FreeConn
<1>6. CASE StopSignal \/ LeaveLoop \/ ServerReturns
  BY <1>3, <1>6 DEF StopSignal, LeaveLoop, ServerReturns
<1>7. CASE UNCHANGED vars BY <1>3, <1>7 DEF vars
<1> QED BY <1>1, <1>2, <1>4, <1>5, <1>6, <1>7 DEF Next, ServerStep

(* A command gets one last line, whatever path its handler takes              *)
(* (hypervisor_send_reply with done set, in every handler of common/hv_*.c    *)
(* and stable/hv_vm.c): for any number of clients and names.                  *)
THEOREM HypervisorAnsweredOnce == Spec => []AnsweredOnce
<1>1. AnsInv => AnsweredOnce
  <2> SUFFICES ASSUME AnsInv, NEW c \in Conn
               PROVE  answer[c] # "many" /\ (prog[c] = << >> => answer[c] # "none")
    BY DEF AnsweredOnce
  <2>1. PICK k : Good(prog[c], k) /\ answer[c] = k.ans /\ k.ans \in {"none", "one", "never"}
    BY DEF AnsInv
  <2>2. Allowed(prog[c], k) BY <2>1, GoodStep
  <2> QED BY <2>1, <2>2 DEF Allowed
<1> QED BY <1>1, AnsInit, AnsStep, HypervisorAssumption, PTL DEF Spec

-----------------------------------------------------------------------------
(* What a handler holds is what its context says.                          *)

HeldBy(e, q, a, k) ==
  \A n \in 1 .. 2 :
    /\ q[n] = NoObj <=> Of(k, n) = "none"
    /\ q[n] # NoObj => e[q[n]].type = Of(k, n) /\ e[q[n]].name = a[Key(k, n)]

\* A context after a pointer was set or cleared.
LEMMA TakeContext ==
  ASSUME NEW k, NEW n \in 1 .. 2, NEW t
  PROVE  /\ Take(k, n, t).alone = k.alone
         /\ Of(Take(k, n, t), n) = t /\ Key(Take(k, n, t), n) = n
         /\ \A m \in 1 .. 2 : m # n => Of(Take(k, n, t), m) = Of(k, m)
                                       /\ Key(Take(k, n, t), m) = Key(k, m)
<1>1. CASE n = 1 BY <1>1 DEF Take, K, Of, Key
<1>2. CASE n = 2 BY <1>2 DEF Take, K, Of, Key
<1> QED BY <1>1, <1>2

\* What is held once a pointer is set.
LEMMA HeldTake ==
  ASSUME NEW e, NEW q \in [1 .. 2 -> 0 .. MaxObj], NEW a, NEW k, HeldBy(e, q, a, k),
         NEW n \in 1 .. 2, NEW o \in Obj, NEW t, t # "none",
         NEW e2, \A m \in 1 .. 2 : q[m] # NoObj => Keeps(e, e2, q[m]),
         e2[o].type = t, e2[o].name = a[n],
         NEW q2, q2 = [q EXCEPT ![n] = o]
  PROVE  HeldBy(e2, q2, a, Take(k, n, t))
<1> DEFINE k2 == Take(k, n, t)
<1>0. /\ Of(k2, n) = t /\ Key(k2, n) = n
      /\ \A m \in 1 .. 2 : m # n => Of(k2, m) = Of(k, m) /\ Key(k2, m) = Key(k, m)
  BY TakeContext
<1> HIDE DEF k2
<1>1. q2[n] = o /\ o # NoObj /\ \A m \in 1 .. 2 : m # n => q2[m] = q[m] BY DEF Obj, NoObj
<1>2. HeldBy(e2, q2, a, k2)
  <2> SUFFICES ASSUME NEW m \in 1 .. 2
               PROVE  /\ q2[m] = NoObj <=> Of(k2, m) = "none"
                      /\ q2[m] # NoObj => e2[q2[m]].type = Of(k2, m) /\ e2[q2[m]].name = a[Key(k2, m)]
    BY DEF HeldBy
  <2>1. CASE m = n BY <1>0, <1>1, <2>1
  <2>2. CASE m # n BY <1>0, <1>1, <2>2 DEF HeldBy, Keeps
  <2> QED BY <2>1, <2>2
<1> QED BY <1>2 DEF k2

\* What is held once a pointer is cleared.
LEMMA HeldDrop ==
  ASSUME NEW e, NEW q \in [1 .. 2 -> 0 .. MaxObj], NEW a, NEW k, HeldBy(e, q, a, k),
         NEW n \in 1 .. 2,
         NEW e2, \A m \in 1 .. 2 : q[m] # NoObj => Keeps(e, e2, q[m]),
         NEW q2, q2 = [q EXCEPT ![n] = NoObj]
  PROVE  HeldBy(e2, q2, a, Take(k, n, "none"))
<1> DEFINE k2 == Take(k, n, "none")
<1>0. /\ Of(k2, n) = "none" /\ Key(k2, n) = n
      /\ \A m \in 1 .. 2 : m # n => Of(k2, m) = Of(k, m) /\ Key(k2, m) = Key(k, m)
  BY TakeContext
<1> HIDE DEF k2
<1>1. q2[n] = NoObj /\ \A m \in 1 .. 2 : m # n => q2[m] = q[m] OBVIOUS
<1>2. HeldBy(e2, q2, a, k2)
  <2> SUFFICES ASSUME NEW m \in 1 .. 2
               PROVE  /\ q2[m] = NoObj <=> Of(k2, m) = "none"
                      /\ q2[m] # NoObj => e2[q2[m]].type = Of(k2, m) /\ e2[q2[m]].name = a[Key(k2, m)]
    BY DEF HeldBy
  <2>1. CASE m = n BY <1>0, <1>1, <2>1
  <2>2. CASE m # n BY <1>0, <1>1, <2>2 DEF HeldBy, Keeps
  <2> QED BY <2>1, <2>2
<1> QED BY <1>2 DEF k2

\* What is held stays held when the objects keep their types and names.
LEMMA HeldKeep ==
  ASSUME NEW e, NEW q, NEW a, NEW k, HeldBy(e, q, a, k),
         NEW e2, \A m \in 1 .. 2 : q[m] # NoObj => Keeps(e, e2, q[m]),
         NEW q2, \A m \in 1 .. 2 : q2[m] = q[m]
  PROVE  HeldBy(e2, q2, a, k)
<1> SUFFICES ASSUME NEW m \in 1 .. 2
             PROVE  /\ q2[m] = NoObj <=> Of(k, m) = "none"
                    /\ q2[m] # NoObj => e2[q2[m]].type = Of(k, m) /\ e2[q2[m]].name = a[Key(k, m)]
  BY DEF HeldBy
<1>1. q2[m] = q[m] OBVIOUS
<1> QED BY <1>1 DEF HeldBy, Keeps

Tracks(c, k) ==
  /\ Good(prog[c], k)
  /\ HeldBy(entry, ptr[c], args[c], k)
  /\ prog[c] # << >> /\ k.alone = TRUE => renamer = c

(* When a renaming command is executed alone: the references are counted and *)
(* every command is somewhere in a program that gives up what it holds.      *)
HvInv ==
  /\ scope \in Scopes
  /\ prog = [c \in Conn |-> prog[c]]
  /\ args = [c \in Conn |-> args[c]]
  /\ renamer \in Conn \cup {NoConn}
  /\ \A c, d \in Conn : renamer = c /\ prog[d] # << >> => d = c
  /\ ObjOK(entry, ptr, uses, forgotten)
  /\ \A c \in Conn : \E k : Tracks(c, k)

\* A step of one command moves its program and context on, and leaves the
\* others where they are.
LEMMA Moved ==
  ASSUME HvInv, NEW c \in Conn, NEW k, Tracks(c, k), prog[c] # << >>,
         NEW p, NEW k2, <<p, k2>> \in After(prog[c], k), k2.alone = k.alone,
         UNCHANGED scope, Continue(c, p),
         UNCHANGED <<args, renamer>> \/ Over(c),
         HeldBy(entry', ptr'[c], args[c], k2),
         \A d \in Conn \ {c} : \A n \in 1 .. 2 :
           /\ ptr'[d][n] = ptr[d][n]
           /\ ptr[d][n] # NoObj => Keeps(entry, entry', ptr[d][n]),
         ObjOK(entry', ptr', uses', forgotten')
  PROVE  HvInv'
<1>1. Good(p, k2) /\ Allowed(p, k2)
  <2> DEFINE x == <<p, k2>>
  <2>1. x[1] = p /\ x[2] = k2 OBVIOUS
  <2>2. Good(x[1], x[2]) BY GoodStep DEF Tracks
  <2>3. Good(p, k2) BY <2>1, <2>2
  <2> QED BY <2>3, GoodStep
<1>2. prog' = [prog EXCEPT ![c] = p] /\ prog'[c] = p /\ \A d \in Conn \ {c} : prog'[d] = prog[d]
  BY DEF Continue, HvInv
<1>3. /\ args' = [d \in Conn |-> args'[d]]
      /\ p # << >> => args'[c] = args[c]
      /\ \A d \in Conn \ {c} : args'[d] = args[d]
  BY <1>2 DEF Over, HvInv
<1>4. renamer' = renamer \/ (p = << >> /\ renamer = c /\ renamer' = NoConn) BY <1>2 DEF Over
<1>5. Tracks(c, k2)'
  <2>1. HeldBy(entry', ptr'[c], args'[c], k2)
    <3>1. CASE p # << >> BY <1>3, <3>1
    <3>2. CASE p = << >>
      <4>1. \A n \in 1 .. 2 : Of(k2, n) = "none" BY <1>1, <3>2 DEF Allowed, Of
      <4>2. \A n \in 1 .. 2 : ptr'[c][n] = NoObj BY <4>1 DEF HeldBy
      <4> QED BY <4>1, <4>2 DEF HeldBy
    <3> QED BY <3>1, <3>2
  <2>2. p # << >> /\ k2.alone = TRUE => renamer' = c BY <1>4 DEF Tracks
  <2> QED BY <1>1, <1>2, <2>1, <2>2 DEF Tracks
<1>6. ASSUME NEW d \in Conn \ {c} PROVE \E kd : Tracks(d, kd)'
  <2>1. PICK kd : Tracks(d, kd) BY DEF HvInv
  <2>2. HeldBy(entry, ptr[d], args[d], kd) BY <2>1 DEF Tracks
  <2>3. HeldBy(entry', ptr'[d], args[d], kd) BY <2>2, HeldKeep
  <2>4. prog[d] # << >> /\ kd.alone = TRUE => renamer' = d BY <1>4, <2>1 DEF Tracks
  <2>5. Tracks(d, kd)' BY <1>2, <1>3, <2>1, <2>3, <2>4 DEF Tracks
  <2> QED BY <2>5
<1>7. \A d, x \in Conn : renamer' = d /\ prog'[x] # << >> => x = d
  BY <1>2, <1>4 DEF HvInv
<1>8. prog' = [d \in Conn |-> prog'[d]] /\ renamer' \in Conn \cup {NoConn}
  BY <1>2, <1>4 DEF HvInv
<1>9. \A d \in Conn : \E kd : Tracks(d, kd)' BY <1>5, <1>6
<1> QED BY <1>3, <1>7, <1>8, <1>9 DEF HvInv

\* A step that leaves the pointers alone.
LEMMA MovedKeep ==
  ASSUME HvInv, NEW c \in Conn, NEW k, Tracks(c, k), prog[c] # << >>,
         NEW p, NEW k2, <<p, k2>> \in After(prog[c], k), k2.alone = k.alone,
         \A n \in 1 .. 2 : Of(k2, n) = Of(k, n) /\ Key(k2, n) = Key(k, n),
         UNCHANGED <<scope, ptr>>, Continue(c, p),
         UNCHANGED <<args, renamer>> \/ Over(c),
         \A d \in Conn, n \in 1 .. 2 :
           ptr[d][n] # NoObj => Keeps(entry, entry', ptr[d][n]),
         ObjOK(entry', ptr, uses', forgotten')
  PROVE  HvInv'
<1>1. HeldBy(entry', ptr[c], args[c], k) BY HeldKeep DEF Tracks
<1>2. HeldBy(entry', ptr'[c], args[c], k2) BY <1>1 DEF HeldBy
<1>3. ObjOK(entry', ptr', uses', forgotten') OBVIOUS
<1>4. \A d \in Conn \ {c} : \A n \in 1 .. 2 :
        /\ ptr'[d][n] = ptr[d][n]
        /\ ptr[d][n] # NoObj => Keeps(entry, entry', ptr[d][n])
  OBVIOUS
<1> QED BY <1>2, <1>3, <1>4, Moved

\* A step that leaves the objects alone.
LEMMA MovedQuiet ==
  ASSUME HvInv, NEW c \in Conn, NEW k, Tracks(c, k), prog[c] # << >>,
         NEW p, NEW k2, <<p, k2>> \in After(prog[c], k), k2.alone = k.alone,
         \A n \in 1 .. 2 : Of(k2, n) = Of(k, n) /\ Key(k2, n) = Key(k, n),
         UNCHANGED <<scope, objects, ptr>>, Continue(c, p),
         UNCHANGED <<args, renamer>> \/ Over(c)
  PROVE  HvInv'
<1>1. UNCHANGED <<scope, ptr, entry, uses, forgotten>> BY DEF objects
<1>2. ObjOK(entry', ptr, uses', forgotten') BY <1>1 DEF HvInv
<1>3. \A d \in Conn, n \in 1 .. 2 :
        ptr[d][n] # NoObj => Keeps(entry, entry', ptr[d][n])
  BY <1>1 DEF Keeps
<1> QED BY <1>1, <1>2, <1>3, MovedKeep

\* A pointer is an object or none, and one pointer is set.
LEMMA Pointers ==
  ASSUME HvInv, NEW c \in Conn, NEW n \in 1 .. 2, NEW o \in 0 .. MaxObj, Hold(c, n, o)
  PROVE  /\ ptr[c] \in [1 .. 2 -> 0 .. MaxObj]
         /\ ptr' = [ptr EXCEPT ![c][n] = o]
         /\ ptr'[c] = [ptr[c] EXCEPT ![n] = o]
         /\ \A d \in Conn \ {c} : ptr'[d] = ptr[d]
BY DEF HvInv, ObjOK, Ptrs, Hold

\* A pointer that is set is to an object that is registered.
LEMMA PointerType ==
  ASSUME HypervisorAssumption, HvInv, NEW c \in Conn, NEW n \in 1 .. 2, ptr[c][n] # NoObj
  PROVE  ptr[c][n] \in Obj /\ entry[ptr[c][n]].type # "none"
<1>1. ptr[c][n] \in 0 .. MaxObj BY DEF HvInv, ObjOK, Ptrs
<1>2. ptr[c][n] \in Obj BY <1>1 DEF Obj, NoObj, HypervisorAssumption
<1>3. ObjOK(entry, ptr, uses, forgotten) BY DEF HvInv
<1> QED BY <1>2, <1>3, Registered

\* What registry_find returns.
LEMMA FoundObject ==
  ASSUME NEW t, NEW nm
  PROVE  /\ Found(t, nm) # NoObj => /\ Found(t, nm) \in Obj
                                    /\ entry[Found(t, nm)].type = t /\ entry[Found(t, nm)].name = nm
         /\ Found(t, nm) = NoObj => \A o \in Obj : ~ (entry[o].type = t /\ entry[o].name = nm)
<1>1. CASE \E o \in Obj : entry[o].type = t /\ entry[o].name = nm
  <2> DEFINE o == CHOOSE o \in Obj : entry[o].type = t /\ entry[o].name = nm
  <2>1. o \in Obj /\ entry[o].type = t /\ entry[o].name = nm BY <1>1
  <2>2. Found(t, nm) = o BY <1>1 DEF Found
  <2>3. o # NoObj BY <2>1 DEF Obj, NoObj
  <2> HIDE DEF o
  <2> QED BY <2>1, <2>2, <2>3
<1>2. CASE ~ \E o \in Obj : entry[o].type = t /\ entry[o].name = nm BY <1>2 DEF Found
<1> QED BY <1>1, <1>2

\* A step that takes a pointer.
LEMMA MovedTake ==
  ASSUME HypervisorAssumption, HvInv, NEW c \in Conn, NEW k, Tracks(c, k), prog[c] # << >>,
         NEW p, NEW n \in 1 .. 2, NEW o \in Obj, NEW t, t # "none",
         <<p, Take(k, n, t)>> \in After(prog[c], k),
         UNCHANGED <<scope, args, renamer>>, Continue(c, p), Hold(c, n, o),
         \A d \in Conn, m \in 1 .. 2 : ptr[d][m] # NoObj => Keeps(entry, entry', ptr[d][m]),
         entry'[o].type = t, entry'[o].name = args[c][n],
         ObjOK(entry', ptr', uses', forgotten')
  PROVE  HvInv'
<1>1. o \in 0 .. MaxObj BY DEF Obj, HypervisorAssumption
<1>2. /\ ptr[c] \in [1 .. 2 -> 0 .. MaxObj] /\ ptr'[c] = [ptr[c] EXCEPT ![n] = o]
      /\ \A d \in Conn \ {c} : ptr'[d] = ptr[d]
  BY <1>1, Pointers
<1>3. HeldBy(entry, ptr[c], args[c], k) BY DEF Tracks
<1>4. HeldBy(entry', ptr'[c], args[c], Take(k, n, t))
  <2> DEFINE q == ptr[c]
             q2 == ptr'[c]
             a == args[c]
  <2>1. /\ q \in [1 .. 2 -> 0 .. MaxObj] /\ q2 = [q EXCEPT ![n] = o]
        /\ HeldBy(entry, q, a, k) /\ entry'[o].name = a[n]
        /\ \A m \in 1 .. 2 : q[m] # NoObj => Keeps(entry, entry', q[m])
    BY <1>2, <1>3
  <2> HIDE DEF q, q2, a
  <2>2. HeldBy(entry', q2, a, Take(k, n, t)) BY <2>1, HeldTake
  <2> QED BY <2>2 DEF q2, a
<1>5. Take(k, n, t).alone = k.alone BY TakeContext
<1>6. \A d \in Conn \ {c} : \A m \in 1 .. 2 :
        ptr'[d][m] = ptr[d][m] /\ (ptr[d][m] # NoObj => Keeps(entry, entry', ptr[d][m]))
  BY <1>2
<1> QED BY <1>4, <1>5, <1>6, Moved

\* A step that gives a pointer up.
LEMMA MovedDrop ==
  ASSUME HypervisorAssumption, HvInv, NEW c \in Conn, NEW k, Tracks(c, k), prog[c] # << >>,
         NEW p, NEW n \in 1 .. 2, <<p, Take(k, n, "none")>> \in After(prog[c], k),
         UNCHANGED scope, UNCHANGED <<args, renamer>> \/ Over(c),
         Continue(c, p), Hold(c, n, NoObj),
         \A d \in Conn, m \in 1 .. 2 : ptr[d][m] # NoObj => Keeps(entry, entry', ptr[d][m]),
         ObjOK(entry', ptr', uses', forgotten')
  PROVE  HvInv'
<1>1. NoObj \in 0 .. MaxObj BY DEF NoObj, HypervisorAssumption
<1>2. /\ ptr[c] \in [1 .. 2 -> 0 .. MaxObj] /\ ptr'[c] = [ptr[c] EXCEPT ![n] = NoObj]
      /\ \A d \in Conn \ {c} : ptr'[d] = ptr[d]
  BY <1>1, Pointers
<1>3. HeldBy(entry, ptr[c], args[c], k) BY DEF Tracks
<1>4. HeldBy(entry', ptr'[c], args[c], Take(k, n, "none"))
  <2> DEFINE q == ptr[c]
             q2 == ptr'[c]
             a == args[c]
  <2>1. /\ q \in [1 .. 2 -> 0 .. MaxObj] /\ q2 = [q EXCEPT ![n] = NoObj]
        /\ HeldBy(entry, q, a, k)
        /\ \A m \in 1 .. 2 : q[m] # NoObj => Keeps(entry, entry', q[m])
    BY <1>2, <1>3
  <2> HIDE DEF q, q2, a
  <2>2. HeldBy(entry', q2, a, Take(k, n, "none")) BY <2>1, HeldDrop
  <2> QED BY <2>2 DEF q2, a
<1>5. Take(k, n, "none").alone = k.alone BY TakeContext
<1>6. \A d \in Conn \ {c} : \A m \in 1 .. 2 :
        ptr'[d][m] = ptr[d][m] /\ (ptr[d][m] # NoObj => Keeps(entry, entry', ptr[d][m]))
  BY <1>2
<1> QED BY <1>4, <1>5, <1>6, Moved

\* registry_find.
LEMMA HvFind ==
  ASSUME HypervisorAssumption, HvInv, NEW c \in Conn, NEW k, Tracks(c, k), Allowed(prog[c], k),
         FindObject(c)
  PROVE  HvInv'
<1> DEFINE s == Head(prog[c])
           r == Tail(prog[c])
           o == Found(s.type, args[c][s.arg])
           t == Take(k, s.arg, s.type)
<1>1. /\ prog[c] # << >> /\ s.op \in {"find", "find_vm"}
      /\ UNCHANGED <<scope, uses, forgotten, args, renamer>>
  BY DEF FindObject, At, connections, server_side
<1>2. s.arg \in 1 .. 2 /\ Of(k, s.arg) = "none" /\ s.type \in ObjType
  BY <1>1 DEF Allowed
<1>3. CASE o = NoObj
  <2>1. Continue(c, s.other) /\ UNCHANGED <<entry, ptr>> BY <1>3 DEF FindObject
  <2>2. <<s.other, k>> \in After(prog[c], k) BY <1>1 DEF After
  <2> QED BY <1>1, <2>1, <2>2, MovedQuiet DEF objects
<1>4. CASE o # NoObj
  <2>1. o \in Obj /\ entry[o].type = s.type /\ entry[o].name = args[c][s.arg]
    BY <1>4, FoundObject
  <2>2. Count(o, 1) /\ Hold(c, s.arg, o) BY <1>4 DEF FindObject
  <2>3. PICK p : Continue(c, p) /\ <<p, t>> \in After(prog[c], k)
    <3>1. Continue(c, r) \/ (s.op = "find_vm" /\ Continue(c, VmRefused))
      BY <1>4 DEF FindObject, Rest
    <3>2. <<r, t>> \in After(prog[c], k) BY <1>1 DEF After
    <3>3. s.op = "find_vm" => <<VmRefused, t>> \in After(prog[c], k) BY <1>1 DEF After
    <3> QED BY <3>1, <3>2, <3>3
  <2> HIDE DEF s, r, o
  <2>4. ptr[c][s.arg] = NoObj /\ s.type # "none" BY <1>2 DEF Tracks, HeldBy, ObjType
  <2>5. ObjOK(entry', ptr', uses, forgotten) /\ \A x \in Obj : Keeps(entry, entry', x)
    <3>1. Counts(entry, entry', o, 1) /\ Points(ptr, ptr', c, s.arg, o)
      BY <2>2 DEF Count, Hold, Counts, Points
    <3>2. entry[o].type # "none" BY <2>1, <2>4
    <3>3. ObjOK(entry, ptr, uses, forgotten) BY DEF HvInv
    <3> QED BY <1>2, <2>1, <2>4, <3>1, <3>2, <3>3, ObjTake
  <2>6. \A d \in Conn, n \in 1 .. 2 : ptr[d][n] # NoObj => Keeps(entry, entry', ptr[d][n])
    BY <2>5, PointerType
  <2>7. entry'[o].type = s.type /\ entry'[o].name = args[c][s.arg] BY <2>1, <2>5 DEF Keeps
  <2>8. ObjOK(entry', ptr', uses', forgotten') BY <1>1, <2>5
  <2>9. \A x \in Obj, n \in 1 .. 2 : \A y :
          /\ x = o /\ n = s.arg /\ y = s.type
          => y # "none" /\ <<p, Take(k, n, y)>> \in After(prog[c], k) /\ Hold(c, n, x)
             /\ entry'[x].type = y /\ entry'[x].name = args[c][n]
    BY <2>2, <2>3, <2>4, <2>7
  <2> QED BY <1>1, <1>2, <2>1, <2>3, <2>6, <2>8, <2>9, MovedTake
<1> QED BY <1>3, <1>4

\* registry_add.
LEMMA HvRegister ==
  ASSUME HypervisorAssumption, HvInv, NEW c \in Conn, NEW k, Tracks(c, k), Allowed(prog[c], k),
         Register(c)
  PROVE  HvInv'
<1> DEFINE s == Head(prog[c])
           r == Tail(prog[c])
<1>1. /\ prog[c] # << >> /\ s.op = "make"
      /\ UNCHANGED <<scope, uses, forgotten, args, renamer>>
  BY DEF Register, At, connections, server_side
<1>2. s.arg \in 1 .. 2 /\ Of(k, s.arg) = "none" /\ s.type \in ObjType
  BY <1>1 DEF Allowed
<1>3. CASE Continue(c, <<Err>>) /\ UNCHANGED <<entry, ptr>>
  <2>1. <<<<Err>>, k>> \in After(prog[c], k) BY <1>1 DEF After
  <2> QED BY <1>1, <1>3, <2>1, MovedQuiet DEF objects
<1>4. ASSUME Found(s.type, args[c][s.arg]) = NoObj, NEW plat, NEW o \in Obj, Unused(o),
             entry' = [entry EXCEPT ![o] = [type |-> s.type, name |-> args[c][s.arg],
                                            platform |-> plat, refs |-> 1]],
             Hold(c, s.arg, o), Continue(c, r)
      PROVE  HvInv'
  <2>1. <<r, Take(k, s.arg, s.type)>> \in After(prog[c], k) BY <1>1 DEF After
  <2> HIDE DEF s, r
  <2>2. ~ Taken(entry, s.type, args[c][s.arg]) BY <1>4, FoundObject DEF Taken
  <2>3. ptr[c][s.arg] = NoObj /\ s.type # "none" BY <1>2 DEF Tracks, HeldBy, ObjType
  <2>4. /\ ObjOK(entry', ptr', uses, forgotten)
        /\ \A x \in Obj \ {o} : Keeps(entry, entry', x)
        /\ entry'[o].type = s.type /\ entry'[o].name = args[c][s.arg]
    <3>1. entry[o].type = "none" BY <1>4 DEF Unused, Live
    <3>2. Enters(entry, entry', ptr, ptr', c, s.arg, o, s.type, args[c][s.arg], plat)
      BY <1>4, <2>2, <2>3, <3>1 DEF Hold, Enters
    <3>3. ObjOK(entry, ptr, uses, forgotten) BY DEF HvInv
    <3> QED BY <1>2, <3>2, <3>3, ObjRegister
  <2>5. ASSUME NEW d \in Conn, NEW n \in 1 .. 2, ptr[d][n] # NoObj
        PROVE  Keeps(entry, entry', ptr[d][n])
    <3>1. ptr[d][n] \in Obj BY <2>5, PointerType
    <3>2. ptr[d][n] # o BY <1>4 DEF Unused
    <3> QED BY <2>4, <3>1, <3>2
  <2>6. ObjOK(entry', ptr', uses', forgotten') BY <1>1, <2>4
  <2> QED BY <1>1, <1>2, <1>4, <2>1, <2>3, <2>4, <2>5, <2>6, MovedTake
<1> QED BY <1>3, <1>4 DEF Register, Rest

\* registry_unref by name: under this name there is still the object held.
LEMMA HvUnreference ==
  ASSUME HypervisorAssumption, HvInv, NEW c \in Conn, NEW k, Tracks(c, k), Allowed(prog[c], k),
         Unreference(c) \/ UnreferenceOwn(c)
  PROVE  HvInv'
<1> DEFINE s == Head(prog[c])
           r == Tail(prog[c])
           o == ptr[c][s.arg]
<1>1. /\ prog[c] # << >> /\ s.op \in {"unref", "unref_own"}
      /\ UNCHANGED <<scope, uses, forgotten>>
      /\ UNCHANGED <<args, renamer>> \/ Over(c)
      /\ Continue(c, r) /\ Hold(c, s.arg, NoObj)
  BY DEF Unreference, UnreferenceOwn, At, connections, server_side, Rest
<1>2. s.arg \in 1 .. 2 /\ Of(k, s.arg) # "none" BY <1>1 DEF Allowed, ObjType
<1>3. <<r, Take(k, s.arg, "none")>> \in After(prog[c], k) BY <1>1 DEF After
<1>4. o # NoObj /\ o \in Obj /\ entry[o].type # "none"
  BY <1>2, PointerType DEF Tracks, HeldBy
<1>5. Count(o, -1)
  <2>1. CASE UnreferenceOwn(c) BY <2>1 DEF UnreferenceOwn
  <2>2. CASE Unreference(c)
    <3> DEFINE x == Found(s.type, args[c][s.name])
    <3>1. s.op = "unref" BY <2>2 DEF Unreference, At
    <3>2. Of(k, s.arg) = s.type /\ s.name = Key(k, s.arg) BY <1>1, <3>1 DEF Allowed
    <3>3. entry[o].type = s.type /\ entry[o].name = args[c][s.name]
      BY <1>2, <1>4, <3>2 DEF Tracks, HeldBy
    <3>4. x # NoObj /\ x \in Obj /\ entry[x].type = s.type /\ entry[x].name = args[c][s.name]
      BY <1>4, <3>3, FoundObject
    <3>5. x = o
      <4> HIDE DEF x, o, s
      <4> QED BY <1>4, <3>3, <3>4 DEF HvInv, ObjOK
    <3>6. Count(x, -1) BY <2>2, <3>4 DEF Unreference
    <3> HIDE DEF x, o
    <3> QED BY <3>5, <3>6
  <2> QED BY <2>1, <2>2
<1> HIDE DEF s, r
<1>6. ObjOK(entry', ptr', uses, forgotten) /\ \A x \in Obj : Keeps(entry, entry', x)
  <2>1. Counts(entry, entry', o, -1) /\ Points(ptr, ptr', c, s.arg, NoObj)
    BY <1>1, <1>5 DEF Count, Hold, Counts, Points
  <2>2. ObjOK(entry, ptr, uses, forgotten) BY DEF HvInv
  <2> QED BY <1>2, <1>4, <2>1, <2>2, ObjDrop
<1>7. \A d \in Conn, n \in 1 .. 2 : ptr[d][n] # NoObj => Keeps(entry, entry', ptr[d][n])
  BY <1>6, PointerType
<1>8. ObjOK(entry', ptr', uses', forgotten') BY <1>1, <1>6
<1> QED BY <1>1, <1>2, <1>3, <1>7, <1>8, MovedDrop

\* A path that ends with a pointer.
LEMMA HvForget ==
  ASSUME HypervisorAssumption, HvInv, NEW c \in Conn, NEW k, Tracks(c, k), Allowed(prog[c], k),
         ForgetPointer(c)
  PROVE  HvInv'
<1> DEFINE r == Tail(prog[c])
           o == ptr[c][1]
<1>1. /\ prog[c] # << >> /\ Head(prog[c]).op = "forget"
      /\ UNCHANGED <<scope, entry, uses>> /\ Over(c)
      /\ Continue(c, r) /\ Hold(c, 1, NoObj)
      /\ forgotten' = [forgotten EXCEPT ![o] = @ + 1]
  BY DEF ForgetPointer, At, server_side, Rest
<1>2. k.one # "none" BY <1>1 DEF Allowed
<1>3. <<r, Take(k, 1, "none")>> \in After(prog[c], k) BY <1>1 DEF After
<1>4. o # NoObj /\ o \in Obj BY <1>2, PointerType DEF Tracks, HeldBy, Of
<1> HIDE DEF r
<1>5. ObjOK(entry, ptr', uses, forgotten')
  <2>1. 1 \in 1 .. 2 /\ Points(ptr, ptr', c, 1, NoObj) /\ Forgot(forgotten, forgotten', o)
    BY <1>1 DEF Hold, Points, Forgot
  <2>2. ObjOK(entry, ptr, uses, forgotten) BY DEF HvInv
  <2> QED BY <1>1, <1>4, <2>1, <2>2, ObjForget
<1>6. ObjOK(entry', ptr', uses', forgotten') BY <1>1, <1>5
<1>7. \A d \in Conn, n \in 1 .. 2 : ptr[d][n] # NoObj => Keeps(entry, entry', ptr[d][n])
  BY <1>1 DEF Keeps
<1>8. 1 \in 1 .. 2 OBVIOUS
<1> QED BY <1>1, <1>3, <1>6, <1>7, <1>8, MovedDrop

\* The NIOs that arguments name.
LEMMA NamedBag ==
  ASSUME HypervisorAssumption, NEW c, NEW nios \in SUBSET {2, 3}
  PROVE  /\ Named(c, nios) \in [Obj -> 0 .. MaxUse]
         /\ \A o \in Obj : entry[o].type = "none" => Named(c, nios)[o] = 0
<1> DEFINE I(o) == {i \in nios : Found("nio", args[c][i]) = o}
<1>1. IsFiniteSet(2 .. 3) /\ Cardinality(2 .. 3) = 2
  <2>1. 2 \in Int /\ 3 \in Int OBVIOUS
  <2>2. IsFiniteSet(2 .. 3) /\ Cardinality(2 .. 3) = IF 2 > 3 THEN 0 ELSE 3 - 2 + 1
    BY <2>1, FS_Interval
  <2> QED BY <2>2
<1>2. ASSUME NEW o \in Obj PROVE Cardinality(I(o)) \in 0 .. MaxUse
  <2>1. I(o) \in SUBSET (2 .. 3)
    <3>1. \A i \in nios : i \in 2 .. 3 OBVIOUS
    <3> QED BY <3>1
  <2> HIDE DEF I
  <2>2. IsFiniteSet(I(o)) /\ Cardinality(I(o)) <= 2 BY <1>1, <2>1, FS_Subset
  <2>3. Cardinality(I(o)) \in Nat BY <2>2, FS_CardinalityType
  <2> QED BY <2>2, <2>3 DEF HypervisorAssumption
<1>3. ASSUME NEW o \in Obj, entry[o].type = "none" PROVE Cardinality(I(o)) = 0
  <2>1. o # NoObj BY DEF Obj, NoObj
  <2>2. ASSUME NEW i \in nios, Found("nio", args[c][i]) = o PROVE FALSE
    BY <1>3, <2>1, <2>2, FoundObject
  <2>3. I(o) = {} BY <2>2
  <2> QED BY <2>3, FS_EmptySet
<1>4. Named(c, nios) = [o \in Obj |-> Cardinality(I(o))] BY DEF Named
<1> HIDE DEF I
<1> QED BY <1>2, <1>3, <1>4

\* The object a handler works on.
LEMMA FirstPointer ==
  ASSUME HypervisorAssumption, HvInv, NEW c \in Conn, NEW k, Tracks(c, k), k.one # "none"
  PROVE  /\ ptr[c][1] \in Obj /\ entry[ptr[c][1]].type # "none"
         /\ ptr[c][1] # NoObj /\ entry[ptr[c][1]].type = k.one
<1>1. ptr[c][1] # NoObj /\ entry[ptr[c][1]].type = k.one BY DEF Tracks, HeldBy, Of
<1>2. 1 \in 1 .. 2 OBVIOUS
<1> QED BY <1>1, <1>2, PointerType

\* A step that binds and unbinds NIOs.
LEMMA MovedRebind ==
  ASSUME HypervisorAssumption, HvInv, NEW c \in Conn, NEW k, Tracks(c, k), prog[c] # << >>,
         k.one # "none", <<Tail(prog[c]), k>> \in After(prog[c], k),
         UNCHANGED <<scope, forgotten, args, ptr, renamer>>, Continue(c, Tail(prog[c])),
         NEW bag \in [Obj -> 0 .. MaxUse], Rebind(ptr[c][1], bag),
         \A o \in Obj : entry[o].type = "none" => bag[o] = 0
  PROVE  HvInv'
<1>1. ptr[c][1] \in Obj /\ entry[ptr[c][1]].type # "none" BY FirstPointer
<1>2. Rebinds(entry, entry', uses, uses', ptr[c][1], bag) BY <1>1 DEF Rebind, Rebinds
<1>3. ObjOK(entry, ptr, uses, forgotten) BY DEF HvInv
<1>4. ObjOK(entry', ptr, uses', forgotten) /\ \A x \in Obj : Keeps(entry, entry', x)
  BY <1>1, <1>2, <1>3, ObjRebind
<1>5. \A d \in Conn, n \in 1 .. 2 : ptr[d][n] # NoObj => Keeps(entry, entry', ptr[d][n])
  BY <1>4, PointerType
<1>6. ObjOK(entry', ptr, uses', forgotten') BY <1>4
<1> QED BY <1>5, <1>6, MovedKeep

\* netio_acquire and netio_release, of the bridges, switches and slots.
LEMMA HvBind ==
  ASSUME HypervisorAssumption, HvInv, NEW c \in Conn, NEW k, Tracks(c, k), Allowed(prog[c], k),
         BindNios(c) \/ UnbindNios(c) \/ UnbindEverything(c)
  PROVE  HvInv'
<1> DEFINE s == Head(prog[c])
           r == Tail(prog[c])
           b == ptr[c][1]
           bag == Named(c, s.nios)
           more == [o \in Obj |-> uses[b][o] + bag[o]]
           less == [o \in Obj |-> uses[b][o] - bag[o]]
           nil == [o \in Obj |-> 0]
<1>1. /\ prog[c] # << >> /\ s.op \in {"bind", "unbind", "unbind_all"}
      /\ UNCHANGED <<scope, forgotten, args, ptr, renamer>>
  BY DEF BindNios, UnbindNios, UnbindEverything, At, connections, server_side
<1>2. k.one # "none" /\ b \in Obj /\ entry[b].type # "none"
  <2>1. k.one # "none" BY <1>1 DEF Allowed
  <2> QED BY <2>1, FirstPointer
<1>3. <<r, k>> \in After(prog[c], k) BY <1>1 DEF After
<1>4. ObjOK(entry, ptr, uses, forgotten) BY DEF HvInv
<1>5. \A o \in Obj : uses[b][o] \in 0 .. MaxUse BY <1>2, <1>4 DEF ObjOK, Table
<1>6. \A o \in Obj : entry[o].type = "none" => uses[b][o] = 0 BY <1>2, <1>4, Registered
<1>0. MaxUse \in Nat BY DEF HypervisorAssumption
<1>7. s.op \in {"bind", "unbind"} => /\ bag \in [Obj -> 0 .. MaxUse]
                                     /\ \A o \in Obj : entry[o].type = "none" => bag[o] = 0
  <2>1. ASSUME s.op \in {"bind", "unbind"} PROVE s.nios \in SUBSET {2, 3}
    BY <1>1, <2>1 DEF Allowed
  <2> QED BY <2>1, NamedBag
<1>8. CASE /\ s.op \in {"bind", "unbind"}
           /\ Continue(c, s.other) /\ UNCHANGED <<entry, uses>>
  <2>1. <<s.other, k>> \in After(prog[c], k) BY <1>1, <1>8 DEF After
  <2> QED BY <1>1, <1>8, <2>1, MovedQuiet DEF objects
<1>9. CASE /\ s.op = "bind" /\ \A o \in Obj : uses[b][o] + bag[o] <= MaxUse
           /\ Rebind(b, more) /\ Continue(c, r)
  <2>1. bag \in [Obj -> 0 .. MaxUse] /\ \A o \in Obj : entry[o].type = "none" => bag[o] = 0
    BY <1>7, <1>9
  <2> HIDE DEF bag, b, s
  <2>2. more \in [Obj -> 0 .. MaxUse] BY <1>0, <1>5, <1>9, <2>1
  <2>3. \A o \in Obj : entry[o].type = "none" => more[o] = 0 BY <1>6, <2>1
  <2> HIDE DEF more
  <2> QED BY <1>1, <1>2, <1>3, <1>9, <2>2, <2>3, MovedRebind DEF b
<1>a. CASE /\ s.op = "unbind" /\ \A o \in Obj : uses[b][o] >= bag[o]
           /\ Rebind(b, less) /\ Continue(c, r)
  <2>1. bag \in [Obj -> 0 .. MaxUse] /\ \A o \in Obj : entry[o].type = "none" => bag[o] = 0
    BY <1>7, <1>a
  <2> HIDE DEF bag, b, s
  <2>2. less \in [Obj -> 0 .. MaxUse] BY <1>0, <1>5, <1>a, <2>1
  <2>3. \A o \in Obj : entry[o].type = "none" => less[o] = 0 BY <1>6, <2>1
  <2> HIDE DEF less
  <2> QED BY <1>1, <1>2, <1>3, <1>a, <2>2, <2>3, MovedRebind DEF b
<1>b. CASE Rebind(b, nil) /\ Continue(c, r)
  <2>1. nil \in [Obj -> 0 .. MaxUse] /\ \A o \in Obj : entry[o].type = "none" => nil[o] = 0
    BY <1>0
  <2> HIDE DEF nil
  <2> QED BY <1>1, <1>2, <1>3, <1>b, <2>1, MovedRebind
<1>c. CASE BindNios(c)
  <2>1. s.op = "bind" BY <1>c DEF BindNios, At
  <2>2. \/ Continue(c, s.other) /\ UNCHANGED <<entry, uses>>
        \/ /\ \A o \in Obj : uses[b][o] + bag[o] <= MaxUse
           /\ Rebind(b, more) /\ Continue(c, r)
    BY <1>c DEF BindNios, Rest
  <2> QED BY <1>8, <1>9, <2>1, <2>2
<1>d. CASE UnbindNios(c)
  <2>1. s.op = "unbind" BY <1>d DEF UnbindNios, At
  <2>2. \/ Continue(c, s.other) /\ UNCHANGED <<entry, uses>>
        \/ /\ \A o \in Obj : uses[b][o] >= bag[o]
           /\ Rebind(b, less) /\ Continue(c, r)
    BY <1>d DEF UnbindNios, Rest
  <2> QED BY <1>8, <1>a, <2>1, <2>2
<1>e. CASE UnbindEverything(c) BY <1>b, <1>e DEF UnbindEverything, Rest
<1> QED BY <1>c, <1>d, <1>e

\* atm_bridge_configure.
LEMMA HvConfigure ==
  ASSUME HypervisorAssumption, HvInv, NEW c \in Conn, NEW k, Tracks(c, k), Allowed(prog[c], k),
         ConfigureBridge(c)
  PROVE  HvInv'
<1> DEFINE s == Head(prog[c])
           r == Tail(prog[c])
           b == ptr[c][1]
           bag == Named(c, s.nios)
<1>1. /\ prog[c] # << >> /\ s.op = "configure"
      /\ UNCHANGED <<scope, args, ptr, renamer>>
  BY DEF ConfigureBridge, At, connections, server_side
<1>2. k.one # "none" /\ s.nios \in SUBSET {2, 3} BY <1>1 DEF Allowed
<1>3. <<r, k>> \in After(prog[c], k) /\ <<s.other, k>> \in After(prog[c], k)
  BY <1>1 DEF After
<1>4. bag \in [Obj -> 0 .. MaxUse] /\ \A o \in Obj : entry[o].type = "none" => bag[o] = 0
  BY <1>2, NamedBag
<1>5. \/ Rebind(b, bag) /\ Continue(c, r) /\ UNCHANGED forgotten
      \/ /\ Continue(c, s.other) /\ UNCHANGED uses
         /\ entry' = [o \in Obj |-> [entry[o] EXCEPT !.refs = @ + bag[o]]]
         /\ forgotten' = [o \in Obj |-> forgotten[o] + bag[o]]
      \/ Continue(c, s.other) /\ UNCHANGED <<entry, uses, forgotten>>
  BY DEF ConfigureBridge, Rest
<1> HIDE DEF s, bag, b
<1>6. CASE Rebind(b, bag) /\ Continue(c, r) /\ UNCHANGED forgotten
  BY <1>1, <1>2, <1>3, <1>4, <1>6, MovedRebind DEF b
<1>7. CASE /\ Continue(c, s.other) /\ UNCHANGED uses
           /\ entry' = [o \in Obj |-> [entry[o] EXCEPT !.refs = @ + bag[o]]]
           /\ forgotten' = [o \in Obj |-> forgotten[o] + bag[o]]
  <2>1. ForgotBag(entry, entry', forgotten, forgotten', bag) BY <1>4, <1>7 DEF ForgotBag
  <2>2. ObjOK(entry, ptr, uses, forgotten) BY DEF HvInv
  <2>3. ObjOK(entry', ptr, uses, forgotten') /\ \A x \in Obj : Keeps(entry, entry', x)
    BY <2>1, <2>2, ObjForgetBag
  <2>4. \A d \in Conn, n \in 1 .. 2 : ptr[d][n] # NoObj => Keeps(entry, entry', ptr[d][n])
    BY <2>3, PointerType
  <2>5. ObjOK(entry', ptr, uses', forgotten') BY <1>7, <2>3
  <2> QED BY <1>1, <1>3, <1>7, <2>4, <2>5, MovedKeep
<1>8. CASE Continue(c, s.other) /\ UNCHANGED <<entry, uses, forgotten>>
  BY <1>1, <1>3, <1>8, MovedQuiet DEF objects
<1> QED BY <1>5, <1>6, <1>7, <1>8

\* registry_delete_if_unused and registry_delete_type.
LEMMA MovedDestroy ==
  ASSUME HypervisorAssumption, HvInv, NEW c \in Conn, NEW k, Tracks(c, k), prog[c] # << >>,
         <<Tail(prog[c]), k>> \in After(prog[c], k),
         UNCHANGED <<scope, args, ptr, renamer>>, Continue(c, Tail(prog[c])),
         NEW D \in SUBSET Obj, Destroy(D), \A o \in D : entry[o].refs = 0
  PROVE  HvInv'
<1>1. Destroys(entry, entry', uses, uses', forgotten, forgotten', D)
  BY DEF Destroy, Destroys, BoundBy, Bindings, BindingsIn
<1>2. ObjOK(entry, ptr, uses, forgotten) BY DEF HvInv
<1>3. /\ ObjOK(entry', ptr, uses', forgotten') /\ \A x \in Obj \ D : Keeps(entry, entry', x)
      /\ \A d \in Conn, m \in 1 .. 2 : ptr[d][m] \notin D
  BY <1>1, <1>2, ObjDestroy
<1>4. \A d \in Conn, n \in 1 .. 2 : ptr[d][n] # NoObj => Keeps(entry, entry', ptr[d][n])
  BY <1>3, PointerType
<1> QED BY <1>3, <1>4, MovedKeep

\* The commands that delete.
LEMMA HvDelete ==
  ASSUME HypervisorAssumption, HvInv, NEW c \in Conn, NEW k, Tracks(c, k), Allowed(prog[c], k),
         DeleteObject(c) \/ DeleteAll(c)
  PROVE  HvInv'
<1> DEFINE s == Head(prog[c])
           r == Tail(prog[c])
<1>1. /\ prog[c] # << >> /\ s.op \in {"delete", "delete_type"}
      /\ UNCHANGED <<scope, args, ptr, renamer>>
  BY DEF DeleteObject, DeleteAll, At, connections, server_side
<1>2. <<r, k>> \in After(prog[c], k) BY <1>1 DEF After
<1>3. s.op = "delete" => <<s.inUse, k>> \in After(prog[c], k) /\ <<s.absent, k>> \in After(prog[c], k)
  BY <1>1 DEF After
<1>4. CASE DeleteAll(c)
  <2>1. PICK D \in SUBSET {o \in Obj : entry[o].type = s.type /\ entry[o].refs = 0} :
          Destroy(D) /\ Continue(c, r)
    BY <1>4 DEF DeleteAll, Rest
  <2>2. D \in SUBSET Obj /\ \A o \in D : entry[o].refs = 0 BY <2>1
  <2> QED BY <1>1, <1>2, <2>1, <2>2, MovedDestroy
<1>5. CASE DeleteObject(c)
  <2> DEFINE o == Found(s.type, args[c][1])
  <2>1. s.op = "delete" BY <1>5 DEF DeleteObject, At
  <2>2. \/ Deletable(o) /\ Destroy({o}) /\ Continue(c, r)
        \/ (Continue(c, s.absent) \/ Continue(c, s.inUse)) /\ UNCHANGED objects
    BY <1>5 DEF DeleteObject, Rest
  <2>3. CASE Deletable(o) /\ Destroy({o}) /\ Continue(c, r)
    <3>1. o \in Obj /\ entry[o].refs <= 0 BY <2>3, FoundObject DEF Deletable
    <3> HIDE DEF o
    <3>2. ObjOK(entry, ptr, uses, forgotten) BY DEF HvInv
    <3>3. entry[o].refs \in Nat BY <3>1, <3>2, Unreferenced
    <3>4. {o} \in SUBSET Obj /\ \A x \in {o} : entry[x].refs = 0 BY <3>1, <3>3
    <3> QED BY <1>1, <1>2, <2>3, <3>4, MovedDestroy
  <2>4. CASE (Continue(c, s.absent) \/ Continue(c, s.inUse)) /\ UNCHANGED objects
    BY <1>1, <1>3, <2>1, <2>4, MovedQuiet
  <2> QED BY <2>2, <2>3, <2>4
<1> QED BY <1>4, <1>5

\* registry_rename: alone, so that no other handler holds the object.
LEMMA HvRename ==
  ASSUME HypervisorAssumption, HvInv, NEW c \in Conn, NEW k, Tracks(c, k), Allowed(prog[c], k),
         RenameObject(c)
  PROVE  HvInv'
<1> DEFINE s == Head(prog[c])
           r == Tail(prog[c])
           o == Found(s.type, args[c][1])
           nm == args[c][2]
           b == ptr[c][1]
<1>1. /\ prog[c] # << >> /\ s.op = "rename"
      /\ UNCHANGED <<scope, uses, forgotten, args, ptr, renamer>>
  BY DEF RenameObject, At, connections, server_side
<1>2. k.one = s.type /\ s.type \in ObjType /\ k.key = 1 /\ k.two = "none" /\ k.alone = TRUE
  BY <1>1 DEF Allowed
<1>3. <<s.other, k>> \in After(prog[c], k) /\ <<r, Renamed(k)>> \in After(prog[c], k)
  BY <1>1 DEF After
<1>4. CASE Continue(c, s.other) /\ UNCHANGED entry
  BY <1>1, <1>3, <1>4, MovedQuiet DEF objects
<1>5. CASE /\ o # NoObj /\ Found(s.type, nm) = NoObj
           /\ entry' = [entry EXCEPT ![o].name = nm] /\ Continue(c, r)
  <2>1. o \in Obj /\ entry[o].type = s.type /\ entry[o].name = args[c][1]
    BY <1>5, FoundObject
  <2>2. ~ Taken(entry, s.type, nm) BY <1>5, FoundObject DEF Taken
  <2>3. s.type # "none" BY <1>2 DEF ObjType
  <2>k. HeldBy(entry, ptr[c], args[c], k) BY DEF Tracks
  <2>4. b \in Obj /\ b # NoObj /\ entry[b].type = s.type /\ entry[b].name = args[c][1]
    <3>1. 1 \in 1 .. 2 /\ Of(k, 1) = s.type /\ Key(k, 1) = 1 BY <1>2 DEF Of, Key
    <3>2. b # NoObj /\ entry[b].type = s.type /\ entry[b].name = args[c][1]
      BY <2>3, <2>k, <3>1 DEF HeldBy
    <3> QED BY <3>1, <3>2, PointerType
  <2>5. ptr[c][2] = NoObj
    <3>1. 2 \in 1 .. 2 /\ Of(k, 2) = "none" BY <1>2 DEF Of
    <3> QED BY <2>k, <3>1 DEF HeldBy
  <2> HIDE DEF o, b, nm, s, r
  <2>o. ObjOK(entry, ptr, uses, forgotten) BY DEF HvInv
  <2>6. b = o BY <2>1, <2>3, <2>4, <2>o DEF ObjOK
  <2>7. /\ ObjOK(entry', ptr, uses, forgotten)
        /\ \A x \in Obj : entry'[x].type = entry[x].type
                          /\ entry'[x].name = IF x = o THEN nm ELSE entry[x].name
    <3>1. NameSet(entry, entry', o, nm) BY <1>5, <2>1, <2>2, <2>3 DEF NameSet
    <3> QED BY <2>1, <2>o, <3>1, ObjRename
  <2>8. ASSUME NEW d \in Conn \ {c}, NEW n \in 1 .. 2, ptr[d][n] # NoObj PROVE FALSE
    <3>1. PICK kd : Tracks(d, kd) BY DEF HvInv
    <3>2. renamer = c BY <1>1, <1>2 DEF Tracks
    <3>3. prog[d] = << >> BY <3>2 DEF HvInv
    <3>4. Allowed(prog[d], kd) BY <3>1, GoodStep DEF Tracks
    <3>5. Of(kd, n) = "none" BY <3>3, <3>4 DEF Allowed, Of
    <3> QED BY <2>8, <3>1, <3>5 DEF Tracks, HeldBy
  <2>9. HeldBy(entry', ptr'[c], args[c], Renamed(k))
    <3>1. ptr'[c][1] = o /\ ptr'[c][2] = NoObj /\ o # NoObj BY <1>1, <2>4, <2>5, <2>6 DEF b
    <3>2. Of(Renamed(k), 1) = k.one /\ Of(Renamed(k), 2) = "none" /\ Key(Renamed(k), 1) = 2
      BY <1>2 DEF Renamed, K, Of, Key
    <3>3. entry'[o].type = k.one /\ entry'[o].name = args[c][2] BY <1>2, <2>1, <2>7 DEF nm
    <3>4. k.one # "none" BY <1>2, <2>3
    <3> SUFFICES ASSUME NEW n \in 1 .. 2
                 PROVE  /\ ptr'[c][n] = NoObj <=> Of(Renamed(k), n) = "none"
                        /\ ptr'[c][n] # NoObj =>
                             /\ entry'[ptr'[c][n]].type = Of(Renamed(k), n)
                             /\ entry'[ptr'[c][n]].name = args[c][Key(Renamed(k), n)]
      BY DEF HeldBy
    <3>5. CASE n = 1 BY <3>1, <3>2, <3>3, <3>4, <3>5
    <3>6. CASE n = 2 BY <3>1, <3>2, <3>6
    <3> QED BY <3>5, <3>6
  <2>a. Renamed(k).alone = k.alone BY DEF Renamed, K
  <2>b. ObjOK(entry', ptr', uses', forgotten') BY <1>1, <2>7
  <2>c. \A d \in Conn \ {c} : \A n \in 1 .. 2 :
          ptr'[d][n] = ptr[d][n] /\ (ptr[d][n] # NoObj => Keeps(entry, entry', ptr[d][n]))
    BY <1>1, <2>8
  <2>d. UNCHANGED scope /\ UNCHANGED <<args, renamer>> /\ prog[c] # << >> BY <1>1
  <2>e. <<r, Renamed(k)>> \in After(prog[c], k) /\ Continue(c, r) BY <1>3, <1>5
  <2> QED BY <2>9, <2>a, <2>b, <2>c, <2>d, <2>e, Moved
<1> QED BY <1>4, <1>5 DEF RenameObject, Rest

\* The steps that look at the objects only, and answers.
LEMMA HvQuiet ==
  ASSUME HypervisorAssumption, HvInv, NEW c \in Conn, NEW k, Tracks(c, k), Allowed(prog[c], k),
         \/ NameExists(c) \/ AttemptStep(c) \/ WalkType(c) \/ Silent(c) \/ Reply(c)
         \/ CloseCommand(c) \/ StopCommand(c)
  PROVE  HvInv'
<1> DEFINE s == Head(prog[c])
           r == Tail(prog[c])
<1>1. prog[c] # << >> /\ UNCHANGED <<scope, objects, ptr>>
 
    BY DEF NameExists, AttemptStep, WalkType, Silent, Reply, CloseCommand, StopCommand, At, Looks,
         connections, server_side, objects
<1>2. CASE NameExists(c) \/ AttemptStep(c)
  <2>1. s.op \in {"exists", "attempt"} /\ UNCHANGED <<args, renamer>>
        /\ (Continue(c, s.other) \/ Continue(c, r))
    BY <1>2 DEF NameExists, AttemptStep, At, Looks, Rest
  <2>2. <<s.other, k>> \in After(prog[c], k) /\ <<r, k>> \in After(prog[c], k)
    BY <1>1, <2>1 DEF After
  <2> QED BY <1>1, <2>1, <2>2, MovedQuiet
<1>3. CASE WalkType(c) \/ CloseCommand(c) \/ StopCommand(c)
  <2>1. s.op \in {"walk", "deactivate", "halt"} /\ (UNCHANGED <<args, renamer>> \/ Over(c))
        /\ Continue(c, r)
    BY <1>3 DEF WalkType, CloseCommand, StopCommand, At, Looks, Rest
  <2>2. <<r, k>> \in After(prog[c], k) BY <1>1, <2>1 DEF After
  <2> QED BY <1>1, <2>1, <2>2, MovedQuiet
<1>4. CASE Silent(c) \/ Reply(c)
  <2>1. PICK a : <<r, Answered(k, a)>> \in After(prog[c], k)
    <3>1. s.op \in {"silence", "reply"} BY <1>4 DEF Silent, Reply, At
    <3> QED BY <1>1, <3>1 DEF After
  <2>2. Over(c) /\ Continue(c, r) BY <1>4 DEF Silent, Reply, Rest
  <2>3. Answered(k, a).alone = k.alone
        /\ \A n \in 1 .. 2 : Of(Answered(k, a), n) = Of(k, n) /\ Key(Answered(k, a), n) = Key(k, n)
    BY DEF Answered, K, Of, Key
  <2> HIDE DEF s, r
  <2> QED BY <1>1, <2>1, <2>2, <2>3, MovedQuiet
<1> QED BY <1>2, <1>3, <1>4

\* The next line: a renaming command only when no other command is executed.
LEMMA HvRead ==
  ASSUME HypervisorAssumption, RenameAlone = TRUE, HvInv,
         NEW c \in Conn, NEW p \in Lines, NEW a, Read(c, p, a)
  PROVE  HvInv'
<1> DEFINE k == Start(Renames(p))
<1>1. /\ prog[c] = << >> /\ renamer = NoConn /\ (Renames(p) => \A d \in Conn : prog[d] = << >>)
      /\ prog' = [prog EXCEPT ![c] = p] /\ args' = [args EXCEPT ![c] = a]
      /\ renamer' = IF Renames(p) THEN c ELSE renamer
      /\ UNCHANGED <<scope, entry, uses, forgotten, ptr>>
  BY DEF Read, Continue, connections, server_side, objects
<1>2. Good(p, k) BY LinesSafe DEF Safe, HvInv
<1>3. /\ \A n \in 1 .. 2 : Of(k, n) = "none"
      /\ k.alone = Renames(p)
  BY DEF Start, K, Of
<1> HIDE DEF k
<1>4. prog'[c] = p /\ \A d \in Conn \ {c} : prog'[d] = prog[d] /\ args'[d] = args[d]
  BY <1>1 DEF HvInv
<1>5. \A n \in 1 .. 2 : ptr[c][n] = NoObj
  <2>1. PICK k0 : Tracks(c, k0) BY DEF HvInv
  <2>2. Allowed(prog[c], k0) BY <2>1, GoodStep DEF Tracks
  <2>3. \A n \in 1 .. 2 : Of(k0, n) = "none" BY <1>1, <2>2 DEF Allowed, Of
  <2> QED BY <2>1, <2>3 DEF Tracks, HeldBy
<1>6. Tracks(c, k)'
  <2>1. HeldBy(entry', ptr'[c], args'[c], k) BY <1>1, <1>3, <1>5 DEF HeldBy
  <2>2. k.alone = TRUE => renamer' = c BY <1>1, <1>3
  <2> QED BY <1>2, <1>4, <2>1, <2>2 DEF Tracks
<1>7. ASSUME NEW d \in Conn \ {c} PROVE \E kd : Tracks(d, kd)'
  <2>1. PICK kd : Tracks(d, kd) BY DEF HvInv
  <2>2. HeldBy(entry', ptr'[d], args'[d], kd) BY <1>1, <1>4, <2>1 DEF Tracks
  <2>3. ~ (prog[d] # << >> /\ kd.alone = TRUE)
    BY <1>1, <2>1 DEF Tracks, HypervisorAssumption
  <2>4. Tracks(d, kd)' BY <1>4, <2>1, <2>2, <2>3 DEF Tracks
  <2> QED BY <2>4
<1>8. \A d, x \in Conn : renamer' = d /\ prog'[x] # << >> => x = d
  BY <1>1, <1>4 DEF HypervisorAssumption
<1>9. /\ prog' = [d \in Conn |-> prog'[d]] /\ args' = [d \in Conn |-> args'[d]]
      /\ renamer' \in Conn \cup {NoConn} /\ scope' \in Scopes
  BY <1>1 DEF HvInv
<1>a. ObjOK(entry', ptr', uses', forgotten') BY <1>1 DEF HvInv
<1>b. \A d \in Conn : \E kd : Tracks(d, kd)' BY <1>6, <1>7
<1> QED BY <1>8, <1>9, <1>a, <1>b DEF HvInv

\* There is no object and no command at first.
LEMMA HvInit == ASSUME HypervisorAssumption, Init PROVE HvInv
<1>1. ObjOK(entry, ptr, uses, forgotten)
  <2>1. entry \in [Obj -> [type : {"none"}, name : {Free.name}, platform : {Free.platform}, refs : Int]]
    BY DEF Init, Free
  <2>2. ptr \in Ptrs /\ uses \in Table /\ forgotten \in [Obj -> Nat]
    BY DEF Init, Ptrs, Table, NoObj, HypervisorAssumption
  <2>3. ASSUME NEW o \in Obj PROVE Counted(entry[o].refs, ptr, uses, forgotten, o)
    <3>1. HoldersIn(ptr, o) = {} BY DEF HoldersIn, Init, NoObj, Obj
    <3>2. BindingsIn(uses, Obj, o) = {} BY DEF BindingsIn, Init, HypervisorAssumption
    <3>3. entry[o].refs = 0 /\ forgotten[o] = 0 BY DEF Init, Free
    <3> QED BY <3>1, <3>2, <3>3, FS_EmptySet DEF Counted
  <2>4. \A o \in Obj : entry[o].type = "none" /\ entry[o].refs = 0 /\ \A x \in Obj : uses[o][x] = 0
    BY DEF Init, Free
  <2>5. EntryTyped(entry) BY <2>1 DEF EntryTyped
  <2> QED BY <2>2, <2>3, <2>4, <2>5 DEF ObjOK
<1>2. \A c \in Conn : \E k : Tracks(c, k)
  <2> DEFINE k == K("none", "none", 1, "one", FALSE)
  <2>1. k.ans = "one" /\ k.one = "none" /\ k.two = "none" /\ \A n \in 1 .. 2 : Of(k, n) = "none"
    BY DEF K, Of
  <2> HIDE DEF k
  <2>2. Good(<< >>, k) BY <2>1, GoodEnd
  <2>3. ASSUME NEW c \in Conn PROVE Tracks(c, k)
    <3>1. prog[c] = << >> /\ \A n \in 1 .. 2 : ptr[c][n] = NoObj BY DEF Init
    <3> QED BY <2>1, <2>2, <3>1 DEF Tracks, HeldBy
  <2> QED BY <2>3
<1> QED BY <1>1, <1>2 DEF Init, HvInv, HypervisorAssumption

\* Every step, when renaming commands are executed alone.
LEMMA HvStep ==
  ASSUME HypervisorAssumption, RenameAlone = TRUE, HvInv, [Next]_vars
  PROVE  HvInv'
<1>1. CASE UNCHANGED <<scope, entry, uses, forgotten, prog, args, ptr, renamer>>
  BY <1>1 DEF HvInv, Tracks
<1>2. ASSUME NEW c \in Conn, Step(c) PROVE HvInv'
  <2>1. PICK k : Tracks(c, k) BY DEF HvInv
  <2>2. Allowed(prog[c], k) BY <2>1, GoodStep DEF Tracks
  <2>3. CASE FindObject(c) BY <2>1, <2>2, <2>3, HvFind
  <2>4. CASE Register(c) BY <2>1, <2>2, <2>4, HvRegister
  <2>5. CASE Unreference(c) \/ UnreferenceOwn(c) BY <2>1, <2>2, <2>5, HvUnreference
  <2>6. CASE BindNios(c) \/ UnbindNios(c) \/ UnbindEverything(c) BY <2>1, <2>2, <2>6, HvBind
  <2>7. CASE ConfigureBridge(c) BY <2>1, <2>2, <2>7, HvConfigure
  <2>8. CASE RenameObject(c) BY <2>1, <2>2, <2>8, HvRename
  <2>9. CASE DeleteObject(c) \/ DeleteAll(c) BY <2>1, <2>2, <2>9, HvDelete
  <2>a. CASE ForgetPointer(c) BY <2>1, <2>2, <2>a, HvForget
  <2>b. CASE \/ NameExists(c) \/ AttemptStep(c) \/ WalkType(c) \/ Silent(c) \/ Reply(c)
             \/ CloseCommand(c) \/ StopCommand(c)
    BY <2>1, <2>2, <2>b, HvQuiet
  <2>c. CASE LoopTop(c) \/ EndOfFile(c)
    BY <1>1, <2>c DEF LoopTop, EndOfFile, server_side, objects
  <2> QED BY <1>2, <2>3, <2>4, <2>5, <2>6, <2>7, <2>8, <2>9, <2>a, <2>b, <2>c DEF Step
<1>3. ASSUME NEW c \in Conn, Accept(c) \/ Disconnect(c) \/ CloseConn(c) \/ FreeConn(c) PROVE HvInv'
  BY <1>1, <1>3 DEF Accept, Disconnect, CloseConn, FreeConn, objects
<1>4. CASE StopSignal \/ LeaveLoop \/ ServerReturns
  BY <1>1, <1>4 DEF StopSignal, LeaveLoop, ServerReturns, objects
<1>5. CASE UNCHANGED vars BY <1>1, <1>5 DEF vars
<1>6. ASSUME NEW c \in Conn, NEW p \in Lines, NEW a, Read(c, p, a) PROVE HvInv'
  BY <1>6, HvRead
<1> QED BY <1>2, <1>3, <1>4, <1>5, <1>6 DEF Next, ServerStep

\* The invariant of the objects.
LEMMA HvAlways == RenameAlone = TRUE => (Spec => []HvInv)
<1> SUFFICES ASSUME RenameAlone = TRUE PROVE Spec => []HvInv OBVIOUS
<1>1. Init => HvInv BY HypervisorAssumption, HvInit
<1>2. HvInv /\ [Next]_vars => HvInv' BY HypervisorAssumption, HvStep
<1> QED BY <1>1, <1>2, PTL DEF Spec

(* An object a handler works on, and an NIO that a bridge, a switch or a VM   *)
(* has acquired, stays registered: registry_delete_if_unused and              *)
(* registry_delete_type find it referenced, when a renaming command is        *)
(* executed alone.                                                            *)
THEOREM HypervisorPointersLive == RenameAlone = TRUE => (Spec => []PointersLive)
<1>1. HvInv => PointersLive
  <2> SUFFICES ASSUME HvInv PROVE PointersLive OBVIOUS
  <2>1. ObjOK(entry, ptr, uses, forgotten) BY DEF HvInv
  <2>2. \A c \in Conn, n \in 1 .. 2 : ptr[c][n] # NoObj => Live(ptr[c][n])
    BY HypervisorAssumption, PointerType DEF Live
  <2>3. ASSUME NEW s \in Obj, NEW o \in Obj, uses[s][o] > 0 PROVE Live(s) /\ Live(o)
    <3>1. uses[s][o] # 0 BY <2>3
    <3> QED BY <2>1, <3>1, HypervisorAssumption, Registered DEF Live
  <2> QED BY <2>2, <2>3 DEF PointersLive
<1> QED BY <1>1, HvAlways, PTL

(* Every path of every handler gives up what it took: the count of an object  *)
(* is the number of handlers that work on it and of bindings to it, and of    *)
(* the references that the four leaking paths forget, when a renaming command *)
(* is executed alone.                                                         *)
THEOREM HypervisorReferencesBalanced == RenameAlone = TRUE => (Spec => []ReferencesBalanced)
<1>1. HvInv => ReferencesBalanced
  <2> SUFFICES ASSUME HvInv PROVE ReferencesBalanced OBVIOUS
  <2>1. ASSUME NEW o \in Obj
        PROVE  entry[o].refs = Cardinality(Holders(o)) + Cardinality(Bindings(Obj, o)) + forgotten[o]
    <3>1. Counted(entry[o].refs, ptr, uses, forgotten, o) BY DEF HvInv, ObjOK
    <3> QED BY <3>1 DEF Counted, HoldersIn, BindingsIn, Holders, Bindings
  <2>2. ASSUME NEW c \in Conn, prog[c] = << >>, NEW n \in 1 .. 2 PROVE ptr[c][n] = NoObj
    <3>1. PICK k : Tracks(c, k) BY DEF HvInv
    <3>2. Allowed(prog[c], k) BY <3>1, GoodStep DEF Tracks
    <3>3. Of(k, n) = "none" BY <2>2, <3>2 DEF Allowed, Of
    <3> QED BY <3>1, <3>3 DEF Tracks, HeldBy
  <2> QED BY <2>1, <2>2 DEF ReferencesBalanced
<1> QED BY <1>1, HvAlways, PTL
=============================================================================
