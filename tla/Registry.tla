------------------------------ MODULE Registry ------------------------------
(***************************************************************************)
(* The object registry (common/registry.cppm).  Every VM, NIO, bridge and  *)
(* switch of the process is entered here under (type, name) with a         *)
(* reference count.                                                        *)
(*                                                                         *)
(* All operations run under one recursive mutex.  Most are a single        *)
(* critical section, hence one action.  Two of them call back into the     *)
(* program while the mutex is held: run_action (a destructor) and visit    *)
(* (a walk over a snapshot of one type).  The callback runs in the thread  *)
(* that owns the mutex and may call the registry again, so `frames' is the *)
(* stack of the registry calls that thread is inside; it is empty exactly  *)
(* when the mutex is free.                                                 *)
(*                                                                         *)
(* A node stands for the registry's metadata and for the object it points  *)
(* to.  A call that fails leaves the registry as it was and is a           *)
(* stuttering step.                                                        *)
(***************************************************************************)
EXTENDS Integers, Sequences, FiniteSets, TLC

CONSTANTS
  Name,       \* names an object can be registered under
  Type,       \* object types, OBJ_TYPE_*
  Node,       \* registry nodes; a node is reused once nothing points to it
  Handle,     \* counted pointers a client got from add or registry_find
  Reference,  \* scoped `reference' values got from retain
  NoNode,     \* the null node
  IntMax,     \* INT_MAX, the largest reference count
  MaxDepth    \* bound on the nesting of callbacks

ASSUME RegistryAssumption ==
  /\ IntMax \in Nat \ {0}
  /\ MaxDepth \in Nat
  /\ NoNode \notin Node
  /\ Handle \cap Reference = {}
  /\ IsFiniteSet(Handle \cup Reference)

Token == Handle \cup Reference

VARIABLES
  initialized,  \* state::initialized
  names,        \* bucket::names, the index of every type
  newest,       \* bucket::newest, most recently added or renamed first
  linked,       \* nodes with node::linked, those the index holds
  key,          \* node |-> its type and its current name
  ref_count,    \* node |-> entry.ref_count
  acting,       \* nodes with node::acting
  frames,       \* calls the owner of the mutex is inside, innermost first
  hold          \* client pointer |-> the node it keeps alive

registryVars == <<initialized, names, newest, linked, key, ref_count, acting, frames,
          hold>>

Frame == [kind : {"action", "visit"}, node : Node \cup {NoNode},
          remove : BOOLEAN, todo : Seq(Node)]

RegistryTypes ==
  /\ initialized \in BOOLEAN
  /\ names \in [Type -> [Name -> Node \cup {NoNode}]]
  /\ newest \in [Type -> Seq(Node)]
  /\ linked \in SUBSET Node
  /\ key \in [Node -> [type : Type, name : Name]]
  /\ ref_count \in [Node -> 0 .. IntMax]
  /\ acting \in SUBSET Node
  /\ frames \in Seq(Frame)
  /\ hold \in [Token -> Node \cup {NoNode}]

-----------------------------------------------------------------------------
\* The node registered under a key (state::find).
Find(t, n) == names[t][n]

\* Elements of a snapshot are kept alive by its shared_ptrs.
InSnapshot(x) == \E i \in DOMAIN frames : \E j \in DOMAIN frames[i].todo :
                    frames[i].todo[j] = x

\* Nothing points to x any more: its storage can be used again.
Unused(x) == /\ x \notin linked
             /\ \A k \in Token : hold[k] # x
             /\ ~InSnapshot(x)

\* list::erase of the iterator a node keeps of its place in the order.
Without(s, x) ==
  LET i == CHOOSE j \in DOMAIN s : s[j] = x
  IN  SubSeq(s, 1, i - 1) \o SubSeq(s, i + 1, Len(s))

\* state::remove: unlink x from the index and from the order of its type.
Remove(x) ==
  /\ linked' = linked \ {x}
  /\ names' = [names EXCEPT ![key[x].type][key[x].name] = NoNode]
  /\ newest' = [newest EXCEPT ![key[x].type] = Without(@, x)]

Push(f) == /\ Len(frames) < MaxDepth
           /\ frames' = <<f>> \o frames

-----------------------------------------------------------------------------
RegistryInit ==
  /\ initialized = FALSE
  /\ names = [t \in Type |-> [n \in Name |-> NoNode]]
  /\ newest = [t \in Type |-> << >>]
  /\ linked = {}
  /\ key \in [Node -> [type : Type, name : Name]]
  /\ ref_count = [x \in Node |-> 0]
  /\ acting = {}
  /\ frames = << >>
  /\ hold = [k \in Token |-> NoNode]

Initialize ==
  /\ ~initialized
  /\ initialized' = TRUE
  /\ UNCHANGED <<names, newest, linked, key, ref_count, acting, frames, hold>>

\* add: the creator's pointer k is the object's first reference.
Add(k, x, t, n) ==
  /\ initialized
  /\ hold[k] = NoNode
  /\ Unused(x)
  /\ Find(t, n) = NoNode
  /\ names' = [names EXCEPT ![t][n] = x]
  /\ newest' = [newest EXCEPT ![t] = <<x>> \o @]
  /\ linked' = linked \cup {x}
  /\ key' = [key EXCEPT ![x] = [type |-> t, name |-> n]]
  /\ ref_count' = [ref_count EXCEPT ![x] = 1]
  /\ hold' = [hold EXCEPT ![k] = x]
  /\ UNCHANGED <<initialized, acting, frames>>

\* Mutant: the old name is left in the index.
RenameKeepsOldName(t, n, m) ==
  LET x == Find(t, n) IN
  /\ initialized
  /\ x # NoNode
  /\ x \notin acting
  /\ Find(t, m) = NoNode
  /\ names' = [names EXCEPT ![t][m] = x]
  /\ key' = [key EXCEPT ![x].name = m]
  /\ newest' = [newest EXCEPT ![t] = <<x>> \o Without(@, x)]
  /\ UNCHANGED <<initialized, linked, ref_count, acting, frames, hold>>

\* rename: refused while a destructor runs and when the new name is taken.
Rename(t, n, m) ==
  LET x == Find(t, n) IN
  /\ initialized
  /\ x # NoNode
  /\ x \notin acting
  /\ Find(t, m) = NoNode
  /\ names' = [names EXCEPT ![t] = [@ EXCEPT ![n] = NoNode, ![m] = x]]
  /\ key' = [key EXCEPT ![x].name = m]
  /\ newest' = [newest EXCEPT ![t] = <<x>> \o Without(@, x)]
  /\ UNCHANGED <<initialized, linked, ref_count, acting, frames, hold>>

(***************************************************************************)
(* acquire (registry_find) gives a Handle, retain a scoped Reference; both *)
(* refuse at INT_MAX.  Neither looks at node::acting: that nobody takes a  *)
(* reference to an object while its callback runs is up to the callbacks,  *)
(* none of which looks its own object up (ClientsBehave).                  *)
(***************************************************************************)
Take(k, t, n) ==
  LET x == Find(t, n) IN
  /\ initialized
  /\ hold[k] = NoNode
  /\ x # NoNode
  /\ ref_count[x] # IntMax
  /\ ref_count' = [ref_count EXCEPT ![x] = @ + 1]
  /\ hold' = [hold EXCEPT ![k] = x]
  /\ UNCHANGED <<initialized, names, newest, linked, key, acting, frames>>

ClientsBehave(t, n) == Find(t, n) \notin acting

Acquire(h, t, n) == h \in Handle /\ ClientsBehave(t, n) /\ Take(h, t, n)

Retain(r, t, n) == r \in Reference /\ ClientsBehave(t, n) /\ Take(r, t, n)

\* release (registry_unref): by the current name of the object k points to.
Release(k) ==
  LET x == hold[k] IN
  /\ x # NoNode
  /\ Find(key[x].type, key[x].name) = x
  /\ ref_count' = [ref_count EXCEPT ![x] = @ - 1]
  /\ hold' = [hold EXCEPT ![k] = NoNode]
  /\ UNCHANGED <<initialized, names, newest, linked, key, acting, frames>>

\* reference::reset: decrements the node it points to, if still linked.
Reset(r) ==
  LET x == hold[r] IN
  /\ x # NoNode
  /\ ref_count' = IF x \in linked THEN [ref_count EXCEPT ![x] = @ - 1]
                                  ELSE ref_count
  /\ hold' = [hold EXCEPT ![r] = NoNode]
  /\ UNCHANGED <<initialized, names, newest, linked, key, acting, frames>>

\* Mutant: erase does not look at node::acting.
EraseWhileActing(k) ==
  LET x == hold[k] IN
  /\ x # NoNode
  /\ Find(key[x].type, key[x].name) = x
  /\ ref_count' = [ref_count EXCEPT ![x] = @ - 1]
  /\ hold' = [hold EXCEPT ![k] = NoNode]
  /\ IF ref_count'[x] <= 0
       THEN Remove(x)
       ELSE UNCHANGED <<linked, names, newest>>
  /\ UNCHANGED <<initialized, key, acting, frames>>

\* erase (registry_delete): gives k's reference up and unlinks at zero.
Erase(k) ==
  LET x == hold[k] IN
  /\ x # NoNode
  /\ Find(key[x].type, key[x].name) = x
  /\ x \notin acting
  /\ ref_count' = [ref_count EXCEPT ![x] = @ - 1]
  /\ hold' = [hold EXCEPT ![k] = NoNode]
  /\ IF ref_count'[x] <= 0
       THEN Remove(x)
       ELSE UNCHANGED <<linked, names, newest>>
  /\ UNCHANGED <<initialized, key, acting, frames>>

-----------------------------------------------------------------------------
\* run_action up to the call of the callback.
BeginAction(x, maximum, remove) ==
  /\ x \notin acting
  /\ ref_count[x] <= maximum
  /\ acting' = acting \cup {x}
  /\ Push([kind |-> "action", node |-> x, remove |-> remove, todo |-> << >>])
  /\ UNCHANGED <<initialized, names, newest, linked, key, ref_count, hold>>

\* execute: every caller that removes asks for no reference at all
\* (registry_delete_if_unused).
Execute(t, n, maximum, remove) ==
  /\ initialized
  /\ Find(t, n) # NoNode
  /\ remove => maximum = 0
  /\ BeginAction(Find(t, n), maximum, remove)

\* The callback returned: an accepted removal unlinks the node, and
\* action_scope clears node::acting.
EndAction(accepted) ==
  LET f == Head(frames) IN
  /\ frames # << >>
  /\ f.kind = "action"
  /\ acting' = acting \ {f.node}
  /\ frames' = Tail(frames)
  /\ IF f.remove /\ accepted THEN Remove(f.node)
                             ELSE UNCHANGED <<linked, names, newest>>
  /\ UNCHANGED <<initialized, key, ref_count, hold>>

\* for_each and erase_type: snapshot the type, newest first.
BeginVisit(t, remove) ==
  /\ initialized
  /\ newest[t] # << >>
  /\ Push([kind |-> "visit", node |-> NoNode, remove |-> remove,
           todo |-> newest[t]])
  /\ UNCHANGED <<initialized, names, newest, linked, key, ref_count, acting,
                 hold>>

Visiting == frames # << >> /\ Head(frames).kind = "visit"

\* The rest of the snapshot after its first element.
Advance == [frames EXCEPT ![1].todo = Tail(@)]

\* Mutant: erase_type forgets the reference count.
ErasableReferenced(x) == x \in linked /\ x \notin acting

\* Does erase_type run its destructor on x?
Erasable(x) == x \in linked /\ ref_count[x] = 0 /\ x \notin acting

\* The next element: erase_type enters the destructor of an unreferenced
\* one; everything else is passed over, or seen by a callback whose calls
\* are the registry actions taken before the next VisitNext.
VisitNext ==
  LET f == Head(frames)
      x == Head(f.todo) IN
  /\ Visiting
  /\ f.todo # << >>
  /\ IF f.remove /\ Erasable(x)
       THEN /\ acting' = acting \cup {x}
            /\ Len(frames) < MaxDepth
            /\ frames' = <<[kind |-> "action", node |-> x, remove |-> TRUE,
                            todo |-> << >>]>> \o Advance
       ELSE /\ frames' = Advance
            /\ UNCHANGED acting
  /\ UNCHANGED <<initialized, names, newest, linked, key, ref_count, hold>>

EndVisit ==
  /\ Visiting
  /\ Head(frames).todo = << >>
  /\ frames' = Tail(frames)
  /\ UNCHANGED <<initialized, names, newest, linked, key, ref_count, acting,
                 hold>>

RegistryNext ==
  \/ Initialize
  \/ \E k \in Handle, x \in Node, t \in Type, n \in Name : Add(k, x, t, n)
  \/ \E t \in Type, n, m \in Name : Rename(t, n, m)
  \/ \E h \in Handle, t \in Type, n \in Name : Acquire(h, t, n)
  \/ \E r \in Reference, t \in Type, n \in Name : Retain(r, t, n)
  \/ \E k \in Handle : Release(k) \/ Erase(k)
  \/ \E r \in Reference : Reset(r)
  \/ \E t \in Type, n \in Name, remove \in BOOLEAN, maximum \in 0 .. 1 :
        Execute(t, n, maximum, remove)
  \/ \E accepted \in BOOLEAN : EndAction(accepted)
  \/ \E t \in Type, remove \in BOOLEAN : BeginVisit(t, remove)
  \/ VisitNext
  \/ EndVisit

RegistrySpec == RegistryInit /\ [][RegistryNext]_registryVars

-----------------------------------------------------------------------------
\* The index and the nodes describe the same objects: a key finds the node
\* that carries it, and every linked node is found under its own key, across
\* renames and removals made from inside callbacks (add, rename and
\* state::remove in registry.cppm keep the two in step by hand).
IndexConsistent ==
  /\ \A t \in Type, n \in Name : Find(t, n) # NoNode =>
        /\ Find(t, n) \in linked
        /\ key[Find(t, n)] = [type |-> t, name |-> n]
  /\ \A x \in linked : Find(key[x].type, key[x].name) = x

\* The order of a type holds exactly its linked nodes, each of them once, so
\* that the iterator a node keeps (node::ordered) is valid when state::remove
\* or rename erases through it.
OrderConsistent ==
  \A t \in Type :
    /\ {newest[t][i] : i \in DOMAIN newest[t]} =
          {x \in linked : key[x].type = t}
    /\ \A i, j \in DOMAIN newest[t] : newest[t][i] = newest[t][j] => i = j

\* The reference count of a registered object is the number of pointers
\* clients hold, over any mix of registry_find, retain, registry_unref,
\* reset, rename and registry_delete.
Holders(x) == {k \in Token : hold[k] = x}
RefsCounted == \A x \in linked : ref_count[x] = Cardinality(Holders(x))

\* No client pointer outlives its object: whatever a destructor or a removal
\* takes out of the registry, nobody still holds.
NoDangling == \A k \in Token : hold[k] # NoNode => hold[k] \in linked

\* While a destructor passed to registry_delete_if_unused or erase_type runs,
\* the object it destroys stays unreferenced.
DestroyIdle ==
  \A i \in DOMAIN frames :
    (frames[i].kind = "action" /\ frames[i].remove) =>
       ref_count[frames[i].node] = 0

\* The node a pending callback of run_action was called with is still linked
\* and marked acting when the callback returns, and no two pending callbacks
\* run on one node: run_action never unlinks a node twice.
FramesSafe ==
  /\ \A i \in DOMAIN frames : frames[i].kind = "action" =>
        frames[i].node \in linked \cap acting
  /\ \A i, j \in DOMAIN frames :
        (/\ frames[i].kind = "action" /\ frames[j].kind = "action"
         /\ frames[i].node = frames[j].node) => i = j
  /\ \A x \in acting : \E i \in DOMAIN frames :
        frames[i].kind = "action" /\ frames[i].node = x
\* The lookup structures agree: the index and the order of each type, kept in
\* step by hand in add, rename and state::remove, also inside callbacks.
Indexed == IndexConsistent /\ OrderConsistent

\* References are safe: an object lives as long as somebody holds it, and its
\* count (acquire, retain, release, reset) says how many do.
RefsSafe == RefsCounted /\ NoDangling

\* Destructors are safe, however calls nest (run_action, erase_type): the
\* object of a pending destructor is registered, unused and nobody else's.
CallbacksSafe == DestroyIdle /\ FramesSafe
-----------------------------------------------------------------------------
(* For model checking: names, nodes, handles and references are            *)
(* interchangeable.                                                        *)
Symmetry == Permutations(Name) \cup Permutations(Node)
              \cup Permutations(Handle) \cup Permutations(Reference)
=============================================================================
