--------------------------- MODULE ServicesProofs ---------------------------
(***************************************************************************)
(* Proofs about Services: timers and terminals keep the three invariants   *)
(* that TLC checks of them, and no refused timer calls back, for any       *)
(* callers, terminals and connections, and for all bounds.                 *)
(*                                                                         *)
(* TimerInv and ConsoleInv are inductive.  A step of one service leaves    *)
(* the other one alone.                                                    *)
(***************************************************************************)
EXTENDS Services, FiniteSetTheorems, SequenceTheorems, TLAPS

-----------------------------------------------------------------------------
(* Timers.                                                                 *)

TWait == [id : T!Ids, cycle : Nat]
TTask == [client : TimerCaller \cup {NoCaller}, op : T!Ops, id : Nat, cycle : Nat]
Handler == [kind : {"task"}, body : TTask] \cup [kind : {"wait"}, body : TWait]

\* What was issued is registered or cancelled; an idle scheduler has nothing.
EntriesInv ==
  /\ next_id \in 0..MaxId
  /\ entries \cap cancelled = {} /\ entries \cup cancelled = T!Issued
  /\ cycles \in [T!Ids -> Nat]
  /\ ~t_started => entries = {} /\ worker = "none"

\* The wait of the present cycle of a timer, and where it may be.
Cur(i) == [id |-> i, cycle |-> cycles[i]]
QueuedAt(k, w) == k \in DOMAIN queue /\ queue[k].kind = "wait" /\ queue[k].body = w
Queued(w) == \E k \in DOMAIN queue : QueuedAt(k, w)
Calls(w) == worker = "callback" /\ t_active = w

\* No wait is of a cycle to come.
Known(w) == w \in TWait /\ w.id \in T!Issued /\ w.cycle <= cycles[w.id]
WaitsInv ==
  /\ queue \in Seq(Handler)
  /\ \A w \in t_pending : Known(w)
  /\ \A k \in DOMAIN queue : queue[k].kind = "wait" => Known(queue[k].body)
  /\ worker = "callback" => Known(t_active)

\* The wait of a registered timer is in one place.
Once(w) ==
  /\ w \in t_pending \/ Queued(w) \/ Calls(w)
  /\ w \in t_pending => ~Queued(w) /\ ~Calls(w)
  /\ Queued(w) => ~Calls(w)
  /\ \A k, l \in DOMAIN queue : QueuedAt(k, w) /\ QueuedAt(l, w) => k = l
OneInv == \A i \in entries : Once(Cur(i))

\* A task is its client's present call, or a caller gave it up, and then it
\* finds the context stopped or is of an earlier cycle.
TaskOK(t) ==
  /\ t.cycle <= generation
  /\ t.op = "remove" => /\ t.id \in T!Issued
                        /\ t.cycle # generation => t.id \in cancelled
  /\ t.client = NoCaller => t.cycle # generation \/ stopped
  /\ t.client # NoCaller => /\ t.client \in TimerCaller
                            /\ call[t.client].pc = "wait" /\ call[t.client].op = t.op
                            /\ call[t.client].id = t.id

\* At most one task of each caller, in the queue or executed.
TasksInv ==
  /\ generation \in Nat /\ task \in TTask
  /\ \A k \in DOMAIN queue : queue[k].kind = "task" => TaskOK(queue[k].body)
  /\ worker = "task" => TaskOK(task)
  /\ worker # "task" => task.client = NoCaller
  /\ \A k, l \in DOMAIN queue :
       queue[k].kind = "task" /\ queue[l].kind = "task"
         /\ queue[k].body.client = queue[l].body.client /\ queue[k].body.client # NoCaller
         => k = l
  /\ \A k \in DOMAIN queue :
       queue[k].kind = "task" /\ queue[k].body.client = task.client => task.client = NoCaller

\* What callers were told of.
ToldInv ==
  /\ call \in [TimerCaller -> [pc : {"idle", "check", "post", "wait", "done"},
                               op : T!Ops, id : Nat, result : Nat]]
  /\ \A c \in TimerCaller :
       /\ call[c].pc # "idle" /\ call[c].op = "remove" => call[c].id \in T!Issued
       /\ call[c].pc = "done" /\ call[c].op = "remove" =>
            /\ call[c].id \in cancelled
            /\ worker = "callback" => call[c].id # t_active.id
       /\ call[c].op = "add" /\ call[c].result # 0 => call[c].result \in T!Issued
  /\ removed \subseteq cancelled
  /\ refused \subseteq T!Issued /\ (stopped \/ refused \subseteq cancelled)
  /\ worker = "callback" => t_active.id \notin removed

TimerInv == EntriesInv /\ WaitsInv /\ OneInv /\ TasksInv /\ ToldInv

-----------------------------------------------------------------------------
(* What an operation does to the timers.                                   *)

Same == UNCHANGED T!timerVars

\* Timer j is new or registered, and its next wait begins.
Arms(j) ==
  /\ j \in T!Ids /\ j \notin cancelled
  /\ \/ j \in entries /\ next_id' = next_id
     \/ next_id # 0 /\ j = next_id /\ next_id' = (next_id + 1) % (MaxId + 1)
  /\ entries' = entries \cup {j} /\ cancelled' = cancelled
  /\ cycles' = [cycles EXCEPT ![j] = @ + 1]
  /\ t_pending' = T!NotOf(j) \cup {[id |-> j, cycle |-> cycles[j] + 1]}

\* Timer j is cancelled and forgotten.
Drops(j) ==
  /\ j \in entries
  /\ entries' = entries \ {j} /\ cancelled' = cancelled \cup {j}
  /\ t_pending' \in {t_pending, T!NotOf(j)}
  /\ cycles' = cycles /\ next_id' = next_id

Effect == Same \/ \E j \in T!Ids : Arms(j) \/ Drops(j)

\* No timer that was issued is forgotten, and no cycle comes back.
Grows ==
  /\ T!Issued \subseteq T!Issued' /\ cancelled \subseteq cancelled'
  /\ \A i \in T!Ids : cycles[i] <= cycles'[i]

\* The timers that were issued are identifiers.
LEMMA IssuedIds ==
  ASSUME EntriesInv, T!TimerAssumption
  PROVE  T!Issued \subseteq T!Ids /\ entries \subseteq T!Ids
BY DEF EntriesInv, T!Issued, T!Ids, T!TimerAssumption

\* An entry that is given a new wait.
LEMMA ArmEffect ==
  ASSUME EntriesInv, T!TimerAssumption, NEW i \in entries, T!Arm(i),
         UNCHANGED <<entries, cancelled, next_id>>
  PROVE  Effect
<1>1. i \in T!Ids BY IssuedIds
<1>2. Arms(i) BY <1>1 DEF Arms, T!Arm
<1> QED BY <1>1, <1>2 DEF Effect

\* An entry that cannot be given one.
LEMMA ArmFailsEffect ==
  ASSUME EntriesInv, T!TimerAssumption, NEW i \in entries, T!ArmFails(i), next_id' = next_id
  PROVE  Effect
<1>1. i \in T!Ids BY IssuedIds
<1>2. Drops(i) BY DEF Drops, T!ArmFails
<1> QED BY <1>1, <1>2 DEF Effect

\* ADD: a new entry, or none when the identifiers are used up.
LEMMA AddEffect ==
  ASSUME EntriesInv, T!TimerAssumption, NEW r \in Nat, T!DoAdd(r)
  PROVE  Effect /\ (r # 0 => r \in T!Issued')
<1>1. CASE r = 0 /\ UNCHANGED T!timerVars BY <1>1 DEF Effect, Same
<1>2. CASE ~(r = 0 /\ UNCHANGED T!timerVars)
  <2>1. /\ next_id # 0 /\ r = next_id /\ T!Arm(r) /\ entries' = entries \cup {r}
        /\ next_id' = (next_id + 1) % (MaxId + 1) /\ UNCHANGED cancelled
    BY <1>2 DEF T!DoAdd
  <2>2. r \in T!Ids BY <2>1 DEF EntriesInv, T!Ids, T!TimerAssumption
  <2>3. Arms(r) BY <2>1, <2>2 DEF Arms, T!Arm
  <2>4. r \in T!Issued'
    <3>1. CASE r = MaxId
      BY <2>1, <2>2, <3>1 DEF T!Issued, T!TimerAssumption, T!Ids
    <3>2. CASE r # MaxId
      <4>1. r < MaxId /\ r \in 1..MaxId BY <2>2, <3>2 DEF T!Ids, T!TimerAssumption
      <4>2. next_id' = r + 1 BY <2>1, <4>1 DEF T!TimerAssumption
      <4> QED BY <4>1, <4>2 DEF T!Issued
    <3> QED BY <3>1, <3>2
  <2> QED BY <2>2, <2>3, <2>4 DEF Effect
<1> QED BY <1>1, <1>2

\* REMOVE: the identifier is cancelled afterwards, whether it was registered or not.
LEMMA RemoveEffect ==
  ASSUME EntriesInv, T!TimerAssumption, NEW i \in T!Issued, NEW r \in Nat, T!DoRemove(i, r)
  PROVE  Effect /\ i \in cancelled'
<1>1. CASE i \notin entries /\ UNCHANGED T!timerVars
  BY <1>1 DEF Effect, Same, EntriesInv, T!timerVars
<1>2. CASE i \in entries
  <2>1. Drops(i) /\ i \in cancelled' BY <1>2 DEF Drops, T!DoRemove
  <2> QED BY <2>1, <1>2, IssuedIds DEF Effect
<1> QED BY <1>1, <1>2 DEF T!DoRemove

\* SET_INTERVAL: the entry waits again, in its next cycle.
LEMMA SetIntervalEffect ==
  ASSUME EntriesInv, T!TimerAssumption, NEW i, NEW r \in Nat, T!DoSetInterval(i, r)
  PROVE  Effect
<1>1. CASE UNCHANGED T!timerVars BY <1>1 DEF Effect, Same
<1>2. CASE i \in entries /\ T!Arm(i) /\ UNCHANGED <<entries, cancelled, next_id>>
  BY <1>2, ArmEffect
<1>3. CASE i \in entries /\ T!ArmFails(i) /\ UNCHANGED next_id
  BY <1>3, ArmFailsEffect
<1> QED BY <1>1, <1>2, <1>3 DEF T!DoSetInterval

\* What the operations return is a timer that was issued; what they remove is
\* cancelled.
LEMMA DoEffect ==
  ASSUME EntriesInv, T!TimerAssumption, NEW op, NEW i, NEW r \in Nat, T!Do(op, i, r),
         op = "remove" => i \in T!Issued
  PROVE  /\ Effect
         /\ op = "add" /\ r # 0 => r \in T!Issued'
         /\ op = "remove" => i \in cancelled'
<1>1. CASE op = "add" /\ T!DoAdd(r) BY <1>1, AddEffect
<1>2. CASE op = "remove" /\ T!DoRemove(i, r) BY <1>2, RemoveEffect
<1>3. CASE op = "set_interval" /\ T!DoSetInterval(i, r) BY <1>3, SetIntervalEffect
<1> QED BY <1>1, <1>2, <1>3 DEF T!Do

\* The end of a callback.
LEMMA AfterEffect ==
  ASSUME EntriesInv, T!TimerAssumption, Known(t_active), T!AfterCallback(t_active.id)
  PROVE  \/ Same /\ T!Stale(t_active)
         \/ t_active.id \in T!Ids /\ (Arms(t_active.id) \/ Drops(t_active.id))
<1> PICK i : i = t_active.id OBVIOUS
<1>0. i \in T!Issued BY DEF Known
<1>1. CASE T!Stale(t_active) /\ UNCHANGED T!timerVars BY <1>1 DEF Same
<1>2. CASE ~T!Stale(t_active)
  <2>1. i \in entries BY <1>0, <1>2 DEF EntriesInv, T!Stale
  <2>2. i \in T!Ids BY <2>1, IssuedIds
  <2>3. CASE T!Arm(i) /\ UNCHANGED <<entries, cancelled, next_id>>
    <3>1. Arms(i) BY <2>1, <2>2, <2>3 DEF Arms, T!Arm
    <3> QED BY <2>2, <3>1
  <2>4. CASE /\ cancelled' = cancelled \cup {i} /\ entries' = entries \ {i}
             /\ UNCHANGED <<t_pending, cycles, next_id>>
    <3>1. Drops(i) BY <2>1, <2>4 DEF Drops
    <3> QED BY <2>2, <3>1
  <2>5. CASE T!ArmFails(i) /\ UNCHANGED next_id
    <3>1. Drops(i) BY <2>1, <2>5 DEF Drops, T!ArmFails
    <3> QED BY <2>2, <3>1
  <2> QED BY <1>2, <2>3, <2>4, <2>5 DEF T!AfterCallback
<1> QED BY <1>1, <1>2 DEF T!AfterCallback

-----------------------------------------------------------------------------
(* An operation keeps what holds of the timers.                            *)

\* Identifiers stay issued and cancelled, and cycles only go up.
LEMMA EffectGrows ==
  ASSUME EntriesInv, T!TimerAssumption, Effect
  PROVE  Grows
<1>1. CASE Same BY <1>1 DEF Same, T!timerVars, Grows, T!Issued, EntriesInv
<1>2. ASSUME NEW j \in T!Ids, Arms(j) PROVE Grows
  <2>1. T!Issued \subseteq T!Issued'
    <3>1. CASE next_id' = next_id BY <3>1 DEF T!Issued
    <3>2. CASE next_id # 0 /\ next_id' = (next_id + 1) % (MaxId + 1)
      <4>1. CASE next_id = MaxId BY <3>2, <4>1 DEF T!Issued, T!TimerAssumption, T!Ids
      <4>2. CASE next_id # MaxId
        <5>1. next_id < MaxId /\ next_id \in 1..MaxId
          BY <3>2, <4>2 DEF EntriesInv, T!TimerAssumption
        <5>2. next_id' = next_id + 1 BY <3>2, <5>1 DEF T!TimerAssumption
        <5> QED BY <5>1, <5>2 DEF T!Issued
      <4> QED BY <4>1, <4>2
    <3> QED BY <1>2, <3>1, <3>2 DEF Arms
  <2>2. \A i \in T!Ids : cycles[i] <= cycles'[i] BY <1>2 DEF Arms, EntriesInv
  <2>3. cancelled \subseteq cancelled' BY <1>2 DEF Arms
  <2> QED BY <2>1, <2>2, <2>3 DEF Grows
<1>3. ASSUME NEW j \in T!Ids, Drops(j) PROVE Grows
  BY <1>3 DEF Drops, Grows, T!Issued, EntriesInv
<1> QED BY <1>1, <1>2, <1>3 DEF Effect

\* An operation keeps what was issued split into registered and cancelled.
LEMMA EffectEntries ==
  ASSUME EntriesInv, T!TimerAssumption, Effect, t_started' = t_started, worker # "none"
  PROVE  EntriesInv'
<1>0. t_started' BY DEF EntriesInv
<1>1. CASE Same BY <1>0, <1>1 DEF Same, T!timerVars, T!Issued, EntriesInv
<1>2. ASSUME NEW j \in T!Ids, Arms(j) PROVE EntriesInv'
  <2>1. next_id' \in 0..MaxId
    BY <1>2 DEF Arms, EntriesInv, T!TimerAssumption, T!Ids
  <2>2. T!Issued' = T!Issued \cup {j}
    <3>1. CASE j \in entries /\ next_id' = next_id
      BY <3>1 DEF EntriesInv, T!Issued
    <3>2. CASE next_id # 0 /\ j = next_id /\ next_id' = (next_id + 1) % (MaxId + 1)
      <4>1. CASE j = MaxId BY <1>2, <3>2, <4>1 DEF T!Issued, T!TimerAssumption, T!Ids
      <4>2. CASE j # MaxId
        <5>1. j < MaxId /\ j \in 1..MaxId BY <1>2, <4>2 DEF T!Ids, T!TimerAssumption
        <5>2. next_id' = j + 1 BY <3>2, <5>1 DEF T!TimerAssumption
        <5> QED BY <3>2, <5>1, <5>2 DEF T!Issued
      <4> QED BY <4>1, <4>2
    <3> QED BY <1>2, <3>1, <3>2 DEF Arms
  <2>3. entries' \cap cancelled' = {} /\ entries' \cup cancelled' = T!Issued'
    BY <1>2, <2>2 DEF Arms, EntriesInv
  <2>4. cycles' \in [T!Ids -> Nat] BY <1>2 DEF Arms, EntriesInv
  <2> QED BY <1>0, <2>1, <2>3, <2>4 DEF EntriesInv
<1>3. ASSUME NEW j \in T!Ids, Drops(j) PROVE EntriesInv'
  BY <1>0, <1>3 DEF Drops, T!Issued, EntriesInv
<1> QED BY <1>1, <1>2, <1>3 DEF Effect

\* A wait that is known stays known.
LEMMA KnownGrows ==
  ASSUME EntriesInv, EntriesInv', Grows, T!TimerAssumption, NEW w, Known(w)
  PROVE  w \in TWait /\ w.id \in T!Issued' /\ w.cycle <= cycles'[w.id]
<1>1. w.id \in T!Ids /\ w.cycle \in Nat BY DEF Known, TWait
<1>2. cycles[w.id] \in Nat /\ cycles'[w.id] \in Nat BY <1>1 DEF EntriesInv
<1> QED BY <1>1, <1>2 DEF Known, Grows

\* The handlers and the callback stay, at most the callback ends.
CallGoes(w) == Calls(w)' => Calls(w)

\* The waits there are stay known.
LEMMA EffectWaits ==
  ASSUME EntriesInv, EntriesInv', T!TimerAssumption, Effect, WaitsInv,
         queue' = queue, worker' = "callback" => worker = "callback" /\ t_active' = t_active
  PROVE  WaitsInv'
<1>0. Grows BY EffectGrows
<1>1. \A w : Known(w) => w \in TWait /\ w.id \in T!Issued' /\ w.cycle <= cycles'[w.id]
  BY <1>0, KnownGrows
<1>2. ASSUME NEW w \in t_pending'
      PROVE  w \in TWait /\ w.id \in T!Issued' /\ w.cycle <= cycles'[w.id]
  <2>1. CASE Same BY <1>1, <1>2, <2>1 DEF Same, T!timerVars, WaitsInv
  <2>2. ASSUME NEW j \in T!Ids, Arms(j)
        PROVE  w \in TWait /\ w.id \in T!Issued' /\ w.cycle <= cycles'[w.id]
    <3>1. CASE w \in T!NotOf(j) BY <1>1, <3>1 DEF T!NotOf, WaitsInv
    <3>2. CASE w = [id |-> j, cycle |-> cycles[j] + 1]
      <4>1. w \in TWait /\ w.id = j /\ w.cycle = cycles[j] + 1 BY <3>2 DEF TWait, EntriesInv
      <4>2. cycles'[j] = cycles[j] + 1 /\ cycles'[j] \in Nat BY <2>2 DEF Arms, EntriesInv
      <4>3. j \in T!Issued' BY <2>2 DEF Arms, EntriesInv
      <4> QED BY <4>1, <4>2, <4>3
    <3> QED BY <1>2, <2>2, <3>1, <3>2 DEF Arms
  <2>3. ASSUME NEW j \in T!Ids, Drops(j)
        PROVE  w \in TWait /\ w.id \in T!Issued' /\ w.cycle <= cycles'[w.id]
    <3>1. w \in t_pending BY <1>2, <2>3 DEF Drops, T!NotOf
    <3> QED BY <1>1, <3>1 DEF WaitsInv
  <2> QED BY <2>1, <2>2, <2>3 DEF Effect
<1>3. \A w \in t_pending' : Known(w)' BY <1>2 DEF Known, TWait
<1>4. ASSUME NEW k \in DOMAIN queue, queue[k].kind = "wait" PROVE Known(queue[k].body)'
  <2>1. Known(queue[k].body) BY <1>4 DEF WaitsInv
  <2> QED BY <1>1, <2>1 DEF Known, TWait
<1>5. worker' = "callback" => Known(t_active)'
  <2>1. worker = "callback" => Known(t_active) BY DEF WaitsInv
  <2> QED BY <1>1, <2>1 DEF Known, TWait
<1>6. queue' \in Seq(Handler)' BY DEF WaitsInv, Handler, TTask, TWait
<1> QED BY <1>3, <1>4, <1>5, <1>6 DEF WaitsInv

\* A wait that does not move.
LEMMA OnceKept ==
  ASSUME NEW w, Once(w), queue' = queue, (w \in t_pending') <=> (w \in t_pending),
         Calls(w)' <=> Calls(w)
  PROVE  Once(w)'
BY DEF Once, Queued, QueuedAt

\* It is enough that the waits of the present cycles are in one place.
LEMMA OneFrom ==
  ASSUME \A i \in entries' : \A w : w = Cur(i)' => Once(w)'
  PROVE  OneInv'
<1> SUFFICES ASSUME NEW i \in entries' PROVE Once(Cur(i))' BY DEF OneInv
<1>1. PICK w : w = Cur(i)' OBVIOUS
<1>2. Once(w)' BY <1>1
<1> QED BY <1>1, <1>2 DEF Once, Queued, QueuedAt, Calls

\* The present wait of a timer stays in one place.
LEMMA EffectOne ==
  ASSUME EntriesInv, T!TimerAssumption, WaitsInv, OneInv, NEW j \in T!Ids,
         Arms(j) \/ Drops(j), queue' = queue,
         \A w : Calls(w)' => Calls(w),
         \A w : w.id # j /\ Calls(w) => Calls(w)',
         Arms(j) => \A w : ~Calls(w)' \/ (Known(w) /\ Calls(w))
  PROVE  OneInv'
<1> SUFFICES ASSUME NEW i \in entries', NEW w, w = Cur(i)' PROVE Once(w)'
  BY OneFrom
<1>0. i \in T!Ids
  <2>1. entries \subseteq T!Ids BY IssuedIds
  <2> QED BY <2>1 DEF Arms, Drops
<1>1. CASE i # j
  <2>1. i \in entries BY <1>1 DEF Arms, Drops
  <2>2. w = Cur(i) /\ w.id # j
    <3>1. cycles'[i] = cycles[i] BY <1>0, <1>1 DEF Arms, Drops, EntriesInv
    <3> QED BY <1>1, <3>1 DEF Cur
  <2>3. (w \in t_pending') <=> (w \in t_pending)
    BY <2>2 DEF Arms, Drops, T!NotOf
  <2>4. Once(w) BY <2>1, <2>2 DEF OneInv
  <2> QED BY <2>2, <2>3, <2>4, OnceKept
<1>2. CASE i = j
  <2>1. Arms(j) BY <1>2 DEF Drops
  <2>2. w = [id |-> j, cycle |-> cycles[j] + 1] /\ cycles[j] \in Nat
    BY <1>0, <1>2, <2>1 DEF Cur, Arms, EntriesInv
  <2>3. w \in t_pending' BY <2>1, <2>2 DEF Arms
  <2>4. ~Known(w) BY <2>2 DEF Known
  <2>5. ~Queued(w)' BY <2>4 DEF WaitsInv, Queued, QueuedAt
  <2>6. ~Calls(w)' BY <2>1, <2>4
  <2>7. \A k \in DOMAIN queue' : ~QueuedAt(k, w)' BY <2>5 DEF Queued
  <2> QED BY <2>3, <2>5, <2>6, <2>7 DEF Once
<1> QED BY <1>1, <1>2

\* An operation that is not the end of a callback.
LEMMA EffectOneInside ==
  ASSUME EntriesInv, T!TimerAssumption, WaitsInv, OneInv, Effect, queue' = queue,
         \A w : Calls(w)' <=> Calls(w)
  PROVE  OneInv'
<1>1. CASE Same
  <2> SUFFICES ASSUME NEW i \in entries', NEW w, w = Cur(i)' PROVE Once(w)'
    BY OneFrom
  <2>1. w = Cur(i) /\ i \in entries /\ t_pending' = t_pending
    BY <1>1 DEF Same, T!timerVars, Cur
  <2>2. Once(w) BY <2>1 DEF OneInv
  <2> QED BY <2>1, <2>2, OnceKept
<1>2. ASSUME NEW j \in T!Ids, Arms(j) \/ Drops(j) PROVE OneInv'
  <2>1. \A w : ~Calls(w)' \/ (Known(w) /\ Calls(w)) BY DEF WaitsInv, Calls
  <2> QED BY <1>2, <2>1, EffectOne
<1> QED BY <1>1, <1>2 DEF Effect

-----------------------------------------------------------------------------
(* What other steps keep.                                                  *)

\* The sequence with a handler more, and with one less.
LEMMA AppendAt ==
  ASSUME NEW S, NEW q \in Seq(S), NEW h \in S
  PROVE  /\ Append(q, h) \in Seq(S)
         /\ DOMAIN Append(q, h) = DOMAIN q \cup {Len(q) + 1}
         /\ Len(q) + 1 \notin DOMAIN q
         /\ Append(q, h)[Len(q) + 1] = h
         /\ \A k \in DOMAIN q : Append(q, h)[k] = q[k]
OBVIOUS

\* The sequence without its first handler.
LEMMA TailAt ==
  ASSUME NEW S, NEW q \in Seq(S), q # <<>>
  PROVE  /\ Tail(q) \in Seq(S) /\ Head(q) \in S
         /\ 1 \in DOMAIN q /\ q[1] = Head(q) /\ DOMAIN Tail(q) \subseteq Nat
         /\ \A k \in DOMAIN Tail(q) : k + 1 \in DOMAIN q /\ Tail(q)[k] = q[k + 1]
         /\ \A k \in DOMAIN q : k # 1 => k - 1 \in DOMAIN Tail(q) /\ Tail(q)[k - 1] = q[k]
OBVIOUS

\* What depends on the registered timers alone.
LEMMA EntriesKept ==
  ASSUME EntriesInv, UNCHANGED <<entries, cancelled, cycles, next_id>>,
         ~t_started' => ~t_started /\ worker' = "none"
  PROVE  EntriesInv'
BY DEF EntriesInv, T!Issued

\* No wait is added.
LEMMA WaitsKept ==
  ASSUME WaitsInv, UNCHANGED <<queue, cycles, next_id>>, t_pending' \subseteq t_pending,
         worker' = "callback" => worker = "callback" /\ t_active' = t_active
  PROVE  WaitsInv'
<1>1. \A w : Known(w) => Known(w)' BY DEF Known, TWait, T!Issued
<1>2. \A w \in t_pending' : Known(w)' BY <1>1 DEF WaitsInv
<1>3. \A k \in DOMAIN queue' : queue'[k].kind = "wait" => Known(queue[k].body)'
  BY <1>1 DEF WaitsInv
<1>4. worker' = "callback" => Known(t_active)'
  <2>1. worker = "callback" => Known(t_active) BY DEF WaitsInv
  <2> QED BY <2>1 DEF Known, TWait, T!Issued
<1>5. queue' \in Seq(Handler)' BY DEF WaitsInv, Handler, TTask, TWait
<1> QED BY <1>2, <1>3, <1>4, <1>5 DEF WaitsInv

\* The waits, the queue and the callback stay.
LEMMA OneInvKept ==
  ASSUME OneInv, UNCHANGED <<entries, cycles, t_pending, queue>>, \A w : Calls(w)' <=> Calls(w)
  PROVE  OneInv'
<1> SUFFICES ASSUME NEW i \in entries', NEW w, w = Cur(i)' PROVE Once(w)'
  BY OneFrom
<1>1. w = Cur(i) /\ i \in entries BY DEF Cur
<1>2. Once(w) BY <1>1 DEF OneInv
<1> QED BY <1>1, <1>2, OnceKept

\* A task of the queue stays well formed as calls go on.
LEMMA TaskKept ==
  ASSUME NEW t, TaskOK(t), generation' = generation, stopped => stopped',
         T!Issued \subseteq T!Issued', cancelled \subseteq cancelled',
         t.client \in TimerCaller /\ call[t.client].pc = "wait" =>
           call'[t.client] = call[t.client]
  PROVE  TaskOK(t)'
BY DEF TaskOK

\* So do all of them.
LEMMA TasksKept ==
  ASSUME TasksInv, UNCHANGED <<queue, task, generation>>, stopped => stopped',
         worker' = "task" <=> worker = "task",
         T!Issued \subseteq T!Issued', cancelled \subseteq cancelled',
         \A c \in TimerCaller : call[c].pc = "wait" => call'[c] = call[c]
  PROVE  TasksInv'
<1>1. \A t : TaskOK(t) => TaskOK(t)' BY TaskKept
<1>2. \A k \in DOMAIN queue' : queue'[k].kind = "task" => TaskOK(queue[k].body)'
  BY <1>1 DEF TasksInv
<1>3. worker' = "task" => TaskOK(task)'
  <2>1. worker = "task" => TaskOK(task) BY DEF TasksInv
  <2>2. PICK t : t = task OBVIOUS
  <2>3. worker' = "task" => TaskOK(t)' BY <1>1, <2>1, <2>2
  <2> QED BY <2>2, <2>3 DEF TaskOK
<1>4. generation' \in Nat /\ task' \in TTask' BY DEF TasksInv, TTask
<1> QED BY <1>2, <1>3, <1>4 DEF TasksInv

\* The states of the calls.
LEMMA ToldKept ==
  ASSUME ToldInv, UNCHANGED <<call, removed, refused>>, stopped => stopped',
         T!Issued \subseteq T!Issued', cancelled \subseteq cancelled',
         worker' = "callback" => worker = "callback" /\ t_active' = t_active
  PROVE  ToldInv'
BY DEF ToldInv

-----------------------------------------------------------------------------
(* The controller's steps.                                                 *)

\* timer_init
LEMMA StartStep ==
  ASSUME TimerInv, T!TimerAssumption, NEW ok \in BOOLEAN, T!Start(ok)
  PROVE  TimerInv'
<1>a. EntriesInv /\ WaitsInv /\ OneInv /\ TasksInv /\ ToldInv BY DEF TimerInv
<1>b. /\ ~t_started /\ generation' = generation + 1 /\ t_started' = ok /\ stopped' = ~ok
      /\ worker' = IF ok THEN "idle" ELSE "none"
      /\ UNCHANGED <<task, t_active, queue, t_pending, entries, cancelled, cycles, next_id,
                     call, removed, refused>>
  BY DEF T!Start, T!timerVars
<1>c. entries = {} /\ worker = "none" /\ T!Issued = cancelled BY <1>a, <1>b DEF EntriesInv
<1>d. T!Issued' = T!Issued BY <1>b DEF T!Issued
<1>1. EntriesInv' BY <1>a, <1>b, EntriesKept
<1>2. WaitsInv' BY <1>a, <1>b, WaitsKept
<1>3. OneInv' BY <1>b, <1>c DEF OneInv
<1>4. TasksInv'
  <2>1. ASSUME NEW t, TaskOK(t), t.cycle \in Nat PROVE TaskOK(t)'
    BY <1>a, <1>b, <1>c, <1>d, <2>1 DEF TaskOK, TasksInv
  <2>2. \A k \in DOMAIN queue : queue[k].kind = "task" => queue[k].body.cycle \in Nat
    <3> SUFFICES ASSUME NEW k \in DOMAIN queue, queue[k].kind = "task"
                 PROVE  queue[k].body.cycle \in Nat
      OBVIOUS
    <3>1. queue[k] \in Handler BY <1>a DEF WaitsInv
    <3> QED BY <3>1 DEF Handler, TTask
  <2>3. \A k \in DOMAIN queue' : queue'[k].kind = "task" => TaskOK(queue[k].body)'
    BY <1>a, <1>b, <2>1, <2>2 DEF TasksInv
  <2>4. generation' \in Nat /\ task' \in TTask' BY <1>a, <1>b DEF TasksInv, TTask
  <2>5. worker # "task" /\ worker' # "task" BY <1>b, <1>c
  <2> QED BY <1>a, <1>b, <2>3, <2>4, <2>5 DEF TasksInv
<1>5. ToldInv'
  <2>1. refused \subseteq cancelled BY <1>a, <1>c DEF ToldInv
  <2>2. worker' # "callback" BY <1>b
  <2> QED BY <1>a, <1>b, <1>d, <2>1, <2>2 DEF ToldInv
<1> QED BY <1>1, <1>2, <1>3, <1>4, <1>5 DEF TimerInv

\* timer_shutdown: the context is told to stop.
LEMMA StopStep ==
  ASSUME TimerInv, T!Stop
  PROVE  TimerInv'
<1>a. EntriesInv /\ WaitsInv /\ OneInv /\ TasksInv /\ ToldInv BY DEF TimerInv
<1>b. /\ stopped'
      /\ UNCHANGED <<t_started, generation, worker, task, t_active, queue, t_pending, entries,
                     cancelled, cycles, next_id, call, removed, refused>>
  BY DEF T!Stop, T!workVars, T!timerVars
<1>d. T!Issued' = T!Issued BY <1>b DEF T!Issued
<1>1. EntriesInv' BY <1>a, <1>b DEF EntriesInv, T!Issued
<1>2. WaitsInv' BY <1>a, <1>b, WaitsKept
<1>3. OneInv' BY <1>a, <1>b, OneInvKept DEF Calls
<1>4. TasksInv' BY <1>a, <1>b, <1>d, TasksKept
<1>5. ToldInv' BY <1>a, <1>b, <1>d, ToldKept
<1> QED BY <1>1, <1>2, <1>3, <1>4, <1>5 DEF TimerInv

\* timer_shutdown: the worker has ended.
LEMMA StopJoinedStep ==
  ASSUME TimerInv, T!StopJoined
  PROVE  TimerInv'
<1>a. EntriesInv /\ WaitsInv /\ OneInv /\ TasksInv /\ ToldInv BY DEF TimerInv
<1>b. /\ worker = "ended" /\ worker' = "none" /\ cancelled' = cancelled \cup entries
      /\ t_pending' \subseteq t_pending /\ entries' = {}
      /\ UNCHANGED <<stopped, generation, task, t_active, queue, cycles, next_id,
                     call, removed, refused>>
  BY DEF T!StopJoined
<1>d. T!Issued' = T!Issued BY <1>b DEF T!Issued
<1>1. EntriesInv' BY <1>a, <1>b, <1>d DEF EntriesInv
<1>2. WaitsInv' BY <1>a, <1>b, WaitsKept
<1>3. OneInv' BY <1>b DEF OneInv
<1>4. TasksInv' BY <1>a, <1>b, <1>d, TasksKept
<1>5. ToldInv' BY <1>a, <1>b, <1>d, ToldKept
<1> QED BY <1>1, <1>2, <1>3, <1>4, <1>5 DEF TimerInv

\* The worker leaves run().
LEMMA WorkerEndsStep ==
  ASSUME TimerInv, T!WorkerEnds
  PROVE  TimerInv'
<1>a. EntriesInv /\ WaitsInv /\ OneInv /\ TasksInv /\ ToldInv BY DEF TimerInv
<1>b. /\ worker = "idle" /\ worker' = "ended" /\ stopped'
      /\ UNCHANGED <<t_started, generation, task, t_active, queue, t_pending, entries,
                     cancelled, cycles, next_id, call, removed, refused>>
  BY DEF T!WorkerEnds, T!timerVars
<1>d. T!Issued' = T!Issued BY <1>b DEF T!Issued
<1>1. EntriesInv' BY <1>a, <1>b DEF EntriesInv, T!Issued
<1>2. WaitsInv' BY <1>a, <1>b, WaitsKept
<1>3. OneInv' BY <1>a, <1>b, OneInvKept DEF Calls
<1>4. TasksInv' BY <1>a, <1>b, <1>d, TasksKept
<1>5. ToldInv' BY <1>a, <1>b, <1>d, ToldKept
<1> QED BY <1>1, <1>2, <1>3, <1>4, <1>5 DEF TimerInv

-----------------------------------------------------------------------------
(* The worker's steps on the queue.                                        *)

\* Handlers behind the first one.
LEMMA TailQueued ==
  ASSUME WaitsInv, queue # <<>>, queue' = Tail(queue), NEW w
  PROVE  /\ Queued(w)' => Queued(w)
         /\ Queued(w) => Queued(w)' \/ (Head(queue).kind = "wait" /\ Head(queue).body = w)
         /\ (\A k, l \in DOMAIN queue : QueuedAt(k, w) /\ QueuedAt(l, w) => k = l) =>
              /\ \A k, l \in DOMAIN queue' : QueuedAt(k, w)' /\ QueuedAt(l, w)' => k = l
              /\ ~(Queued(w)' /\ Head(queue).kind = "wait" /\ Head(queue).body = w)
<1> PICK q, p : q = queue /\ p = Tail(queue) OBVIOUS
<1>0. q \in Seq(Handler) /\ queue' = p BY DEF WaitsInv
<1>1. /\ 1 \in DOMAIN q /\ q[1] = Head(q) /\ DOMAIN p \subseteq Nat
      /\ \A k \in DOMAIN p : k + 1 \in DOMAIN q /\ p[k] = q[k + 1]
      /\ \A k \in DOMAIN q : k # 1 => k - 1 \in DOMAIN p /\ p[k - 1] = q[k]
  BY <1>0, TailAt
<1>2. \A k \in DOMAIN p : QueuedAt(k, w)' => QueuedAt(k + 1, w)
  BY <1>0, <1>1 DEF QueuedAt
<1>3. \A k \in DOMAIN q : QueuedAt(k, w) /\ k # 1 => QueuedAt(k - 1, w)'
  BY <1>0, <1>1 DEF QueuedAt
<1>4. Queued(w)' => \E k \in DOMAIN q : k # 1 /\ QueuedAt(k, w)
  <2>1. \A k \in DOMAIN p : k + 1 \in DOMAIN q /\ k + 1 # 1
    <3> SUFFICES ASSUME NEW k \in DOMAIN p PROVE k + 1 \in DOMAIN q /\ k + 1 # 1 OBVIOUS
    <3>1. q \in Seq(Handler) /\ p \in Seq(Handler) BY <1>0, TailAt
    <3>2. k \in 1..Len(p) BY <3>1
    <3> QED BY <1>1, <3>1, <3>2
  <2> QED BY <1>0, <1>2, <2>1 DEF Queued
<1>5. Queued(w) => Queued(w)' \/ QueuedAt(1, w)
  <2>1. \A k \in DOMAIN q : k # 1 => k - 1 \in DOMAIN p BY <1>1
  <2> QED BY <1>0, <1>3, <2>1 DEF Queued
<1>6. QueuedAt(1, w) <=> Head(queue).kind = "wait" /\ Head(queue).body = w
  BY <1>1 DEF QueuedAt
<1>7. Queued(w)' => Queued(w) BY <1>4 DEF Queued
<1>8. (\A k, l \in DOMAIN queue : QueuedAt(k, w) /\ QueuedAt(l, w) => k = l) =>
        \A k, l \in DOMAIN queue' : QueuedAt(k, w)' /\ QueuedAt(l, w)' => k = l
  <2> SUFFICES ASSUME \A k, l \in DOMAIN q : QueuedAt(k, w) /\ QueuedAt(l, w) => k = l,
                      NEW k \in DOMAIN p, NEW l \in DOMAIN p, QueuedAt(k, w)', QueuedAt(l, w)'
               PROVE  k = l
    BY <1>0
  <2>1. k + 1 \in DOMAIN q /\ l + 1 \in DOMAIN q /\ k \in Nat /\ l \in Nat BY <1>1
  <2>2. QueuedAt(k + 1, w) /\ QueuedAt(l + 1, w) BY <1>2
  <2>3. k + 1 = l + 1 BY <2>1, <2>2
  <2> QED BY <2>1, <2>3
<1>9. (\A k, l \in DOMAIN queue : QueuedAt(k, w) /\ QueuedAt(l, w) => k = l) =>
        ~(Queued(w)' /\ QueuedAt(1, w))
  BY <1>1, <1>4
<1> QED BY <1>5, <1>6, <1>7, <1>8, <1>9

\* A wait whose handler may be the one that is taken.
LEMMA OnceTail ==
  ASSUME WaitsInv, queue # <<>>, queue' = Tail(queue), t_pending' = t_pending,
         NEW w, Once(w), ~Calls(w),
         Calls(w)' <=> Head(queue).kind = "wait" /\ Head(queue).body = w
  PROVE  Once(w)'
<1>1. Calls(w)' => Queued(w)
  <2>1. queue \in Seq(Handler) BY DEF WaitsInv
  <2>2. 1 \in DOMAIN queue /\ queue[1] = Head(queue) BY <2>1, TailAt
  <2> QED BY <2>2 DEF Queued, QueuedAt
<1>2. \A k, l \in DOMAIN queue : QueuedAt(k, w) /\ QueuedAt(l, w) => k = l BY DEF Once
<1>t. /\ Queued(w)' => Queued(w)
      /\ Queued(w) => Queued(w)' \/ (Head(queue).kind = "wait" /\ Head(queue).body = w)
      /\ (\A k, l \in DOMAIN queue : QueuedAt(k, w) /\ QueuedAt(l, w) => k = l) =>
           /\ \A k, l \in DOMAIN queue' : QueuedAt(k, w)' /\ QueuedAt(l, w)' => k = l
           /\ ~(Queued(w)' /\ Head(queue).kind = "wait" /\ Head(queue).body = w)
  BY TailQueued
<1>3. /\ Queued(w)' => Queued(w)
      /\ Queued(w) => Queued(w)' \/ Calls(w)'
      /\ \A k, l \in DOMAIN queue' : QueuedAt(k, w)' /\ QueuedAt(l, w)' => k = l
      /\ ~(Queued(w)' /\ Calls(w)')
  BY <1>t, <1>2
<1>4. /\ (w \in t_pending \/ Queued(w) \/ Calls(w))
      /\ (w \in t_pending => ~Queued(w) /\ ~Calls(w))
  BY DEF Once
<1> QED BY <1>1, <1>3, <1>4 DEF Once

\* What is left of the queue is known.
LEMMA TailWaits ==
  ASSUME WaitsInv, queue # <<>>, queue' = Tail(queue), UNCHANGED <<cycles, next_id, t_pending>>,
         worker' = "callback" => Known(t_active)'
  PROVE  WaitsInv'
<1> PICK q, p : q = queue /\ p = Tail(queue) OBVIOUS
<1>0. q \in Seq(Handler) /\ queue' = p BY DEF WaitsInv
<1>1. p \in Seq(Handler) /\ \A k \in DOMAIN p : k + 1 \in DOMAIN q /\ p[k] = q[k + 1]
  BY <1>0, TailAt
<1>2. \A w : Known(w) => Known(w)' BY DEF Known, TWait, T!Issued
<1>3. \A w \in t_pending' : Known(w)' BY <1>2 DEF WaitsInv
<1>4. \A k \in DOMAIN p : p[k].kind = "wait" => Known(p[k].body)'
  <2> SUFFICES ASSUME NEW k \in DOMAIN p, p[k].kind = "wait" PROVE Known(p[k].body)' OBVIOUS
  <2>1. Known(p[k].body) BY <1>1 DEF WaitsInv
  <2> QED BY <1>2, <2>1
<1>5. queue' \in Seq(Handler)' BY <1>0, <1>1 DEF Handler, TTask, TWait
<1> QED BY <1>0, <1>3, <1>4, <1>5 DEF WaitsInv

\* What is left of the queue keeps its tasks.
LEMMA TailTasks ==
  ASSUME WaitsInv, TasksInv, queue # <<>>, queue' = Tail(queue), Head(queue).kind # "task",
         UNCHANGED <<task, generation, stopped, cancelled, next_id, call>>,
         worker # "task", worker' # "task"
  PROVE  TasksInv'
<1> PICK q, p : q = queue /\ p = Tail(queue) OBVIOUS
<1>0. q \in Seq(Handler) /\ queue' = p BY DEF WaitsInv
<1>1. /\ DOMAIN p \subseteq Nat
      /\ \A k \in DOMAIN p : k + 1 \in DOMAIN q /\ p[k] = q[k + 1]
  BY <1>0, TailAt
<1>2. \A t : TaskOK(t) => TaskOK(t)' BY DEF TaskOK, T!Issued
<1>3. \A k \in DOMAIN p : p[k].kind = "task" => TaskOK(p[k].body)'
  <2> SUFFICES ASSUME NEW k \in DOMAIN p, p[k].kind = "task" PROVE TaskOK(p[k].body)' OBVIOUS
  <2>1. TaskOK(p[k].body) BY <1>1 DEF TasksInv
  <2> QED BY <1>2, <2>1
<1>4. ASSUME NEW k \in DOMAIN p, NEW l \in DOMAIN p, p[k].kind = "task", p[l].kind = "task",
             p[k].body.client = p[l].body.client, p[k].body.client # NoCaller
      PROVE  k = l
  <2>1. k + 1 \in DOMAIN q /\ l + 1 \in DOMAIN q /\ p[k] = q[k + 1] /\ p[l] = q[l + 1] BY <1>1
  <2>2. k + 1 = l + 1 BY <1>4, <2>1 DEF TasksInv
  <2> QED BY <1>1, <2>2
<1>5. \A k \in DOMAIN p : p[k].kind = "task" /\ p[k].body.client = task.client => task.client = NoCaller
  BY DEF TasksInv
<1>6. generation' \in Nat /\ task' \in TTask' BY DEF TasksInv, TTask
<1>7. task'.client = NoCaller BY DEF TasksInv
<1> QED BY <1>0, <1>3, <1>4, <1>5, <1>6, <1>7 DEF TasksInv

\* on_wait for a wait that is stale: dropped.
LEMMA DropWaitStep ==
  ASSUME TimerInv, T!DropWait
  PROVE  TimerInv'
<1>a. EntriesInv /\ WaitsInv /\ OneInv /\ TasksInv /\ ToldInv BY DEF TimerInv
<1>b. /\ worker = "idle" /\ queue # <<>> /\ Head(queue).kind = "wait"
      /\ T!Stale(Head(queue).body) /\ queue' = Tail(queue)
      /\ UNCHANGED <<t_started, stopped, generation, worker, task, t_active, t_pending,
                     entries, cancelled, cycles, next_id, call, removed, refused>>
  BY DEF T!DropWait, T!schedVars, T!workVars, T!timerVars
<1>d. T!Issued' = T!Issued BY <1>b DEF T!Issued
<1>1. EntriesInv' BY <1>a, <1>b DEF EntriesInv, T!Issued
<1>2. WaitsInv' BY <1>a, <1>b, TailWaits
<1>3. OneInv'
  <2> SUFFICES ASSUME NEW i \in entries', NEW w, w = Cur(i)' PROVE Once(w)'
    BY OneFrom
  <2>1. i \in entries /\ w = Cur(i) BY <1>b DEF Cur
  <2>2. Head(queue).body # w
    <3>1. i \notin cancelled BY <1>a, <2>1 DEF EntriesInv
    <3>2. w.id = i /\ w.cycle = cycles[i] BY <2>1 DEF Cur
    <3> QED BY <1>b, <3>1, <3>2 DEF T!Stale
  <2>3. Once(w) /\ ~Calls(w) /\ ~Calls(w)' BY <1>a, <1>b, <2>1 DEF OneInv, Calls
  <2> QED BY <1>a, <1>b, <2>2, <2>3, OnceTail
<1>4. TasksInv' BY <1>a, <1>b, TailTasks
<1>5. ToldInv' BY <1>a, <1>b, <1>d, ToldKept
<1> QED BY <1>1, <1>2, <1>3, <1>4, <1>5 DEF TimerInv

\* on_wait for the present wait of a timer: its callback begins.
LEMMA CallbackBeginsStep ==
  ASSUME TimerInv, T!CallbackBegins
  PROVE  TimerInv'
<1>a. EntriesInv /\ WaitsInv /\ OneInv /\ TasksInv /\ ToldInv BY DEF TimerInv
<1>b. /\ worker = "idle" /\ queue # <<>> /\ Head(queue).kind = "wait"
      /\ ~T!Stale(Head(queue).body) /\ queue' = Tail(queue)
      /\ worker' = "callback" /\ t_active' = Head(queue).body
      /\ UNCHANGED <<t_started, stopped, generation, task, t_pending,
                     entries, cancelled, cycles, next_id, call, removed, refused>>
  BY DEF T!CallbackBegins, T!schedVars, T!timerVars
<1>d. T!Issued' = T!Issued BY <1>b DEF T!Issued
<1>1. EntriesInv' BY <1>a, <1>b DEF EntriesInv, T!Issued
<1>2. WaitsInv'
  <2> PICK h : h = Head(queue) OBVIOUS
  <2>1. 1 \in DOMAIN queue /\ queue[1] = h BY <1>a, <1>b, TailAt DEF WaitsInv
  <2>2. Known(h.body) BY <1>a, <1>b, <2>1 DEF WaitsInv
  <2>3. Known(t_active)' BY <1>b, <2>2 DEF Known, TWait, T!Issued
  <2> QED BY <1>a, <1>b, <2>3, TailWaits
<1>3. OneInv'
  <2> SUFFICES ASSUME NEW i \in entries', NEW w, w = Cur(i)' PROVE Once(w)'
    BY OneFrom
  <2>1. i \in entries /\ w = Cur(i) BY <1>b DEF Cur
  <2>2. Once(w) /\ ~Calls(w) BY <1>a, <1>b, <2>1 DEF OneInv, Calls
  <2>3. Calls(w)' <=> Head(queue).kind = "wait" /\ Head(queue).body = w BY <1>b DEF Calls
  <2> QED BY <1>a, <1>b, <2>2, <2>3, OnceTail
<1>4. TasksInv' BY <1>a, <1>b, TailTasks
<1>5. ToldInv'
  <2>1. t_active'.id \notin cancelled BY <1>b DEF T!Stale
  <2>2. t_active'.id \notin removed' BY <1>a, <1>b, <2>1 DEF ToldInv
  <2>3. \A c \in TimerCaller :
          call'[c].pc = "done" /\ call'[c].op = "remove" => call'[c].id # t_active'.id
    BY <1>a, <1>b, <2>1 DEF ToldInv
  <2> QED BY <1>a, <1>b, <1>d, <2>2, <2>3 DEF ToldInv
<1> QED BY <1>1, <1>2, <1>3, <1>4, <1>5 DEF TimerInv

\* The worker takes a posted operation.
LEMMA TakeTaskStep ==
  ASSUME TimerInv, T!TakeTask
  PROVE  TimerInv'
<1>a. EntriesInv /\ WaitsInv /\ OneInv /\ TasksInv /\ ToldInv BY DEF TimerInv
<1>b. /\ worker = "idle" /\ queue # <<>> /\ Head(queue).kind = "task"
      /\ worker' = "task" /\ task' = Head(queue).body /\ queue' = Tail(queue)
      /\ UNCHANGED <<t_started, stopped, generation, t_active, t_pending,
                     entries, cancelled, cycles, next_id, call, removed, refused>>
  BY DEF T!TakeTask, T!schedVars, T!timerVars
<1>d. T!Issued' = T!Issued BY <1>b DEF T!Issued
<1>1. EntriesInv' BY <1>a, <1>b DEF EntriesInv, T!Issued
<1>2. WaitsInv' BY <1>a, <1>b, TailWaits
<1>3. OneInv'
  <2> SUFFICES ASSUME NEW i \in entries', NEW w, w = Cur(i)' PROVE Once(w)'
    BY OneFrom
  <2>1. i \in entries /\ w = Cur(i) BY <1>b DEF Cur
  <2>2. Once(w) /\ ~Calls(w) /\ ~Calls(w)' BY <1>a, <1>b, <2>1 DEF OneInv, Calls
  <2> QED BY <1>a, <1>b, <2>2, OnceTail
<1>4. TasksInv'
  <2> PICK q, p, h : q = queue /\ p = Tail(queue) /\ h = Head(queue) OBVIOUS
  <2>0. q \in Seq(Handler) /\ queue' = p BY <1>a, <1>b DEF WaitsInv
  <2>1. /\ h \in Handler /\ 1 \in DOMAIN q /\ q[1] = h /\ DOMAIN p \subseteq 1..Len(p)
        /\ Len(p) \in Nat
        /\ \A k \in DOMAIN p : k + 1 \in DOMAIN q /\ p[k] = q[k + 1]
    BY <1>b, <2>0, TailAt
  <2>2. \A t : TaskOK(t) => TaskOK(t)' BY <1>b DEF TaskOK, T!Issued
  <2>3. \A k \in DOMAIN p : p[k].kind = "task" => TaskOK(p[k].body)'
    <3> SUFFICES ASSUME NEW k \in DOMAIN p, p[k].kind = "task" PROVE TaskOK(p[k].body)'
      OBVIOUS
    <3>1. TaskOK(p[k].body) BY <1>a, <2>1 DEF TasksInv
    <3> QED BY <2>2, <3>1
  <2>4. TaskOK(task)'
    <3>1. TaskOK(h.body) BY <1>a, <1>b, <2>1 DEF TasksInv
    <3>2. TaskOK(h.body)' BY <2>2, <3>1
    <3> QED BY <1>b, <3>2 DEF TaskOK
  <2>5. ASSUME NEW k \in DOMAIN p, NEW l \in DOMAIN p, p[k].kind = "task", p[l].kind = "task",
               p[k].body.client = p[l].body.client, p[k].body.client # NoCaller
        PROVE  k = l
    <3>1. k + 1 \in DOMAIN q /\ l + 1 \in DOMAIN q /\ p[k] = q[k + 1] /\ p[l] = q[l + 1]
      BY <2>1
    <3>2. k + 1 = l + 1 BY <1>a, <2>5, <3>1 DEF TasksInv
    <3> QED BY <2>1, <3>2
  <2>6. ASSUME NEW k \in DOMAIN p, p[k].kind = "task", p[k].body.client = h.body.client
        PROVE  h.body.client = NoCaller
    <3>1. k + 1 \in DOMAIN q /\ k + 1 # 1 /\ p[k] = q[k + 1] BY <2>1
    <3> QED BY <1>a, <1>b, <2>1, <2>6, <3>1 DEF TasksInv
  <2>7. generation' \in Nat /\ task' \in TTask'
    <3>1. h.body \in TTask BY <1>b, <2>1 DEF Handler
    <3> QED BY <1>a, <1>b, <3>1 DEF TasksInv, TTask
  <2> QED BY <1>b, <2>0, <2>3, <2>4, <2>5, <2>6, <2>7 DEF TasksInv
<1>5. ToldInv' BY <1>a, <1>b, <1>d, ToldKept
<1> QED BY <1>1, <1>2, <1>3, <1>4, <1>5 DEF TimerInv

\* A wait expires and is queued.
LEMMA ExpireStep ==
  ASSUME TimerInv, NEW x \in t_pending, T!Expire(x)
  PROVE  TimerInv'
<1> PICK h : h = [kind |-> "wait", body |-> x] OBVIOUS
<1>a. EntriesInv /\ WaitsInv /\ OneInv /\ TasksInv /\ ToldInv BY DEF TimerInv
<1>b. /\ worker = "idle" /\ t_pending' = t_pending \ {x} /\ queue' = Append(queue, h)
      /\ UNCHANGED <<t_started, stopped, generation, worker, task, t_active,
                     entries, cancelled, cycles, next_id, call, removed, refused>>
  BY DEF T!Expire, T!schedVars, T!workVars
<1>c. Known(x) BY <1>a DEF WaitsInv
<1>d. T!Issued' = T!Issued BY <1>b DEF T!Issued
<1> PICK q, p : q = queue /\ p = Append(queue, h) OBVIOUS
<1>e. /\ queue' = p /\ p \in Seq(Handler)
      /\ DOMAIN p = DOMAIN q \cup {Len(q) + 1} /\ Len(q) + 1 \notin DOMAIN q
      /\ p[Len(q) + 1] = h /\ \A k \in DOMAIN q : p[k] = q[k]
  <2>1. q \in Seq(Handler) BY <1>a DEF WaitsInv
  <2>2. h \in Handler BY <1>c DEF Handler, Known
  <2> QED BY <1>b, <2>1, <2>2, AppendAt
<1>1. EntriesInv' BY <1>a, <1>b DEF EntriesInv, T!Issued
<1>2. WaitsInv'
  <2>1. \A w : Known(w) => Known(w)' BY <1>b DEF Known, TWait, T!Issued
  <2>2. \A k \in DOMAIN p : p[k].kind = "wait" => Known(p[k].body)'
    <3> SUFFICES ASSUME NEW k \in DOMAIN p, p[k].kind = "wait" PROVE Known(p[k].body)'
      OBVIOUS
    <3>1. Known(p[k].body) BY <1>a, <1>c, <1>e DEF WaitsInv
    <3> QED BY <2>1, <3>1
  <2>3. queue' \in Seq(Handler)' BY <1>e DEF Handler, TTask, TWait
  <2>4. \A w \in t_pending' : Known(w)' BY <1>a, <1>b, <2>1 DEF WaitsInv
  <2>5. worker' # "callback" BY <1>b
  <2> QED BY <1>e, <2>2, <2>3, <2>4, <2>5 DEF WaitsInv
<1>3. OneInv'
  <2> SUFFICES ASSUME NEW i \in entries', NEW w, w = Cur(i)' PROVE Once(w)'
    BY OneFrom
  <2>1. i \in entries /\ w = Cur(i) BY <1>b DEF Cur
  <2>2. Once(w) /\ ~Calls(w) /\ ~Calls(w)' BY <1>a, <1>b, <2>1 DEF OneInv, Calls
  <2>3. \A k \in DOMAIN q : QueuedAt(k, w)' <=> QueuedAt(k, w) BY <1>e DEF QueuedAt
  <2>4. QueuedAt(Len(q) + 1, w)' <=> w = x BY <1>e DEF QueuedAt
  <2>5. Queued(w)' <=> Queued(w) \/ w = x BY <1>e, <2>3, <2>4 DEF Queued
  <2>6. w = x => \A k \in DOMAIN q : ~QueuedAt(k, w) BY <2>2 DEF Once, Queued
  <2>7. \A k, l \in DOMAIN q : QueuedAt(k, w) /\ QueuedAt(l, w) => k = l BY <2>2 DEF Once
  <2>8. \A k, l \in DOMAIN queue' : QueuedAt(k, w)' /\ QueuedAt(l, w)' => k = l
    BY <1>e, <2>3, <2>4, <2>6, <2>7
  <2>9. w \in t_pending' <=> w \in t_pending /\ w # x BY <1>b
  <2> QED BY <2>2, <2>5, <2>8, <2>9 DEF Once
<1>4. TasksInv'
  <2>1. \A t : TaskOK(t) => TaskOK(t)' BY <1>b DEF TaskOK, T!Issued
  <2>2. \A k \in DOMAIN p : p[k].kind = "task" => k \in DOMAIN q /\ p[k] = q[k] BY <1>e
  <2>3. \A k \in DOMAIN p : p[k].kind = "task" => TaskOK(p[k].body)'
    <3> SUFFICES ASSUME NEW k \in DOMAIN p, p[k].kind = "task" PROVE TaskOK(p[k].body)'
      OBVIOUS
    <3>1. TaskOK(p[k].body) BY <1>a, <2>2 DEF TasksInv
    <3> QED BY <2>1, <3>1
  <2>4. generation' \in Nat /\ task' \in TTask' BY <1>a, <1>b DEF TasksInv, TTask
  <2>5. task'.client = NoCaller BY <1>a, <1>b DEF TasksInv
  <2>6. \A k, l \in DOMAIN p :
          p[k].kind = "task" /\ p[l].kind = "task"
            /\ p[k].body.client = p[l].body.client /\ p[k].body.client # NoCaller => k = l
    BY <1>a, <2>2 DEF TasksInv
  <2> QED BY <1>b, <1>e, <2>3, <2>4, <2>5, <2>6 DEF TasksInv
<1>5. ToldInv' BY <1>a, <1>b, <1>d, ToldKept
<1> QED BY <1>1, <1>2, <1>3, <1>4, <1>5 DEF TimerInv

\* A callback operates on timers itself.
LEMMA CallbackOperatesStep ==
  ASSUME TimerInv, T!TimerAssumption, T!CallbackOperates
  PROVE  TimerInv'
<1>a. EntriesInv /\ WaitsInv /\ OneInv /\ TasksInv /\ ToldInv BY DEF TimerInv
<1>b. /\ worker = "callback"
      /\ UNCHANGED <<t_started, generation, stopped, worker, task, t_active, queue, call,
                     removed, refused>>
  BY DEF T!CallbackOperates, T!schedVars, T!workVars
<1>c. Effect
  <2>1. PICK op \in T!Ops : \E i \in T!Targets(op) : \E r \in 0..MaxId : T!Do(op, i, r)
    BY DEF T!CallbackOperates
  <2>2. PICK i \in T!Targets(op), r \in 0..MaxId : T!Do(op, i, r) BY <2>1
  <2>3. r \in Nat BY DEF T!TimerAssumption
  <2>4. op = "remove" => i \in T!Issued BY DEF T!Targets
  <2> QED BY <1>a, <2>2, <2>3, <2>4, DoEffect
<1>d. Grows BY <1>a, <1>c, EffectGrows
<1>1. EntriesInv' BY <1>a, <1>b, <1>c, EffectEntries
<1>2. WaitsInv' BY <1>a, <1>b, <1>c, <1>1, EffectWaits
<1>3. OneInv' BY <1>a, <1>b, <1>c, EffectOneInside DEF Calls
<1>4. TasksInv' BY <1>a, <1>b, <1>d, TasksKept DEF Grows
<1>5. ToldInv' BY <1>a, <1>b, <1>d, ToldKept DEF Grows
<1> QED BY <1>1, <1>2, <1>3, <1>4, <1>5 DEF TimerInv

\* The callback returns, and its timer is armed again or removed.
LEMMA CallbackEndsStep ==
  ASSUME TimerInv, T!TimerAssumption, T!CallbackEnds
  PROVE  TimerInv'
<1>a. EntriesInv /\ WaitsInv /\ OneInv /\ TasksInv /\ ToldInv BY DEF TimerInv
<1>b. /\ worker = "callback" /\ worker' = "idle" /\ T!AfterCallback(t_active.id)
      /\ UNCHANGED <<t_started, generation, stopped, task, queue, call, removed, refused>>
  BY DEF T!CallbackEnds, T!schedVars
<1>c. /\ Known(t_active)
      /\ \/ Same /\ T!Stale(t_active)
         \/ t_active.id \in T!Ids /\ (Arms(t_active.id) \/ Drops(t_active.id))
  <2>1. Known(t_active) BY <1>a, <1>b DEF WaitsInv
  <2> QED BY <1>a, <1>b, <2>1, AfterEffect
<1>e. Effect BY <1>c DEF Effect
<1>d. Grows BY <1>a, <1>e, EffectGrows
<1>1. EntriesInv' BY <1>a, <1>b, <1>e, EffectEntries
<1>2. WaitsInv' BY <1>a, <1>b, <1>e, <1>1, EffectWaits
<1>3. OneInv'
  <2>0. \A w : ~Calls(w)' BY <1>b DEF Calls
  <2>1. CASE Same /\ T!Stale(t_active)
    <3> SUFFICES ASSUME NEW i \in entries', NEW w, w = Cur(i)' PROVE Once(w)'
      BY OneFrom
    <3>1. w = Cur(i) /\ i \in entries /\ t_pending' = t_pending
      BY <2>1 DEF Same, T!timerVars, Cur
    <3>2. ~Calls(w)
      <4>1. i \notin cancelled BY <1>a, <3>1 DEF EntriesInv
      <4>2. w.id = i /\ w.cycle = cycles[i] BY <3>1 DEF Cur
      <4> QED BY <2>1, <4>1, <4>2 DEF T!Stale, Calls
    <3>3. Once(w) BY <1>a, <3>1 DEF OneInv
    <3> QED BY <1>b, <2>0, <3>1, <3>2, <3>3, OnceKept
  <2>2. CASE t_active.id \in T!Ids /\ (Arms(t_active.id) \/ Drops(t_active.id))
    <3> PICK j : j = t_active.id OBVIOUS
    <3>1. \A w : w.id # j => ~Calls(w) BY DEF Calls
    <3> QED BY <1>a, <1>b, <2>0, <2>2, <3>1, EffectOne
  <2> QED BY <1>c, <2>1, <2>2
<1>4. TasksInv' BY <1>a, <1>b, <1>d, TasksKept DEF Grows
<1>5. ToldInv' BY <1>a, <1>b, <1>d, ToldKept DEF Grows
<1> QED BY <1>1, <1>2, <1>3, <1>4, <1>5 DEF TimerInv

\* A posted operation is run and its caller answered.
LEMMA RunTaskStep ==
  ASSUME TimerInv, T!TimerAssumption, T!RunTask
  PROVE  TimerInv'
<1>a. EntriesInv /\ WaitsInv /\ OneInv /\ TasksInv /\ ToldInv BY DEF TimerInv
<1>b. /\ worker = "task" /\ worker' = "idle" /\ task' = T!NoTask
      /\ UNCHANGED <<t_started, generation, stopped, t_active, queue, removed>>
  BY DEF T!RunTask, T!schedVars
<1> PICK t : t = task OBVIOUS
<1>c. PICK r \in 0..MaxId :
        /\ T!Perform(t, r)
        /\ call' = IF t.client = NoCaller THEN call
                   ELSE [call EXCEPT ![t.client].pc = "done", ![t.client].result = r]
        /\ refused' = IF t.client = NoCaller /\ t.op = "add" /\ r # 0
                      THEN refused \cup {r} ELSE refused
  BY DEF T!RunTask
<1>t. t \in TTask /\ TaskOK(t) /\ r \in Nat BY <1>a, <1>b DEF TasksInv, T!TimerAssumption
<1>e. /\ Effect
      /\ t.op = "add" /\ r # 0 => r \in T!Issued' /\ t.cycle = generation
      /\ t.op = "remove" => t.id \in cancelled'
  <2>1. CASE t.cycle # generation /\ r = 0 /\ UNCHANGED T!timerVars
    <3>1. t.op = "remove" => t.id \in cancelled BY <1>t, <2>1 DEF TaskOK
    <3> QED BY <2>1, <3>1 DEF Effect, Same, T!timerVars
  <2>2. CASE t.cycle = generation /\ T!Do(t.op, t.id, r)
    <3>1. t.op = "remove" => t.id \in T!Issued BY <1>t DEF TaskOK
    <3> QED BY <1>a, <1>t, <2>2, <3>1, DoEffect
  <2> QED BY <1>c, <2>1, <2>2 DEF T!Perform
<1>d. Grows BY <1>a, <1>e, EffectGrows
<1>f. /\ t.client # NoCaller => t.client \in TimerCaller /\ call[t.client].pc = "wait"
                                /\ call[t.client].op = t.op /\ call[t.client].id = t.id
      /\ t.client = NoCaller => t.cycle # generation \/ stopped
  BY <1>t DEF TaskOK, TTask
<1>1. EntriesInv' BY <1>a, <1>b, <1>e, EffectEntries
<1>2. WaitsInv' BY <1>a, <1>b, <1>e, <1>1, EffectWaits
<1>3. OneInv' BY <1>a, <1>b, <1>e, EffectOneInside DEF Calls
<1>4. TasksInv'
  <2>1. ASSUME NEW u, TaskOK(u), u.client = NoCaller \/ u.client # t.client PROVE TaskOK(u)'
    <3>1. u.client # NoCaller => u.client \in TimerCaller /\ call'[u.client] = call[u.client]
      BY <1>a, <1>c, <1>f, <2>1 DEF ToldInv, TaskOK
    <3> QED BY <1>b, <1>d, <2>1, <3>1 DEF TaskOK, Grows
  <2>2. \A k \in DOMAIN queue : queue[k].kind = "task" =>
          queue[k].body.client = NoCaller \/ queue[k].body.client # t.client
    BY <1>a DEF TasksInv
  <2>3. \A k \in DOMAIN queue' : queue'[k].kind = "task" => TaskOK(queue[k].body)'
    BY <1>a, <1>b, <2>1, <2>2 DEF TasksInv
  <2>4. generation' \in Nat /\ task' \in TTask' /\ task'.client = NoCaller
    BY <1>a, <1>b DEF TasksInv, TTask, T!NoTask, T!Ops
  <2> QED BY <1>a, <1>b, <2>3, <2>4 DEF TasksInv
<1>5. ToldInv'
  <2>t. call' \in [TimerCaller -> [pc : {"idle", "check", "post", "wait", "done"},
                                   op : T!Ops, id : Nat, result : Nat]]
    BY <1>a, <1>c, <1>f, <1>t DEF ToldInv
  <2>1. ASSUME NEW c \in TimerCaller, c # t.client PROVE call'[c] = call[c]
    BY <1>a, <1>c, <2>1 DEF ToldInv
  <2>2. t.client # NoCaller => /\ call'[t.client].op = t.op /\ call'[t.client].id = t.id
                               /\ call'[t.client].pc = "done" /\ call'[t.client].result = r
    BY <1>a, <1>c, <1>f DEF ToldInv
  <2>o. t.client = NoCaller => \A c \in TimerCaller : call'[c] = call[c] BY <1>c
  <2>3. ASSUME NEW c \in TimerCaller, call'[c].pc # "idle", call'[c].op = "remove"
        PROVE  call'[c].id \in T!Issued'
    <3>1. CASE call'[c] = call[c] BY <1>a, <1>d, <2>3, <3>1 DEF ToldInv, Grows
    <3>2. CASE c = t.client /\ t.client # NoCaller
      <4>1. t.id \in T!Issued BY <1>t, <2>2, <2>3, <3>2 DEF TaskOK
      <4> QED BY <1>d, <2>2, <3>2, <4>1 DEF Grows
    <3> QED BY <2>1, <2>o, <3>1, <3>2
  <2>4. ASSUME NEW c \in TimerCaller, call'[c].pc = "done", call'[c].op = "remove"
        PROVE  call'[c].id \in cancelled'
    <3>1. CASE call'[c] = call[c] BY <1>a, <1>d, <2>4, <3>1 DEF ToldInv, Grows
    <3>2. CASE c = t.client /\ t.client # NoCaller BY <1>e, <2>2, <2>4, <3>2
    <3> QED BY <2>1, <2>o, <3>1, <3>2
  <2>5. ASSUME NEW c \in TimerCaller, call'[c].op = "add", call'[c].result # 0
        PROVE  call'[c].result \in T!Issued'
    <3>1. CASE call'[c] = call[c] BY <1>a, <1>d, <2>5, <3>1 DEF ToldInv, Grows
    <3>2. CASE c = t.client /\ t.client # NoCaller BY <1>e, <2>2, <2>5, <3>2
    <3> QED BY <2>1, <2>o, <3>1, <3>2
  <2>6. removed' \subseteq cancelled' BY <1>a, <1>b, <1>d DEF ToldInv, Grows
  <2>7. refused' \subseteq T!Issued' /\ (stopped' \/ refused' \subseteq cancelled')
    <3>1. refused \subseteq T!Issued' BY <1>a, <1>d DEF ToldInv, Grows
    <3>2. stopped \/ refused \subseteq cancelled' BY <1>a, <1>d DEF ToldInv, Grows
    <3>3. CASE t.client = NoCaller /\ t.op = "add" /\ r # 0
      <4>1. stopped BY <1>e, <1>f, <3>3
      <4> QED BY <1>b, <1>c, <1>e, <3>1, <3>3, <4>1
    <3>4. CASE ~(t.client = NoCaller /\ t.op = "add" /\ r # 0)
      BY <1>b, <1>c, <3>1, <3>2, <3>4
    <3> QED BY <3>3, <3>4
  <2>8. worker' # "callback" BY <1>b
  <2> QED BY <2>t, <2>3, <2>4, <2>5, <2>6, <2>7, <2>8 DEF ToldInv
<1> QED BY <1>1, <1>2, <1>3, <1>4, <1>5 DEF TimerInv

-----------------------------------------------------------------------------
(* The callers' steps.                                                     *)

\* What a step of a caller that leaves the queue alone has to keep.
LEMMA CallerKept ==
  ASSUME TimerInv,
         UNCHANGED <<t_started, generation, stopped, worker, task, t_active, queue, t_pending,
                     entries, cancelled, cycles, next_id>>,
         \A c \in TimerCaller : call[c].pc = "wait" => call'[c] = call[c]
  PROVE  /\ EntriesInv' /\ WaitsInv' /\ OneInv' /\ TasksInv'
         /\ T!Issued' = T!Issued
<1>a. EntriesInv /\ WaitsInv /\ OneInv /\ TasksInv BY DEF TimerInv
<1>d. T!Issued' = T!Issued BY DEF T!Issued
<1>1. EntriesInv' BY <1>a DEF EntriesInv, T!Issued
<1>2. WaitsInv' BY <1>a, WaitsKept
<1>3. OneInv' BY <1>a, OneInvKept DEF Calls
<1>4. TasksInv' BY <1>a, <1>d, TasksKept
<1> QED BY <1>d, <1>1, <1>2, <1>3, <1>4

\* A caller enters invoke.
LEMMA BeginStep ==
  ASSUME TimerInv, T!TimerAssumption, NEW c \in TimerCaller, NEW op \in T!Ops,
         NEW i \in T!Targets(op), T!Begin(c, op, i)
  PROVE  TimerInv'
<1>a. EntriesInv /\ ToldInv BY DEF TimerInv
<1>b. /\ call[c].pc = "idle"
      /\ call' = [call EXCEPT ![c] = [pc |-> "check", op |-> op, id |-> i, result |-> 0]]
      /\ UNCHANGED <<t_started, generation, stopped, worker, task, t_active, queue, t_pending,
                     entries, cancelled, cycles, next_id, removed, refused>>
  BY DEF T!Begin, T!schedVars, T!workVars, T!timerVars
<1>c. \A x \in TimerCaller : call[x].pc = "wait" => call'[x] = call[x]
  BY <1>a, <1>b DEF ToldInv
<1>d. EntriesInv' /\ WaitsInv' /\ OneInv' /\ TasksInv' /\ T!Issued' = T!Issued
  BY <1>b, <1>c, CallerKept
<1>e. i \in Nat /\ (op = "remove" => i \in T!Issued)
  BY <1>a, IssuedIds DEF T!Targets, T!Ids
<1>1. ToldInv'
  <2>1. call' \in [TimerCaller -> [pc : {"idle", "check", "post", "wait", "done"},
                                   op : T!Ops, id : Nat, result : Nat]]
    BY <1>a, <1>b, <1>e DEF ToldInv
  <2>2. /\ call'[c].pc = "check" /\ call'[c].op = op /\ call'[c].id = i /\ call'[c].result = 0
        /\ \A x \in TimerCaller : x # c => call'[x] = call[x]
    BY <1>a, <1>b DEF ToldInv
  <2> QED BY <1>a, <1>b, <1>d, <1>e, <2>1, <2>2 DEF ToldInv
<1> QED BY <1>1, <1>d DEF TimerInv

\* invoke: the check for a scheduler that was stopped.
LEMMA CheckStep ==
  ASSUME TimerInv, NEW c \in TimerCaller, T!Check(c)
  PROVE  TimerInv'
<1>a. EntriesInv /\ ToldInv BY DEF TimerInv
<1>b. /\ call[c].pc = "check"
      /\ \/ call' = [call EXCEPT ![c].pc = "post"]
         \/ call' = [call EXCEPT ![c] = T!Idle]
      /\ UNCHANGED <<t_started, generation, stopped, worker, task, t_active, queue, t_pending,
                     entries, cancelled, cycles, next_id, removed, refused>>
  BY DEF T!Check, T!schedVars, T!workVars, T!timerVars
<1>c. \A x \in TimerCaller : call[x].pc = "wait" => call'[x] = call[x]
  BY <1>a, <1>b DEF ToldInv
<1>d. EntriesInv' /\ WaitsInv' /\ OneInv' /\ TasksInv' /\ T!Issued' = T!Issued
  BY <1>b, <1>c, CallerKept
<1>1. ToldInv'
  <2>1. call' \in [TimerCaller -> [pc : {"idle", "check", "post", "wait", "done"},
                                   op : T!Ops, id : Nat, result : Nat]]
    BY <1>a, <1>b DEF ToldInv, T!Idle, T!Ops
  <2>2. /\ \/ /\ call'[c].pc = "post" /\ call'[c].op = call[c].op
              /\ call'[c].id = call[c].id /\ call'[c].result = call[c].result
           \/ call'[c].pc = "idle" /\ call'[c].op = "add" /\ call'[c].result = 0
        /\ \A x \in TimerCaller : x # c => call'[x] = call[x]
    BY <1>a, <1>b DEF ToldInv, T!Idle
  <2> QED BY <1>a, <1>b, <1>d, <2>1, <2>2 DEF ToldInv
<1> QED BY <1>1, <1>d DEF TimerInv

\* The caller takes its answer.
LEMMA ReturnStep ==
  ASSUME TimerInv, NEW c \in TimerCaller, T!Return(c)
  PROVE  TimerInv'
<1>a. EntriesInv /\ ToldInv BY DEF TimerInv
<1>b. /\ call[c].pc = "done"
      /\ removed' = IF call[c].op = "remove" THEN removed \cup {call[c].id} ELSE removed
      /\ call' = [call EXCEPT ![c] = T!Idle]
      /\ UNCHANGED <<t_started, generation, stopped, worker, task, t_active, queue, t_pending,
                     entries, cancelled, cycles, next_id, refused>>
  BY DEF T!Return, T!schedVars, T!workVars, T!timerVars
<1>c. \A x \in TimerCaller : call[x].pc = "wait" => call'[x] = call[x]
  BY <1>a, <1>b DEF ToldInv
<1>d. EntriesInv' /\ WaitsInv' /\ OneInv' /\ TasksInv' /\ T!Issued' = T!Issued
  BY <1>b, <1>c, CallerKept
<1>1. ToldInv'
  <2>1. call' \in [TimerCaller -> [pc : {"idle", "check", "post", "wait", "done"},
                                   op : T!Ops, id : Nat, result : Nat]]
    BY <1>a, <1>b DEF ToldInv, T!Idle, T!Ops
  <2>2. /\ call'[c].pc = "idle" /\ call'[c].op = "add" /\ call'[c].result = 0
        /\ \A x \in TimerCaller : x # c => call'[x] = call[x]
    BY <1>a, <1>b DEF ToldInv, T!Idle
  <2>3. /\ removed' \subseteq cancelled
        /\ worker = "callback" => t_active.id \notin removed'
    BY <1>a, <1>b DEF ToldInv
  <2> QED BY <1>a, <1>b, <1>d, <2>1, <2>2, <2>3 DEF ToldInv
<1> QED BY <1>1, <1>d DEF TimerInv

\* The operation is posted.
LEMMA PostStep ==
  ASSUME TimerInv, T!TimerAssumption, NEW c \in TimerCaller, T!Post(c)
  PROVE  TimerInv'
<1>a. EntriesInv /\ WaitsInv /\ OneInv /\ TasksInv /\ ToldInv BY DEF TimerInv
<1> PICK t : t = [client |-> c, op |-> call[c].op, id |-> call[c].id, cycle |-> generation]
  OBVIOUS
<1> PICK h : h = [kind |-> "task", body |-> t] OBVIOUS
<1>b. /\ call[c].pc = "post" /\ queue' = Append(queue, h)
      /\ call' = [call EXCEPT ![c].pc = "wait"]
      /\ UNCHANGED <<t_started, generation, stopped, worker, task, t_active, t_pending,
                     entries, cancelled, cycles, next_id, removed, refused>>
  BY DEF T!Post, T!schedVars, T!workVars, T!timerVars
<1>d. T!Issued' = T!Issued BY <1>b DEF T!Issued
<1>n. c # NoCaller BY DEF T!TimerAssumption
<1>f. /\ call'[c].pc = "wait" /\ call'[c].op = call[c].op
      /\ call'[c].id = call[c].id /\ call'[c].result = call[c].result
      /\ \A x \in TimerCaller : x # c => call'[x] = call[x]
      /\ call[c].op \in T!Ops /\ call[c].id \in Nat
  BY <1>a, <1>b DEF ToldInv
<1>t. t \in TTask /\ t.client = c /\ t.op = call[c].op /\ t.id = call[c].id /\ t.cycle = generation
  BY <1>a, <1>f DEF TTask, TasksInv
<1> PICK q, p : q = queue /\ p = Append(queue, h) OBVIOUS
<1>e. /\ queue' = p /\ p \in Seq(Handler)
      /\ DOMAIN p = DOMAIN q \cup {Len(q) + 1} /\ Len(q) + 1 \notin DOMAIN q
      /\ p[Len(q) + 1] = h /\ \A k \in DOMAIN q : p[k] = q[k]
  <2>1. q \in Seq(Handler) BY <1>a DEF WaitsInv
  <2>2. h \in Handler BY <1>t DEF Handler
  <2> QED BY <1>b, <2>1, <2>2, AppendAt
<1>1. EntriesInv' BY <1>a, <1>b DEF EntriesInv, T!Issued
<1>w. \A k \in DOMAIN p : p[k].kind = "wait" => k \in DOMAIN q /\ p[k] = q[k] BY <1>e
<1>2. WaitsInv'
  <2>1. \A w : Known(w) => Known(w)' BY <1>b DEF Known, TWait, T!Issued
  <2>2. \A k \in DOMAIN p : p[k].kind = "wait" => Known(p[k].body)'
    <3> SUFFICES ASSUME NEW k \in DOMAIN p, p[k].kind = "wait" PROVE Known(p[k].body)'
      OBVIOUS
    <3>1. Known(p[k].body) BY <1>a, <1>w DEF WaitsInv
    <3> QED BY <2>1, <3>1
  <2>3. queue' \in Seq(Handler)' BY <1>e DEF Handler, TTask, TWait
  <2>4. \A w \in t_pending' : Known(w)' BY <1>a, <1>b, <2>1 DEF WaitsInv
  <2>5. worker' = "callback" => Known(t_active)'
    <3>1. worker = "callback" => Known(t_active) BY <1>a DEF WaitsInv
    <3> QED BY <1>b, <3>1 DEF Known, TWait, T!Issued
  <2> QED BY <1>e, <2>2, <2>3, <2>4, <2>5 DEF WaitsInv
<1>3. OneInv'
  <2> SUFFICES ASSUME NEW i \in entries', NEW w, w = Cur(i)' PROVE Once(w)'
    BY OneFrom
  <2>1. i \in entries /\ w = Cur(i) BY <1>b DEF Cur
  <2>2. Once(w) BY <1>a, <2>1 DEF OneInv
  <2>3. Calls(w)' <=> Calls(w) BY <1>b DEF Calls
  <2>4. \A k : (k \in DOMAIN queue' /\ QueuedAt(k, w)') <=> (k \in DOMAIN queue /\ QueuedAt(k, w))
    BY <1>e, <1>w DEF QueuedAt
  <2>5. Queued(w)' <=> Queued(w) BY <2>4 DEF Queued
  <2>6. \A k, l \in DOMAIN queue' : QueuedAt(k, w)' /\ QueuedAt(l, w)' => k = l
    BY <2>2, <2>4 DEF Once
  <2> QED BY <1>b, <2>2, <2>3, <2>5, <2>6 DEF Once
<1>4. TasksInv'
  <2>1. ASSUME NEW u, TaskOK(u) PROVE TaskOK(u)' /\ u.client # c
    <3>1. u.client # c BY <1>b, <1>n, <2>1 DEF TaskOK
    <3>2. u.client # NoCaller => call'[u.client] = call[u.client]
      BY <1>a, <1>b, <2>1, <3>1 DEF ToldInv, TaskOK
    <3> QED BY <1>b, <1>d, <2>1, <3>1, <3>2 DEF TaskOK
  <2>2. TaskOK(t)'
    <3>1. t.op = "remove" => t.id \in T!Issued BY <1>a, <1>b, <1>t DEF ToldInv
    <3>2. generation \in Nat BY <1>a DEF TasksInv
    <3> QED BY <1>b, <1>d, <1>f, <1>n, <1>t, <3>1, <3>2 DEF TaskOK
  <2>3. \A k \in DOMAIN q : q[k].kind = "task" => TaskOK(q[k].body) BY <1>a DEF TasksInv
  <2>4. \A k \in DOMAIN p : p[k].kind = "task" => TaskOK(p[k].body)'
    <3> SUFFICES ASSUME NEW k \in DOMAIN p, p[k].kind = "task" PROVE TaskOK(p[k].body)'
      OBVIOUS
    <3>1. CASE k \in DOMAIN q
      <4>1. TaskOK(q[k].body) /\ p[k] = q[k] BY <1>e, <2>3, <3>1
      <4> QED BY <2>1, <4>1
    <3>2. CASE k = Len(q) + 1
      <4>1. p[k].body = t BY <1>e, <3>2
      <4> QED BY <2>2, <4>1
    <3> QED BY <1>e, <3>1, <3>2
  <2>5. \A k \in DOMAIN q : q[k].kind = "task" => q[k].body.client # c BY <2>1, <2>3
  <2>6. ASSUME NEW k \in DOMAIN p, NEW l \in DOMAIN p, p[k].kind = "task", p[l].kind = "task",
               p[k].body.client = p[l].body.client, p[k].body.client # NoCaller
        PROVE  k = l
    <3>1. CASE k \in DOMAIN q /\ l \in DOMAIN q BY <1>a, <1>e, <2>6, <3>1 DEF TasksInv
    <3>2. CASE k = Len(q) + 1 \/ l = Len(q) + 1 BY <1>e, <1>t, <2>5, <2>6, <3>2
    <3> QED BY <1>e, <3>1, <3>2
  <2>7. task.client # c
    <3>1. CASE worker = "task" BY <1>a, <2>1, <3>1 DEF TasksInv
    <3>2. CASE worker # "task" BY <1>a, <1>n, <3>2 DEF TasksInv
    <3> QED BY <3>1, <3>2
  <2>8. \A k \in DOMAIN p : p[k].kind = "task" /\ p[k].body.client = task.client
                            => task.client = NoCaller
    BY <1>a, <1>e, <1>t, <2>7 DEF TasksInv
  <2>9. worker' = "task" => TaskOK(task)'
    <3>1. worker = "task" => TaskOK(task) BY <1>a DEF TasksInv
    <3>3. PICK u : u = task OBVIOUS
    <3>4. worker' = "task" => TaskOK(u)' BY <1>b, <2>1, <3>1, <3>3
    <3> QED BY <1>b, <3>3, <3>4 DEF TaskOK
  <2>10. generation' \in Nat /\ task' \in TTask' BY <1>a, <1>b DEF TasksInv, TTask
  <2> QED BY <1>a, <1>b, <1>e, <2>4, <2>6, <2>8, <2>9, <2>10 DEF TasksInv
<1>5. ToldInv'
  <2>1. call' \in [TimerCaller -> [pc : {"idle", "check", "post", "wait", "done"},
                                   op : T!Ops, id : Nat, result : Nat]]
    BY <1>a, <1>b DEF ToldInv
  <2> QED BY <1>a, <1>b, <1>d, <1>f, <2>1 DEF ToldInv
<1> QED BY <1>1, <1>2, <1>3, <1>4, <1>5 DEF TimerInv

\* A task whose caller has given up.
Orphan(t, c) == IF t.client = c THEN [t EXCEPT !.client = NoCaller] ELSE t

\* A task whose caller has given up is still a task.
LEMMA OrphanTask ==
  ASSUME NEW t \in TTask, NEW c
  PROVE  /\ Orphan(t, c) \in TTask
         /\ Orphan(t, c).op = t.op /\ Orphan(t, c).id = t.id /\ Orphan(t, c).cycle = t.cycle
         /\ Orphan(t, c).client = IF t.client = c THEN NoCaller ELSE t.client
BY DEF Orphan, TTask

\* invoke: the scheduler stopped, and the caller is refused.
LEMMA GiveUpStep ==
  ASSUME TimerInv, T!TimerAssumption, NEW c \in TimerCaller, T!GiveUp(c)
  PROVE  TimerInv'
<1>a. EntriesInv /\ WaitsInv /\ OneInv /\ TasksInv /\ ToldInv BY DEF TimerInv
<1>b. /\ stopped /\ task' = Orphan(task, c) /\ call' = [call EXCEPT ![c] = T!Idle]
      /\ refused' = IF call[c].op = "add" /\ call[c].result # 0
                    THEN refused \cup {call[c].result} ELSE refused
      /\ UNCHANGED <<t_started, generation, stopped, worker, t_active, t_pending,
                     entries, cancelled, cycles, next_id, removed>>
  BY DEF T!GiveUp, T!schedVars, T!timerVars, Orphan
<1>q. queue' = [k \in DOMAIN queue |->
                  IF queue[k].kind = "task" THEN [queue[k] EXCEPT !.body = Orphan(@, c)]
                  ELSE queue[k]]
  BY DEF T!GiveUp, Orphan
<1>d. T!Issued' = T!Issued BY <1>b DEF T!Issued
<1>n. c # NoCaller BY DEF T!TimerAssumption
<1> PICK q, p : q = queue /\ p = queue' OBVIOUS
<1>s. q \in Seq(Handler) BY <1>a DEF WaitsInv
<1>k. \A k \in DOMAIN q : q[k] \in Handler
  <2>1. Len(q) \in Nat /\ q \in [1..Len(q) -> Handler] BY <1>s
  <2> QED BY <2>1
<1>e. /\ DOMAIN p = DOMAIN q
      /\ \A k \in DOMAIN q : p[k] \in Handler /\ p[k].kind = q[k].kind
      /\ \A k \in DOMAIN q : q[k].kind = "task" => q[k].body \in TTask /\ p[k].body = Orphan(q[k].body, c)
      /\ \A k \in DOMAIN q : q[k].kind # "task" => p[k] = q[k]
  <2> SUFFICES ASSUME NEW k \in DOMAIN q
               PROVE  /\ p[k] \in Handler /\ p[k].kind = q[k].kind
                      /\ q[k].kind = "task" => q[k].body \in TTask /\ p[k].body = Orphan(q[k].body, c)
                      /\ q[k].kind # "task" => p[k] = q[k]
    BY <1>q
  <2>1. CASE q[k].kind = "task"
    <3>1. q[k] \in [kind : {"task"}, body : TTask] BY <1>k, <2>1 DEF Handler
    <3>2. p[k] = [q[k] EXCEPT !.body = Orphan(@, c)] BY <1>q, <2>1
    <3>3. Orphan(q[k].body, c) \in TTask BY <3>1, OrphanTask
    <3>4. p[k] = [kind |-> "task", body |-> Orphan(q[k].body, c)] BY <3>1, <3>2
    <3> QED BY <2>1, <3>1, <3>3, <3>4 DEF Handler
  <2>2. CASE q[k].kind # "task"
    <3>1. p[k] = q[k] BY <1>q, <2>2
    <3> QED BY <1>k, <2>2, <3>1
  <2> QED BY <2>1, <2>2
<1>p. p \in Seq(Handler)
  <2>1. DOMAIN q = 1..Len(q) /\ Len(q) \in Nat BY <1>s
  <2>2. p = [k \in DOMAIN q |-> p[k]] BY <1>q
  <2>3. p \in [1..Len(q) -> Handler] BY <1>e, <2>1, <2>2
  <2> QED BY <2>1, <2>3, SeqDef
<1>f. /\ call'[c] = T!Idle /\ \A x \in TimerCaller : x # c => call'[x] = call[x]
      /\ call' \in [TimerCaller -> [pc : {"idle", "check", "post", "wait", "done"},
                                    op : T!Ops, id : Nat, result : Nat]]
  BY <1>a, <1>b DEF ToldInv, T!Idle, T!Ops
<1>1. EntriesInv' BY <1>a, <1>b DEF EntriesInv, T!Issued
<1>w. \A k \in DOMAIN p : p[k].kind = "wait" => k \in DOMAIN q /\ p[k] = q[k] BY <1>e
<1>2. WaitsInv'
  <2>1. \A w : Known(w) => Known(w)' BY <1>b DEF Known, TWait, T!Issued
  <2>2. \A k \in DOMAIN p : p[k].kind = "wait" => Known(p[k].body)'
    <3> SUFFICES ASSUME NEW k \in DOMAIN p, p[k].kind = "wait" PROVE Known(p[k].body)'
      OBVIOUS
    <3>1. Known(p[k].body) BY <1>a, <1>w DEF WaitsInv
    <3> QED BY <2>1, <3>1
  <2>3. queue' \in Seq(Handler)' BY <1>p DEF Handler, TTask, TWait
  <2>4. \A w \in t_pending' : Known(w)' BY <1>a, <1>b, <2>1 DEF WaitsInv
  <2>5. worker' = "callback" => Known(t_active)'
    <3>1. worker = "callback" => Known(t_active) BY <1>a DEF WaitsInv
    <3> QED BY <1>b, <3>1 DEF Known, TWait, T!Issued
  <2> QED BY <2>2, <2>3, <2>4, <2>5 DEF WaitsInv
<1>3. OneInv'
  <2> SUFFICES ASSUME NEW i \in entries', NEW w, w = Cur(i)' PROVE Once(w)'
    BY OneFrom
  <2>1. i \in entries /\ w = Cur(i) BY <1>b DEF Cur
  <2>2. Once(w) BY <1>a, <2>1 DEF OneInv
  <2>3. Calls(w)' <=> Calls(w) BY <1>b DEF Calls
  <2>4. \A k : (k \in DOMAIN queue' /\ QueuedAt(k, w)') <=> (k \in DOMAIN queue /\ QueuedAt(k, w))
    BY <1>e, <1>w DEF QueuedAt
  <2>5. Queued(w)' <=> Queued(w) BY <2>4 DEF Queued
  <2>6. \A k, l \in DOMAIN queue' : QueuedAt(k, w)' /\ QueuedAt(l, w)' => k = l
    BY <2>2, <2>4 DEF Once
  <2> QED BY <1>b, <2>2, <2>3, <2>5, <2>6 DEF Once
<1>4. TasksInv'
  <2>1. ASSUME NEW t \in TTask, TaskOK(t) PROVE TaskOK(Orphan(t, c))'
    <3> PICK u : u = Orphan(t, c) OBVIOUS
    <3>1. /\ u.op = t.op /\ u.id = t.id /\ u.cycle = t.cycle
          /\ u.client = IF t.client = c THEN NoCaller ELSE t.client
      BY OrphanTask
    <3>2. u.client # NoCaller => u.client = t.client /\ call'[u.client] = call[u.client]
      BY <1>f, <2>1, <3>1 DEF TaskOK
    <3>3. TaskOK(u)' BY <1>b, <1>d, <2>1, <3>1, <3>2 DEF TaskOK
    <3> QED BY <3>3
  <2>2. \A k \in DOMAIN q : q[k].kind = "task" => TaskOK(q[k].body) BY <1>a DEF TasksInv
  <2>3. \A k \in DOMAIN p : p[k].kind = "task" => TaskOK(p[k].body)'
    <3> SUFFICES ASSUME NEW k \in DOMAIN p, p[k].kind = "task" PROVE TaskOK(p[k].body)'
      OBVIOUS
    <3>1. q[k].kind = "task" /\ q[k].body \in TTask /\ p[k].body = Orphan(q[k].body, c)
      BY <1>e
    <3>2. TaskOK(Orphan(q[k].body, c))' BY <1>e, <2>1, <2>2, <3>1
    <3> QED BY <3>1, <3>2
  <2>t. task \in TTask /\ task' \in TTask
        /\ task'.client = IF task.client = c THEN NoCaller ELSE task.client
    BY <1>a, <1>b, OrphanTask DEF TasksInv
  <2>4. worker' = "task" => TaskOK(task)'
    <3> PICK t : t = task OBVIOUS
    <3>1. worker = "task" => TaskOK(t) /\ t \in TTask BY <1>a DEF TasksInv
    <3> PICK u : u = Orphan(t, c) OBVIOUS
    <3>2. worker = "task" => TaskOK(u)' BY <2>1, <3>1
    <3> QED BY <1>b, <3>2 DEF TaskOK
  <2>5. \A k \in DOMAIN p : p[k].kind = "task" =>
          q[k].kind = "task" /\ p[k].body.client = IF q[k].body.client = c THEN NoCaller
                                                    ELSE q[k].body.client
    BY <1>e, OrphanTask
  <2>6. ASSUME NEW k \in DOMAIN p, NEW l \in DOMAIN p, p[k].kind = "task", p[l].kind = "task",
               p[k].body.client = p[l].body.client, p[k].body.client # NoCaller
        PROVE  k = l
    BY <1>a, <1>e, <2>5, <2>6 DEF TasksInv
  <2>7. \A k \in DOMAIN p : p[k].kind = "task" /\ p[k].body.client = task'.client
                            => task'.client = NoCaller
    <3> SUFFICES ASSUME NEW k \in DOMAIN p, p[k].kind = "task",
                        p[k].body.client = task'.client, task'.client # NoCaller
                 PROVE  FALSE
      OBVIOUS
    <3>1. /\ k \in DOMAIN q /\ q[k].kind = "task"
          /\ q[k].body.client = task.client /\ task.client # NoCaller
      BY <1>e, <2>5, <2>t
    <3> QED BY <1>a, <3>1 DEF TasksInv
  <2>8. generation' \in Nat /\ task' \in TTask' BY <1>a, <1>b, <2>t DEF TasksInv, TTask
  <2>9. worker' # "task" => task'.client = NoCaller BY <1>a, <1>b, <2>t DEF TasksInv
  <2> QED BY <2>3, <2>4, <2>6, <2>7, <2>8, <2>9 DEF TasksInv
<1>5. ToldInv'
  <2>1. call'[c].pc = "idle" /\ call'[c].op = "add" /\ call'[c].result = 0
    BY <1>f DEF T!Idle
  <2>2. refused' \subseteq T!Issued' /\ stopped' BY <1>a, <1>b, <1>d DEF ToldInv
  <2>3. \A x \in TimerCaller :
          /\ call'[x].pc # "idle" /\ call'[x].op = "remove" => call'[x].id \in T!Issued'
          /\ call'[x].pc = "done" /\ call'[x].op = "remove" =>
               /\ call'[x].id \in cancelled'
               /\ worker' = "callback" => call'[x].id # t_active'.id
          /\ call'[x].op = "add" /\ call'[x].result # 0 => call'[x].result \in T!Issued'
    <3> SUFFICES ASSUME NEW x \in TimerCaller
                 PROVE  /\ call'[x].pc # "idle" /\ call'[x].op = "remove" => call'[x].id \in T!Issued'
                        /\ call'[x].pc = "done" /\ call'[x].op = "remove" =>
                             /\ call'[x].id \in cancelled'
                             /\ worker' = "callback" => call'[x].id # t_active'.id
                        /\ call'[x].op = "add" /\ call'[x].result # 0 => call'[x].result \in T!Issued'
      OBVIOUS
    <3>1. CASE x = c BY <2>1, <3>1
    <3>2. CASE x # c
      <4>1. call'[x] = call[x] BY <1>f, <3>2
      <4> QED BY <1>a, <1>b, <1>d, <4>1 DEF ToldInv
    <3> QED BY <3>1, <3>2
  <2> QED BY <1>a, <1>b, <1>f, <2>2, <2>3 DEF ToldInv
<1> QED BY <1>1, <1>2, <1>3, <1>4, <1>5 DEF TimerInv

-----------------------------------------------------------------------------
(* The invariant of the timers.                                            *)

\* No timer is registered at first.
LEMMA TimerInit ==
  ASSUME T!TimerAssumption, T!Init
  PROVE  TimerInv
<1>i. /\ t_started = FALSE /\ generation = 0 /\ stopped = FALSE /\ worker = "none"
      /\ task = T!NoTask /\ queue = <<>> /\ t_pending = {} /\ entries = {} /\ cancelled = {}
      /\ cycles = [i \in T!Ids |-> 0] /\ next_id = 1
      /\ call = [c \in TimerCaller |-> T!Idle] /\ removed = {} /\ refused = {}
  BY DEF T!Init
<1>1. EntriesInv BY <1>i DEF EntriesInv, T!Issued, T!TimerAssumption
<1>2. WaitsInv BY <1>i DEF WaitsInv
<1>3. OneInv BY <1>i DEF OneInv
<1>4. TasksInv
  <2>1. task \in TTask /\ task.client = NoCaller BY <1>i DEF TTask, T!NoTask, T!Ops
  <2>2. DOMAIN queue = {} BY <1>i
  <2> QED BY <1>i, <2>1, <2>2 DEF TasksInv
<1>5. ToldInv
  <2>1. call \in [TimerCaller -> [pc : {"idle", "check", "post", "wait", "done"},
                                  op : T!Ops, id : Nat, result : Nat]]
    BY <1>i DEF T!Idle, T!Ops
  <2>2. \A c \in TimerCaller : call[c].pc = "idle" /\ call[c].op = "add" /\ call[c].result = 0
    BY <1>i DEF T!Idle
  <2> QED BY <1>i, <2>1, <2>2 DEF ToldInv
<1> QED BY <1>1, <1>2, <1>3, <1>4, <1>5 DEF TimerInv

\* While the terminals run, the timers rest.
LEMMA TimerRests ==
  ASSUME TimerInv, UNCHANGED timerVars
  PROVE  TimerInv'
<1>a. EntriesInv /\ WaitsInv /\ OneInv /\ TasksInv /\ ToldInv BY DEF TimerInv
<1>b. UNCHANGED <<t_started, generation, stopped, worker, task, t_active, queue, t_pending,
                  entries, cancelled, cycles, next_id, call, removed, refused>>
  BY DEF timerVars
<1>1. EntriesInv' /\ WaitsInv' /\ OneInv' /\ TasksInv' /\ T!Issued' = T!Issued
  BY <1>b, CallerKept
<1>2. ToldInv' BY <1>a, <1>b, <1>1, ToldKept
<1> QED BY <1>1, <1>2 DEF TimerInv

\* Every step of the timers keeps the invariant.
LEMMA TimerStepInv ==
  ASSUME TimerInv, T!TimerAssumption, T!Next
  PROVE  TimerInv'
<1>1. CASE \E ok \in BOOLEAN : T!Start(ok) BY <1>1, StartStep
<1>2. CASE T!Stop BY <1>2, StopStep
<1>3. CASE T!StopJoined BY <1>3, StopJoinedStep
<1>4. CASE \E w \in t_pending : T!Expire(w) BY <1>4, ExpireStep
<1>5. CASE T!TakeTask BY <1>5, TakeTaskStep
<1>6. CASE T!RunTask BY <1>6, RunTaskStep
<1>7. CASE T!DropWait BY <1>7, DropWaitStep
<1>8. CASE T!CallbackBegins BY <1>8, CallbackBeginsStep
<1>9. CASE T!CallbackEnds BY <1>9, CallbackEndsStep
<1>10. CASE T!CallbackOperates BY <1>10, CallbackOperatesStep
<1>11. CASE T!WorkerEnds BY <1>11, WorkerEndsStep
<1>12. ASSUME NEW c \in TimerCaller, \E op \in T!Ops : \E i \in T!Targets(op) : T!Begin(c, op, i)
       PROVE  TimerInv'
  BY <1>12, BeginStep
<1>13. ASSUME NEW c \in TimerCaller, T!Caller(c) PROVE TimerInv'
  BY <1>13, CheckStep, PostStep, ReturnStep, GiveUpStep DEF T!Caller
<1> QED
  BY <1>1, <1>2, <1>3, <1>4, <1>5, <1>6, <1>7, <1>8, <1>9, <1>10, <1>11, <1>12, <1>13
  DEF T!Next, T!Worker

\* The invariant of the timers holds in every behaviour of the services.
LEMMA TimerAlways == ServicesSpec => []TimerInv
<1> USE ServicesAssumption
<1>1. ServicesInit => TimerInv BY TimerInit DEF ServicesInit
<1>2. TimerInv /\ [ServicesNext]_<<service, vars, timerVars>> => TimerInv'
  <2>1. ASSUME TimerInv, ConsoleStep PROVE TimerInv' BY <2>1, TimerRests DEF ConsoleStep
  <2>2. ASSUME TimerInv, TimerStep PROVE TimerInv' BY <2>2, TimerStepInv DEF TimerStep
  <2>3. ASSUME TimerInv, UNCHANGED <<service, vars, timerVars>> PROVE TimerInv'
    BY <2>3, TimerRests
  <2> QED BY <2>1, <2>2, <2>3 DEF ServicesNext
<1> QED BY <1>1, <1>2, PTL DEF ServicesSpec

\* The timers' part of CallbacksOwned and of OnePending.
LEMMA TimerOwned ==
  ASSUME TimerInv
  PROVE  T!CallbackOwned
BY DEF TimerInv, ToldInv, T!CallbackOwned

\* The present wait of a registered timer is the one that is live.
LEMMA TimerLive ==
  ASSUME TimerInv, T!TimerAssumption
  PROVE  T!OneLiveWait
<1>a. EntriesInv /\ WaitsInv /\ OneInv BY DEF TimerInv
<1>1. ASSUME NEW i \in T!Ids, NEW w \in TWait
      PROVE  w.id = i /\ ~T!Stale(w) <=> w = Cur(i) /\ i \notin cancelled
  BY DEF T!Stale, Cur, TWait
<1>2. ASSUME NEW i \in T!Ids, NEW w
      PROVE  w \in T!LiveWaits(i) <=> /\ w \in t_pending \/ Queued(w)
                                      /\ w = Cur(i) /\ i \notin cancelled
  <2>1. w \in t_pending => w \in TWait BY <1>a DEF WaitsInv, Known
  <2>2. Queued(w) => w \in TWait BY <1>a DEF WaitsInv, Known, Queued, QueuedAt
  <2>3. w \in T!LiveWaits(i) <=> (w \in t_pending \/ Queued(w)) /\ w.id = i /\ ~T!Stale(w)
    BY DEF T!LiveWaits, Queued, QueuedAt
  <2> QED BY <1>1, <2>1, <2>2, <2>3
<1>3. ASSUME NEW i \in entries
      PROVE  IF worker = "callback" /\ t_active.id = i /\ ~T!Stale(t_active)
             THEN T!LiveWaits(i) = {} ELSE \E w \in T!LiveWaits(i) : T!LiveWaits(i) = {w}
  <2> PICK x : x = Cur(i) OBVIOUS
  <2>1. i \in T!Ids /\ i \notin cancelled
    <3>1. entries \subseteq T!Ids BY <1>a, IssuedIds
    <3> QED BY <1>a, <3>1 DEF EntriesInv
  <2>2. Once(x) BY <1>a DEF OneInv
  <2>3. Calls(x) <=> worker = "callback" /\ t_active.id = i /\ ~T!Stale(t_active)
    <3>1. worker = "callback" => t_active \in TWait BY <1>a DEF WaitsInv, Known
    <3> QED BY <1>1, <2>1, <3>1 DEF Calls
  <2>4. \A w : w \in T!LiveWaits(i) <=> w = x /\ (x \in t_pending \/ Queued(x))
    BY <1>2, <2>1
  <2>5. CASE Calls(x)
    <3>1. x \notin t_pending /\ ~Queued(x) BY <2>2, <2>5 DEF Once
    <3>2. T!LiveWaits(i) = {} BY <2>4, <3>1
    <3> QED BY <2>3, <2>5, <3>2
  <2>6. CASE ~Calls(x)
    <3>1. x \in t_pending \/ Queued(x) BY <2>2, <2>6 DEF Once
    <3>2. x \in T!LiveWaits(i) /\ T!LiveWaits(i) = {x} BY <2>4, <3>1
    <3>3. \E w \in T!LiveWaits(i) : T!LiveWaits(i) = {w} BY <3>2
    <3> QED BY <2>3, <2>6, <3>3
  <2> QED BY <2>5, <2>6
<1>4. \A i \in entries :
        LET n == IF worker = "callback" /\ t_active.id = i /\ ~T!Stale(t_active) THEN 0 ELSE 1
        IN \E S \in {T!LiveWaits(i)} : IF n = 0 THEN S = {} ELSE \E w \in S : S = {w}
  BY <1>3
<1>5. \A i \in T!Ids \ entries : T!LiveWaits(i) = {}
  <2> SUFFICES ASSUME NEW i \in T!Ids \ entries, NEW w \in T!LiveWaits(i) PROVE FALSE
    OBVIOUS
  <2>1. (w \in t_pending \/ Queued(w)) /\ w = Cur(i) /\ i \notin cancelled BY <1>2
  <2>2. Known(w) BY <1>a, <2>1 DEF WaitsInv, Queued, QueuedAt
  <2>3. i \in T!Issued BY <2>1, <2>2 DEF Known, Cur
  <2> QED BY <1>a, <2>1, <2>3 DEF EntriesInv
<1>6. ASSUME NEW k \in DOMAIN queue, NEW l \in DOMAIN queue, queue[k].kind = "wait",
             queue[k] = queue[l], ~T!Stale(queue[k].body)
      PROVE  k = l
  <2> PICK w : w = queue[k].body OBVIOUS
  <2> PICK i : i = w.id OBVIOUS
  <2>1. Known(w) BY <1>a, <1>6 DEF WaitsInv
  <2>2. i \in T!Ids /\ w \in TWait /\ i \in T!Issued BY <2>1 DEF Known, TWait
  <2>3. w = Cur(i) /\ i \notin cancelled BY <1>1, <1>6, <2>2
  <2>4. Once(w) BY <1>a, <2>2, <2>3 DEF EntriesInv, OneInv
  <2> QED BY <1>6, <2>4 DEF Once, QueuedAt
<1> QED BY <1>4, <1>5, <1>6, Zenon DEF T!OneLiveWait

-----------------------------------------------------------------------------
(* Terminals.                                                              *)

ConsoleTypes ==
  /\ started \in BOOLEAN /\ running \in BOOLEAN
  /\ thread \in {"off", "take", "lock", "greet", "complete", "input"}
  /\ event \in Event \cup {NoEvent} /\ events \in Seq(Event)
  /\ lock \in [Tty -> {"none", "thread", "cpu"}]
  /\ exists \subseteq Tty /\ listed \subseteq exists
  /\ endpoint \in [Tty -> {"none", "active", "closing"}]
  /\ gen \in [Tty -> Nat] /\ out \in [Tty -> Nat] /\ todo \in [Tty -> SUBSET Client]
  /\ owner \in [Client -> (Tty \X Nat) \cup {NoOwner}]
  /\ active \in [Client -> BOOLEAN] /\ ready \in [Client -> BOOLEAN]
  /\ reading \in [Client -> BOOLEAN]
  /\ pending \in [Client -> 0..Limit] /\ stream \in [Client -> Seq(Nat)]
  /\ ctl \in [pc : {"idle", "list", "drain", "stop", "join"},
              op : {"none", "create", "quiesce", "delete", "shutdown"},
              tty : Tty \cup {NoTty}]

\* Terminals live as long as the list says: the console thread works on an
\* event with the list in its hands, and the controller closes with it.
LifeInv ==
  /\ \A t \in Tty : /\ endpoint[t] # "none" => t \in exists
                    /\ endpoint[t] = "active" => started
  /\ ctl.pc \in {"list", "drain"} => ctl.tty \in exists
  /\ ctl.pc = "drain" => list_lock = "ctl"
  /\ thread \in {"greet", "complete", "input"} =>
       /\ list_lock = "thread" /\ event \in Event
       /\ EventTty \in listed /\ owner[event.client] = <<EventTty, gen[EventTty]>>
  /\ thread \in {"take", "off"} => event = NoEvent
  /\ \A c \in Client : owner[c] # NoOwner => owner[c][2] <= gen[owner[c][1]]

\* A connection that is open, as its terminal is.
Live(c) == active[c] /\ State(c) = "active"

\* The input buffer of a connection is used once.
InputInv ==
  /\ \A k, l \in DOMAIN events : events[k].client = events[l].client => k = l
  /\ \A k \in DOMAIN events : /\ ~reading[events[k].client]
                              /\ event.client # events[k].client
                              /\ owner[events[k].client] # NoOwner
  /\ event # NoEvent => ~reading[event.client] /\ owner[event.client] # NoOwner
  /\ \A c \in Client :
       Live(c) => reading[c] \/ event.client = c \/ \E k \in DOMAIN events : events[k].client = c
  /\ \A c \in Client : owner[c] = NoOwner => ~active[c] /\ ~reading[c]

\* A write that is held up holds the lock and serves its listeners; a
\* terminal that is created or deleted has no output.
TodoInv ==
  /\ \A t \in Tty :
       /\ todo[t] # {} => lock[t] # "none" /\ t \in exists
       /\ \A c \in todo[t] : owner[c][1] = t /\ ready[c]
       /\ t \in exists \ listed =>
            /\ ctl = [pc |-> "list", op |-> "create", tty |-> t]
            /\ out[t] = 0 /\ todo[t] = {}
  /\ ctl.pc = "drain" /\ ctl.op = "delete" => todo[ctl.tty] = {}
  /\ thread = "greet" => event.connected
  /\ thread = "input" => ~event.connected
  /\ thread = "complete" =>
       event.connected /\ lock[EventTty] = "thread" /\ todo[EventTty] = {}

\* The number of the last character a connection should have been sent.
Due(c) == IF todo[owner[c][1]] = {} \/ c \in todo[owner[c][1]]
          THEN out[owner[c][1]] ELSE out[owner[c][1]] + 1
NoGap(s) == \A i \in 1..(Len(s) - 1) : s[i + 1] = s[i] + 1

StreamInv ==
  /\ \A c \in Client :
       /\ NoGap(stream[c])
       /\ owner[c] = NoOwner => ~ready[c] /\ stream[c] = <<>>
       /\ Live(c) /\ ready[c] /\ (running \/ stream[c] # <<>>) => Seen(c) = Due(c)
       /\ Live(c) /\ ~ready[c] /\ ~(thread = "complete" /\ event.client = c) =>
            stream[c] = <<>>
  /\ thread = "complete" /\ active[event.client] =>
       stream[event.client] = Replayed(out[EventTty])

ConsoleInv == ConsoleTypes /\ LifeInv /\ InputInv /\ TodoInv /\ StreamInv

-----------------------------------------------------------------------------
(* What a step of the terminals keeps.                                     *)

\* A connection that was accepted has a terminal.
LEMMA OwnerType ==
  ASSUME ConsoleTypes, ConsoleAssumption, NEW c \in Client
  PROVE  /\ owner[c] # NoOwner <=> owner[c][1] \in Tty
         /\ owner[c] # NoOwner <=> owner[c][1] # NoTty
         /\ owner[c] = <<owner[c][1], owner[c][2]>> /\ owner[c][2] \in Nat
<1>1. owner[c] \in (Tty \X Nat) \cup {<<NoTty, 0>>} BY DEF ConsoleTypes, NoOwner
<1>2. NoTty \notin Tty BY DEF ConsoleAssumption
<1> QED BY <1>1, <1>2 DEF NoOwner

\* A connection is live when its endpoint is active.
LEMMA LiveDef ==
  ASSUME ConsoleTypes, ConsoleAssumption, NEW c \in Client
  PROVE  Live(c) <=> /\ active[c] /\ owner[c][1] \in Tty
                     /\ owner[c][2] = gen[owner[c][1]]
                     /\ endpoint[owner[c][1]] = "active"
BY OwnerType DEF Live, State, Current

\* Connections are closed and not opened.
LEMMA LiveLess ==
  ASSUME ConsoleTypes, ConsoleAssumption, owner' = owner, gen' = gen,
         \A c \in Client : active'[c] => active[c],
         \A t \in Tty : endpoint'[t] = "active" => endpoint[t] = "active"
  PROVE  \A c \in Client : Live(c)' => Live(c)
<1> SUFFICES ASSUME NEW c \in Client, Live(c)' PROVE Live(c) OBVIOUS
<1>1. /\ active'[c] /\ owner[c][1] # NoTty /\ owner[c][2] = gen[owner[c][1]]
      /\ endpoint'[owner[c][1]] = "active"
  BY DEF Live, State, Current
<1>2. owner[c][1] \in Tty BY <1>1, OwnerType
<1> QED BY <1>1, <1>2, LiveDef

\* terminals::cancel
LEMMA CancelFacts ==
  ASSUME ConsoleTypes, ConsoleAssumption, NEW S, Cancel(S)
  PROVE  /\ UNCHANGED <<owner, ready, stream>>
         /\ active' \in [Client -> BOOLEAN] /\ reading' \in [Client -> BOOLEAN]
         /\ pending' \in [Client -> 0..Limit]
         /\ \A c \in Client : /\ active'[c] <=> active[c] /\ c \notin S
                              /\ reading'[c] <=> reading[c] /\ c \notin S
<1>1. UNCHANGED <<owner, ready, stream>> BY DEF Cancel
<1>2. /\ active' = [c \in Client |-> active[c] /\ c \notin S]
      /\ reading' = [c \in Client |-> reading[c] /\ c \notin S]
      /\ pending' = [c \in Client |-> IF c \in S THEN 0 ELSE pending[c]]
  BY DEF Cancel
<1>3. active' \in [Client -> BOOLEAN] /\ reading' \in [Client -> BOOLEAN]
  BY <1>2 DEF ConsoleTypes
<1>4. pending' \in [Client -> 0..Limit]
  <2>1. 0 \in 0..Limit BY DEF ConsoleAssumption
  <2>2. \A c \in Client : pending[c] \in 0..Limit BY DEF ConsoleTypes
  <2> QED BY <1>2, <2>1, <2>2
<1>5. \A c \in Client : active'[c] <=> active[c] /\ c \notin S BY <1>2
<1>6. \A c \in Client : reading'[c] <=> reading[c] /\ c \notin S BY <1>2
<1> QED BY <1>1, <1>3, <1>4, <1>5, <1>6

\* terminals::enqueue
LEMMA EnqueueFacts ==
  ASSUME ConsoleTypes, ConsoleAssumption, NEW S, NEW ch \in Nat, Enqueue(S, ch),
         \A c \in S : pending[c] # Limit
  PROVE  /\ UNCHANGED <<owner, active, ready, reading>>
         /\ pending' \in [Client -> 0..Limit] /\ stream' \in [Client -> Seq(Nat)]
         /\ \A c \in Client : stream'[c] = IF c \in S THEN Append(stream[c], ch) ELSE stream[c]
<1>1. UNCHANGED <<owner, active, ready, reading>> BY DEF Enqueue
<1>2. pending' \in [Client -> 0..Limit]
  <2>1. \A c \in Client : pending[c] \in 0..Limit BY DEF ConsoleTypes
  <2>2. \A c \in Client : c \in S => pending[c] + 1 \in 0..Limit
    BY <2>1 DEF ConsoleAssumption
  <2> QED BY <2>1, <2>2 DEF Enqueue
<1>3. \A c \in Client : stream'[c] = IF c \in S THEN Append(stream[c], ch) ELSE stream[c]
  BY DEF Enqueue
<1>4. stream' \in [Client -> Seq(Nat)]
  <2>1. \A c \in Client : stream[c] \in Seq(Nat) BY DEF ConsoleTypes
  <2>2. \A c \in Client : Append(stream[c], ch) \in Seq(Nat) BY <2>1
  <2> QED BY <2>1, <2>2 DEF Enqueue
<1> QED BY <1>1, <1>2, <1>3, <1>4

\* vtty_io_complete
LEMMA CompleteFacts ==
  ASSUME ConsoleTypes, ConsoleAssumption, CompleteEvent
  PROVE  /\ UNCHANGED <<owner, active, pending, stream>> /\ event' = NoEvent
         /\ ready' \in [Client -> BOOLEAN] /\ reading' \in [Client -> BOOLEAN]
         /\ \A c \in Client :
              LET done == event # NoEvent /\ event.client = c /\ Live(c)
              IN /\ ready'[c] <=> ready[c] \/ (done /\ event.connected)
                 /\ reading'[c] <=> reading[c] \/ done
<1>1. CASE EventActive
  <2>1. event \in Event /\ event.client \in Client /\ event.connected \in BOOLEAN
    BY <1>1 DEF EventActive, ConsoleTypes, Event
  <2>2. Live(event.client) BY <1>1 DEF EventActive, Live
  <2>3. event # NoEvent BY <1>1 DEF EventActive
  <2>4. /\ ready' = [ready EXCEPT ![event.client] = @ \/ event.connected]
        /\ reading' = [reading EXCEPT ![event.client] = TRUE]
        /\ UNCHANGED <<owner, active, pending, stream>> /\ event' = NoEvent
    BY <1>1 DEF CompleteEvent
  <2>5. ready' \in [Client -> BOOLEAN] /\ reading' \in [Client -> BOOLEAN]
    BY <2>1, <2>4 DEF ConsoleTypes
  <2>6. \A c \in Client : /\ c # event.client => ready'[c] = ready[c] /\ reading'[c] = reading[c]
                          /\ c = event.client => ready'[c] = (ready[c] \/ event.connected)
                                                 /\ reading'[c] = TRUE
    BY <2>4 DEF ConsoleTypes
  <2> QED BY <2>2, <2>3, <2>4, <2>5, <2>6
<1>2. CASE ~EventActive
  <2>1. UNCHANGED chanVars /\ event' = NoEvent BY <1>2 DEF CompleteEvent
  <2>2. UNCHANGED <<owner, active, pending, stream, ready, reading>> BY <2>1 DEF chanVars
  <2>3. \A c : ~(event # NoEvent /\ event.client = c /\ Live(c))
    BY <1>2 DEF EventActive, Live
  <2>4. ready' \in [Client -> BOOLEAN] /\ reading' \in [Client -> BOOLEAN]
    BY <2>2 DEF ConsoleTypes
  <2> QED BY <2>1, <2>2, <2>3, <2>4
<1> QED BY <1>1, <1>2

\* Terminals, the list and the event stay.
LEMMA LifeKept ==
  ASSUME LifeInv, UNCHANGED <<started, thread, event, list_lock, ttyVars, owner, ctl>>
  PROVE  LifeInv'
BY DEF LifeInv, ttyVars, EventTty

\* Events stay; reads and connections may end, of those that are not live.
LEMMA InputKept ==
  ASSUME InputInv, ConsoleTypes, ConsoleAssumption, UNCHANGED <<event, events, owner>>,
         \A c \in Client : /\ Live(c)' => Live(c) /\ (reading[c] => reading'[c])
                           /\ reading'[c] => reading[c]
                           /\ active'[c] => active[c]
  PROVE  InputInv'
<1>1. \A k \in DOMAIN events : events[k].client \in Client
  <2>1. events \in Seq(Event) BY DEF ConsoleTypes
  <2>2. Len(events) \in Nat /\ events \in [1..Len(events) -> Event] BY <2>1
  <2>3. \A k \in DOMAIN events : events[k] \in Event BY <2>2
  <2> QED BY <2>3 DEF Event
<1>2. event # NoEvent => event.client \in Client BY DEF ConsoleTypes, Event
<1>3. \A k \in DOMAIN events : ~reading'[events[k].client] BY <1>1 DEF InputInv
<1>4. event # NoEvent => ~reading'[event.client] BY <1>2 DEF InputInv
<1>5. \A c \in Client : Live(c)' => reading'[c] \/ event.client = c
                                    \/ \E k \in DOMAIN events : events[k].client = c
  BY DEF InputInv
<1>6. \A c \in Client : owner[c] = NoOwner => ~active'[c] /\ ~reading'[c] BY DEF InputInv
<1> QED BY <1>3, <1>4, <1>5, <1>6 DEF InputInv

\* No write begins, goes on or ends.
LEMMA TodoKept ==
  ASSUME TodoInv, ConsoleTypes, ConsoleAssumption,
         UNCHANGED <<todo, lock, exists, listed, out>>,
         \/ thread' \in {"take", "lock", "off"}
         \/ thread' = thread /\ event' = event /\ (thread = "complete" => owner'[event.client] = owner[event.client]),
         ctl' = ctl \/ (ctl.pc # "list" /\ ctl'.pc # "drain"),
         \A c \in Client : /\ ready[c] => ready'[c]
                           /\ owner[c] # NoOwner => owner'[c] = owner[c]
  PROVE  TodoInv'
<1>1. \A t \in Tty : todo'[t] # {} => lock'[t] # "none" /\ t \in exists' BY DEF TodoInv
<1>2. ASSUME NEW t \in Tty, NEW c \in todo'[t] PROVE owner'[c][1] = t /\ ready'[c]
  <2>1. c \in Client BY <1>2 DEF ConsoleTypes
  <2>2. owner[c][1] = t /\ ready[c] BY <1>2 DEF TodoInv
  <2>3. owner[c] # NoOwner BY <2>1, <2>2, OwnerType
  <2> QED BY <2>1, <2>2, <2>3
<1>3. \A t \in Tty : t \in exists' \ listed' =>
        /\ ctl' = [pc |-> "list", op |-> "create", tty |-> t]
        /\ out'[t] = 0 /\ todo'[t] = {}
  BY DEF TodoInv
<1>4. ctl'.pc = "drain" /\ ctl'.op = "delete" => todo'[ctl'.tty] = {} BY DEF TodoInv
<1>5. /\ thread' = "greet" => event'.connected
      /\ thread' = "input" => ~event'.connected
  BY DEF TodoInv
<1>6. thread' = "complete" =>
        event'.connected /\ lock'[EventTty'] = "thread" /\ todo'[EventTty'] = {}
  BY DEF TodoInv, EventTty
<1> QED BY <1>1, <1>2, <1>3, <1>4, <1>5, <1>6 DEF TodoInv

\* Nothing is written, and no connection becomes live or ready.
LEMMA StreamKept ==
  ASSUME StreamInv, UNCHANGED <<out, todo, stream, ready, owner>>, running' => running,
         \A c \in Client : Live(c)' => Live(c),
         \/ thread' # "complete" /\ thread # "complete"
         \/ thread' = thread /\ event' = event /\ (active'[event.client] => active[event.client])
  PROVE  StreamInv'
BY DEF StreamInv, Due, Seen, EventTty

-----------------------------------------------------------------------------
(* The handlers of the context.                                            *)

\* The sequence of events.
LEMMA EventsAt ==
  ASSUME ConsoleTypes
  PROVE  \A k \in DOMAIN events : events[k] \in Event /\ events[k].client \in Client
<1>1. events \in Seq(Event) BY DEF ConsoleTypes
<1>2. Len(events) \in Nat /\ events \in [1..Len(events) -> Event] BY <1>1
<1>3. \A k \in DOMAIN events : events[k] \in Event BY <1>2
<1> QED BY <1>3 DEF Event

\* The peer has gone.
LEMMA DisconnectedStep ==
  ASSUME ConsoleInv, ConsoleAssumption, NEW c \in Client, Disconnected(c)
  PROVE  ConsoleInv'
<1>a. ConsoleTypes /\ LifeInv /\ InputInv /\ TodoInv /\ StreamInv BY DEF ConsoleInv
<1>b. /\ UNCHANGED <<started, running, thread, event, events, list_lock, lock, exists, listed,
                     endpoint, gen, out, todo, ctl>>
      /\ Cancel({c})
  BY DEF Disconnected, lifeVars, threadVars, ttyVars
<1>c. /\ UNCHANGED <<owner, ready, stream>>
      /\ active' \in [Client -> BOOLEAN] /\ reading' \in [Client -> BOOLEAN]
      /\ pending' \in [Client -> 0..Limit]
      /\ \A d \in Client : /\ active'[d] <=> active[d] /\ d \notin {c}
                           /\ reading'[d] <=> reading[d] /\ d \notin {c}
  BY <1>a, <1>b, CancelFacts
<1>d. \A d \in Client : Live(d)' => Live(d) BY <1>a, <1>b, <1>c, LiveLess
<1>1. ConsoleTypes' BY <1>a, <1>b, <1>c DEF ConsoleTypes
<1>2. LifeInv' BY <1>a, <1>b, <1>c, LifeKept DEF ttyVars
<1>3. InputInv'
  <2>1. \A d \in Client : Live(d)' => d # c BY <1>c DEF Live
  <2> QED BY <1>a, <1>b, <1>c, <1>d, <2>1, InputKept
<1>4. TodoInv' BY <1>a, <1>b, <1>c, TodoKept
<1>5. StreamInv'
  <2>1. thread = "complete" => event.client \in Client BY <1>a DEF LifeInv, Event
  <2> QED BY <1>a, <1>b, <1>c, <1>d, <2>1, StreamKept
<1> QED BY <1>1, <1>2, <1>3, <1>4, <1>5 DEF ConsoleInv

\* Output was sent.
LEMMA SentStep ==
  ASSUME ConsoleInv, ConsoleAssumption, NEW c \in Client, Sent(c)
  PROVE  ConsoleInv'
<1>a. ConsoleTypes /\ LifeInv /\ InputInv /\ TodoInv /\ StreamInv BY DEF ConsoleInv
<1>b. /\ UNCHANGED <<started, running, thread, event, events, list_lock, lock, exists, listed,
                     endpoint, gen, out, todo, ctl, owner, active, ready, reading, stream>>
      /\ \E n \in 1..pending[c] : pending' = [pending EXCEPT ![c] = @ - n]
  BY DEF Sent, lifeVars, threadVars, ttyVars
<1>c. pending' \in [Client -> 0..Limit]
  <2>1. pending[c] \in 0..Limit /\ Limit \in Nat BY <1>a DEF ConsoleTypes, ConsoleAssumption
  <2>2. PICK n \in 1..pending[c] : pending' = [pending EXCEPT ![c] = @ - n] BY <1>b
  <2>3. pending[c] - n \in 0..Limit BY <2>1
  <2> QED BY <1>a, <2>2, <2>3 DEF ConsoleTypes
<1>d. \A d \in Client : Live(d)' => Live(d) BY <1>a, <1>b, LiveLess
<1>1. ConsoleTypes' BY <1>a, <1>b, <1>c DEF ConsoleTypes
<1>2. LifeInv' BY <1>a, <1>b, LifeKept DEF ttyVars
<1>3. InputInv' BY <1>a, <1>b, <1>d, InputKept
<1>4. TodoInv' BY <1>a, <1>b, TodoKept
<1>5. StreamInv' BY <1>a, <1>b, <1>d, StreamKept
<1> QED BY <1>1, <1>2, <1>3, <1>4, <1>5 DEF ConsoleInv

\* Input was received, and is queued as an event.
LEMMA ReceivedStep ==
  ASSUME ConsoleInv, ConsoleAssumption, NEW c \in Client, Received(c)
  PROVE  ConsoleInv'
<1> PICK e : e = [client |-> c, connected |-> FALSE] OBVIOUS
<1>a. ConsoleTypes /\ LifeInv /\ InputInv /\ TodoInv /\ StreamInv BY DEF ConsoleInv
<1>b. /\ reading[c] /\ reading' = [reading EXCEPT ![c] = FALSE]
      /\ events' = IF State(c) = "active" THEN Append(events, e) ELSE events
      /\ UNCHANGED <<started, running, thread, event, list_lock, lock, exists, listed,
                     endpoint, gen, out, todo, ctl, owner, active, ready, pending, stream>>
  BY DEF Received, lifeVars, ttyVars
<1>c. /\ reading' \in [Client -> BOOLEAN] /\ ~reading'[c]
      /\ \A d \in Client : d # c => reading'[d] = reading[d]
  BY <1>a, <1>b DEF ConsoleTypes
<1>d. \A d \in Client : Live(d)' => Live(d) BY <1>a, <1>b, LiveLess
<1>e. e \in Event /\ e.client = c BY DEF Event
<1>s. events \in Seq(Event) BY <1>a DEF ConsoleTypes
<1> PICK q, p : q = events /\ p = Append(events, e) OBVIOUS
<1>p. /\ p \in Seq(Event)
      /\ DOMAIN p = DOMAIN q \cup {Len(q) + 1} /\ Len(q) + 1 \notin DOMAIN q
      /\ p[Len(q) + 1] = e /\ \A k \in DOMAIN q : p[k] = q[k]
  BY <1>e, <1>s, AppendAt
<1>1. ConsoleTypes' BY <1>a, <1>b, <1>c, <1>p DEF ConsoleTypes
<1>2. LifeInv' BY <1>a, <1>b, LifeKept DEF ttyVars
<1>3. InputInv'
  <2>1. \A k \in DOMAIN q : q[k].client # c /\ q[k].client \in Client
    BY <1>a, <1>b, EventsAt DEF InputInv
  <2>2. event.client # c
    <3>1. CASE event = NoEvent BY <3>1 DEF NoEvent, ConsoleAssumption
    <3>2. CASE event # NoEvent BY <1>a, <1>b, <3>2 DEF InputInv
    <3> QED BY <3>1, <3>2
  <2>3. event # NoEvent => event.client \in Client BY <1>a DEF ConsoleTypes, Event
  <2>4. owner[c] # NoOwner BY <1>a, <1>b DEF InputInv
  <2>5. event # NoEvent => ~reading'[event.client] /\ owner'[event.client] # NoOwner
    BY <1>a, <1>b, <1>c, <2>2, <2>3 DEF InputInv
  <2>6. \A d \in Client : owner'[d] = NoOwner => ~active'[d] /\ ~reading'[d]
    BY <1>a, <1>b, <1>c DEF InputInv
  <2>7. CASE State(c) = "active"
    <3>0. events' = p BY <1>b, <2>7
    <3>1. \A k, l \in DOMAIN p : p[k].client = p[l].client => k = l
      BY <1>a, <1>e, <1>p, <2>1 DEF InputInv
    <3>2. \A k \in DOMAIN p : /\ ~reading'[p[k].client] /\ event'.client # p[k].client
                              /\ owner'[p[k].client] # NoOwner
      BY <1>a, <1>b, <1>c, <1>e, <1>p, <2>1, <2>2, <2>4 DEF InputInv
    <3>3. ASSUME NEW d \in Client, Live(d)'
          PROVE  reading'[d] \/ event'.client = d \/ \E k \in DOMAIN p : p[k].client = d
      <4>1. CASE d = c BY <1>e, <1>p, <4>1
      <4>2. CASE d # c
        <5>1. reading[d] \/ event.client = d \/ \E k \in DOMAIN q : q[k].client = d
          BY <1>a, <1>d, <3>3 DEF InputInv
        <5> QED BY <1>b, <1>c, <1>p, <4>2, <5>1
      <4> QED BY <4>1, <4>2
    <3> QED BY <1>b, <2>5, <2>6, <3>0, <3>1, <3>2, <3>3 DEF InputInv
  <2>8. CASE State(c) # "active"
    <3>0. events' = q BY <1>b, <2>8
    <3>1. \A k, l \in DOMAIN q : q[k].client = q[l].client => k = l
      BY <1>a DEF InputInv
    <3>2. \A k \in DOMAIN q : /\ ~reading'[q[k].client] /\ event'.client # q[k].client
                              /\ owner'[q[k].client] # NoOwner
      BY <1>a, <1>b, <1>c, <2>1 DEF InputInv
    <3>3. ASSUME NEW d \in Client, Live(d)'
          PROVE  reading'[d] \/ event'.client = d \/ \E k \in DOMAIN q : q[k].client = d
      <4>1. d # c BY <1>d, <2>8, <3>3 DEF Live
      <4>2. reading[d] \/ event.client = d \/ \E k \in DOMAIN q : q[k].client = d
        BY <1>a, <1>d, <3>3 DEF InputInv
      <4> QED BY <1>b, <1>c, <4>1, <4>2
    <3> QED BY <1>b, <2>5, <2>6, <3>0, <3>1, <3>2, <3>3 DEF InputInv
  <2> QED BY <2>7, <2>8
<1>4. TodoInv' BY <1>a, <1>b, TodoKept
<1>5. StreamInv' BY <1>a, <1>b, <1>d, StreamKept
<1> QED BY <1>1, <1>2, <1>3, <1>4, <1>5 DEF ConsoleInv

\* A connection was accepted, and is queued as an event.
LEMMA AcceptedStep ==
  ASSUME ConsoleInv, ConsoleAssumption, NEW c \in Client, NEW t \in Tty, Accepted(c, t)
  PROVE  ConsoleInv'
<1> PICK e : e = [client |-> c, connected |-> TRUE] OBVIOUS
<1>a. ConsoleTypes /\ LifeInv /\ InputInv /\ TodoInv /\ StreamInv BY DEF ConsoleInv
<1>b. /\ owner[c] = NoOwner /\ owner' = [owner EXCEPT ![c] = <<t, gen[t]>>]
      /\ active' = [active EXCEPT ![c] = TRUE]
      /\ events' = Append(events, e)
      /\ UNCHANGED <<started, running, thread, event, list_lock, lock, exists, listed,
                     endpoint, gen, out, todo, ctl, ready, reading, pending, stream>>
  BY DEF Accepted, lifeVars, ttyVars
<1>c. /\ active' \in [Client -> BOOLEAN] /\ owner'[c] = <<t, gen[t]>> /\ gen[t] \in Nat
      /\ \A d \in Client : d # c => active'[d] = active[d] /\ owner'[d] = owner[d]
  BY <1>a, <1>b DEF ConsoleTypes
<1>d. \A d \in Client : d # c /\ Live(d)' => Live(d)
  BY <1>b, <1>c DEF Live, State, Current
<1>e. e \in Event /\ e.client = c BY DEF Event
<1>s. events \in Seq(Event) BY <1>a DEF ConsoleTypes
<1>f. event.client # c
  <2>1. CASE event = NoEvent BY <2>1 DEF NoEvent, ConsoleAssumption
  <2>2. CASE event # NoEvent BY <1>a, <1>b, <2>2 DEF InputInv
  <2> QED BY <2>1, <2>2
<1>g. event # NoEvent => event.client \in Client BY <1>a DEF ConsoleTypes, Event
<1>h. owner'[c] # NoOwner BY <1>c DEF NoOwner, ConsoleAssumption
<1> PICK q, p : q = events /\ p = Append(events, e) OBVIOUS
<1>p. /\ p \in Seq(Event) /\ events' = p
      /\ DOMAIN p = DOMAIN q \cup {Len(q) + 1} /\ Len(q) + 1 \notin DOMAIN q
      /\ p[Len(q) + 1] = e /\ \A k \in DOMAIN q : p[k] = q[k]
  BY <1>b, <1>e, <1>s, AppendAt
<1>1. ConsoleTypes'
  <2>1. owner' \in [Client -> (Tty \X Nat) \cup {NoOwner}] BY <1>a, <1>b, <1>c DEF ConsoleTypes
  <2> QED BY <1>a, <1>b, <1>c, <1>p, <2>1 DEF ConsoleTypes
<1>2. LifeInv'
  <2>1. thread' \in {"greet", "complete", "input"} =>
          /\ list_lock' = "thread" /\ event' \in Event /\ EventTty' = EventTty
          /\ owner'[event'.client] = owner[event.client]
    BY <1>a, <1>b, <1>c, <1>f DEF LifeInv, EventTty, Event
  <2>2. \A d \in Client : owner'[d] # NoOwner => owner'[d][2] <= gen'[owner'[d][1]]
    BY <1>a, <1>b, <1>c DEF LifeInv
  <2> QED BY <1>a, <1>b, <2>1, <2>2 DEF LifeInv
<1>3. InputInv'
  <2>1. \A k \in DOMAIN q : q[k].client # c /\ q[k].client \in Client
    BY <1>a, <1>b, EventsAt DEF InputInv
  <2>2. ~reading[c] BY <1>a, <1>b DEF InputInv
  <2>5. event # NoEvent => ~reading'[event.client] /\ owner'[event.client] # NoOwner
    BY <1>a, <1>b, <1>c, <1>f, <1>g DEF InputInv
  <2>6. \A d \in Client : owner'[d] = NoOwner => ~active'[d] /\ ~reading'[d]
    BY <1>a, <1>b, <1>c, <1>h DEF InputInv
  <2>7. \A k, l \in DOMAIN p : p[k].client = p[l].client => k = l
    BY <1>a, <1>e, <1>p, <2>1 DEF InputInv
  <2>8. \A k \in DOMAIN p : /\ ~reading'[p[k].client] /\ event'.client # p[k].client
                            /\ owner'[p[k].client] # NoOwner
    BY <1>a, <1>b, <1>c, <1>e, <1>f, <1>h, <1>p, <2>1, <2>2 DEF InputInv
  <2>9. ASSUME NEW d \in Client, Live(d)'
        PROVE  reading'[d] \/ event'.client = d \/ \E k \in DOMAIN p : p[k].client = d
    <3>1. CASE d = c BY <1>e, <1>p, <3>1
    <3>2. CASE d # c
      <4>1. reading[d] \/ event.client = d \/ \E k \in DOMAIN q : q[k].client = d
        BY <1>a, <1>d, <2>9, <3>2 DEF InputInv
      <4> QED BY <1>b, <1>p, <3>2, <4>1
    <3> QED BY <3>1, <3>2
  <2> QED BY <1>b, <1>p, <2>5, <2>6, <2>7, <2>8, <2>9 DEF InputInv
<1>4. TodoInv'
  <2>1. \A d \in Client : owner[d] # NoOwner => owner'[d] = owner[d] BY <1>b, <1>c
  <2>2. thread = "complete" => owner'[event.client] = owner[event.client]
    BY <1>a, <1>c, <1>f DEF LifeInv, Event
  <2> QED BY <1>a, <1>b, <2>1, <2>2, TodoKept
<1>5. StreamInv'
  <2>1. \A d \in Client : d # c => Due(d)' = Due(d) BY <1>b, <1>c DEF Due
  <2>2. \A d \in Client : Seen(d)' = Seen(d) BY <1>b DEF Seen
  <2>3. ~ready[c] /\ stream[c] = <<>> BY <1>a, <1>b DEF StreamInv
  <2>4. thread = "complete" => EventTty' = EventTty /\ event.client \in Client
    BY <1>a, <1>b, <1>c, <1>f DEF LifeInv, EventTty, Event
  <2>5. thread' = "complete" /\ active'[event'.client] =>
          stream'[event'.client] = Replayed(out'[EventTty'])
    BY <1>a, <1>b, <1>c, <1>f, <2>4 DEF StreamInv
  <2>6. ASSUME NEW d \in Client
        PROVE  /\ NoGap(stream'[d])
               /\ owner'[d] = NoOwner => ~ready'[d] /\ stream'[d] = <<>>
               /\ Live(d)' /\ ready'[d] /\ (running' \/ stream'[d] # <<>>) => Seen(d)' = Due(d)'
               /\ Live(d)' /\ ~ready'[d] /\ ~(thread' = "complete" /\ event'.client = d) =>
                    stream'[d] = <<>>
    <3>1. CASE d = c BY <1>a, <1>b, <2>3, <3>1 DEF StreamInv
    <3>2. CASE d # c BY <1>a, <1>b, <1>c, <1>d, <2>1, <2>2, <3>2 DEF StreamInv
    <3> QED BY <3>1, <3>2
  <2> QED BY <2>5, <2>6 DEF StreamInv
<1> QED BY <1>1, <1>2, <1>3, <1>4, <1>5 DEF ConsoleInv

-----------------------------------------------------------------------------
(* The controller's steps.                                                 *)

\* vtty_shutdown: the console thread has ended.
LEMMA JoinStep ==
  ASSUME ConsoleInv, ConsoleAssumption, Join
  PROVE  ConsoleInv'
<1>a. ConsoleTypes /\ LifeInv /\ InputInv /\ TodoInv /\ StreamInv BY DEF ConsoleInv
<1>b. /\ ctl.pc = "join" /\ ctl' = Idle /\ ctl'.pc = "idle"
      /\ UNCHANGED <<started, running, thread, event, events, list_lock, lock, exists, listed,
                     endpoint, gen, out, todo, owner, active, ready, reading, pending, stream>>
  BY DEF Join, lifeVars, threadVars, ttyVars, chanVars, Idle
<1>d. \A d \in Client : Live(d)' => Live(d) BY <1>a, <1>b, LiveLess
<1>1. ConsoleTypes' BY <1>a, <1>b DEF ConsoleTypes, Idle
<1>2. LifeInv' BY <1>a, <1>b DEF LifeInv, EventTty
<1>3. InputInv' BY <1>a, <1>b, <1>d, InputKept
<1>4. TodoInv' BY <1>a, <1>b, TodoKept
<1>5. StreamInv' BY <1>a, <1>b, <1>d, StreamKept
<1> QED BY <1>1, <1>2, <1>3, <1>4, <1>5 DEF ConsoleInv

\* vtty_shutdown begins.
LEMMA ShutdownStep ==
  ASSUME ConsoleInv, ConsoleAssumption, Shutdown
  PROVE  ConsoleInv'
<1>a. ConsoleTypes /\ LifeInv /\ InputInv /\ TodoInv /\ StreamInv BY DEF ConsoleInv
<1>b. /\ ctl.pc = "idle" /\ ctl' = [pc |-> "stop", op |-> "shutdown", tty |-> NoTty]
      /\ ctl'.pc = "stop" /\ running' = FALSE
      /\ UNCHANGED <<started, thread, event, events, list_lock, lock, exists, listed,
                     endpoint, gen, out, todo, owner, active, ready, reading, pending, stream>>
  BY DEF Shutdown, threadVars, ttyVars, chanVars, Idle
<1>d. \A d \in Client : Live(d)' => Live(d) BY <1>a, <1>b, LiveLess
<1>1. ConsoleTypes' BY <1>a, <1>b DEF ConsoleTypes
<1>2. LifeInv' BY <1>a, <1>b DEF LifeInv, EventTty
<1>3. InputInv' BY <1>a, <1>b, <1>d, InputKept
<1>4. TodoInv' BY <1>a, <1>b, TodoKept
<1>5. StreamInv' BY <1>a, <1>b, <1>d, StreamKept
<1> QED BY <1>1, <1>2, <1>3, <1>4, <1>5 DEF ConsoleInv

\* vtty_init
LEMMA StartConsoleStep ==
  ASSUME ConsoleInv, ConsoleAssumption, Start
  PROVE  ConsoleInv'
<1>a. ConsoleTypes /\ LifeInv /\ InputInv /\ TodoInv /\ StreamInv BY DEF ConsoleInv
<1>b. /\ thread = "off" /\ ~started /\ started' = TRUE /\ running' = TRUE /\ thread' = "take"
      /\ UNCHANGED <<event, events, list_lock, lock, exists, listed,
                     endpoint, gen, out, todo, owner, active, ready, reading, pending, stream, ctl>>
  BY DEF Start, ttyVars, chanVars
<1>d. \A d \in Client : Live(d)' => Live(d) BY <1>a, <1>b, LiveLess
<1>e. \A d \in Client : ~Live(d) BY <1>a, <1>b, LiveDef DEF LifeInv
<1>1. ConsoleTypes' BY <1>a, <1>b DEF ConsoleTypes
<1>2. LifeInv' BY <1>a, <1>b DEF LifeInv
<1>3. InputInv' BY <1>a, <1>b, <1>d, InputKept
<1>4. TodoInv' BY <1>a, <1>b, TodoKept
<1>5. StreamInv'
  <2>1. \A d \in Client : ~Live(d)' BY <1>d, <1>e
  <2>2. thread' # "complete" BY <1>b
  <2>3. \A d \in Client : NoGap(stream'[d])
                          /\ (owner'[d] = NoOwner => ~ready'[d] /\ stream'[d] = <<>>)
    BY <1>a, <1>b DEF StreamInv
  <2> QED BY <2>1, <2>2, <2>3 DEF StreamInv
<1> QED BY <1>1, <1>2, <1>3, <1>4, <1>5 DEF ConsoleInv

\* vtty_create puts the terminal on the list.
LEMMA CreateListedStep ==
  ASSUME ConsoleInv, ConsoleAssumption, CreateListed
  PROVE  ConsoleInv'
<1>a. ConsoleTypes /\ LifeInv /\ InputInv /\ TodoInv /\ StreamInv BY DEF ConsoleInv
<1>b. /\ ctl.pc = "list" /\ listed' = listed \cup {ctl.tty} /\ ctl' = Idle /\ ctl'.pc = "idle"
      /\ UNCHANGED <<started, running, thread, event, events, list_lock, lock, exists,
                     endpoint, gen, out, todo, owner, active, ready, reading, pending, stream>>
  BY DEF CreateListed, lifeVars, threadVars, chanVars, Idle
<1>d. \A d \in Client : Live(d)' => Live(d) BY <1>a, <1>b, LiveLess
<1>c. listed' \subseteq exists' BY <1>a, <1>b DEF LifeInv, ConsoleTypes
<1>1. ConsoleTypes' BY <1>a, <1>b, <1>c DEF ConsoleTypes, Idle
<1>2. LifeInv' BY <1>a, <1>b DEF LifeInv, EventTty
<1>3. InputInv' BY <1>a, <1>b, <1>d, InputKept
<1>4. TodoInv'
  <2>1. exists' \ listed' = {}
    <3>1. \A t \in exists \ listed : ctl.tty = t BY <1>a DEF TodoInv, ConsoleTypes
    <3> QED BY <1>b, <3>1
  <2> QED BY <1>a, <1>b, <2>1 DEF TodoInv, EventTty
<1>5. StreamInv' BY <1>a, <1>b, <1>d, StreamKept
<1> QED BY <1>1, <1>2, <1>3, <1>4, <1>5 DEF ConsoleInv

\* vtty_create: a new generation of the endpoint, without connections.
LEMMA CreateStep ==
  ASSUME ConsoleInv, ConsoleAssumption, NEW t \in Tty, Create(t)
  PROVE  ConsoleInv'
<1>a. ConsoleTypes /\ LifeInv /\ InputInv /\ TodoInv /\ StreamInv BY DEF ConsoleInv
<1>b. /\ ctl.pc = "idle" /\ t \notin exists /\ started
      /\ exists' = exists \cup {t}
      /\ endpoint' = [endpoint EXCEPT ![t] = "active"]
      /\ gen' = [gen EXCEPT ![t] = @ + 1] /\ out' = [out EXCEPT ![t] = 0]
      /\ ctl' = [pc |-> "list", op |-> "create", tty |-> t]
      /\ UNCHANGED <<started, running, thread, event, events, list_lock, lock, listed,
                     todo, owner, active, ready, reading, pending, stream>>
  BY DEF Create, Idle, lifeVars, threadVars, chanVars
<1>c. /\ gen'[t] = gen[t] + 1 /\ gen[t] \in Nat /\ gen' \in [Tty -> Nat]
      /\ out'[t] = 0 /\ out' \in [Tty -> Nat]
      /\ endpoint' \in [Tty -> {"none", "active", "closing"}]
      /\ \A u \in Tty : u # t => gen'[u] = gen[u] /\ out'[u] = out[u] /\ endpoint'[u] = endpoint[u]
  BY <1>a, <1>b DEF ConsoleTypes
<1>d. ASSUME NEW d \in Client, Live(d)' PROVE Live(d) /\ owner[d][1] # t
  <2>1. /\ active[d] /\ owner[d][1] # NoTty /\ owner[d][2] = gen'[owner[d][1]]
        /\ endpoint'[owner[d][1]] = "active"
    BY <1>b, <1>d DEF Live, State, Current
  <2>2. owner[d] # NoOwner /\ owner[d][1] \in Tty /\ owner[d][2] \in Nat BY <1>a, <2>1, OwnerType
  <2>3. owner[d][2] <= gen[owner[d][1]] BY <1>a, <2>2 DEF LifeInv
  <2>4. owner[d][1] # t BY <1>c, <2>1, <2>2, <2>3
  <2> QED BY <1>a, <1>c, <2>1, <2>2, <2>4, LiveDef
<1>e. thread \in {"greet", "complete", "input"} => EventTty # t /\ EventTty \in Tty
  BY <1>a, <1>b DEF LifeInv, ConsoleTypes
<1>1. ConsoleTypes' BY <1>a, <1>b, <1>c DEF ConsoleTypes
<1>2. LifeInv'
  <2>1. \A u \in Tty : /\ endpoint'[u] # "none" => u \in exists'
                       /\ endpoint'[u] = "active" => started'
    BY <1>a, <1>b, <1>c DEF LifeInv
  <2>2. \A d \in Client : owner'[d] # NoOwner => owner'[d][2] <= gen'[owner'[d][1]]
    <3> SUFFICES ASSUME NEW d \in Client, owner[d] # NoOwner
                 PROVE  owner[d][2] <= gen'[owner[d][1]]
      BY <1>b
    <3>1. owner[d][1] \in Tty /\ owner[d][2] \in Nat BY <1>a, OwnerType
    <3>2. owner[d][2] <= gen[owner[d][1]] BY <1>a DEF LifeInv
    <3>3. gen[owner[d][1]] \in Nat BY <1>a, <3>1 DEF ConsoleTypes
    <3> QED BY <1>c, <3>1, <3>2, <3>3
  <2>3. thread' \in {"greet", "complete", "input"} =>
          /\ list_lock' = "thread" /\ event' \in Event
          /\ EventTty' \in listed' /\ owner'[event'.client] = <<EventTty', gen'[EventTty']>>
    BY <1>a, <1>b, <1>c, <1>e DEF LifeInv, EventTty
  <2>4. ctl'.pc = "list" /\ ctl'.tty = t BY <1>b
  <2> QED BY <1>a, <1>b, <2>1, <2>2, <2>3, <2>4 DEF LifeInv
<1>3. InputInv' BY <1>a, <1>b, <1>d, InputKept
<1>4. TodoInv'
  <2>1. exists \ listed = {} /\ todo[t] = {} BY <1>a, <1>b DEF TodoInv, ConsoleTypes
  <2>2. exists' \ listed' = {t} BY <1>a, <1>b, <2>1 DEF ConsoleTypes
  <2>3. ctl'.pc # "drain" BY <1>b
  <2>4. \A u \in Tty : /\ todo'[u] # {} => lock'[u] # "none" /\ u \in exists'
                       /\ \A d \in todo'[u] : owner'[d][1] = u /\ ready'[d]
    BY <1>a, <1>b DEF TodoInv
  <2>5. /\ thread' = "greet" => event'.connected
        /\ thread' = "input" => ~event'.connected
        /\ thread' = "complete" =>
             event'.connected /\ lock'[EventTty'] = "thread" /\ todo'[EventTty'] = {}
    BY <1>a, <1>b DEF TodoInv, EventTty
  <2> QED BY <1>b, <1>c, <2>1, <2>2, <2>3, <2>4, <2>5 DEF TodoInv
<1>5. StreamInv'
  <2>1. \A d \in Client : Live(d)' => Due(d)' = Due(d)
    <3> SUFFICES ASSUME NEW d \in Client, Live(d)' PROVE Due(d)' = Due(d) OBVIOUS
    <3>1. Live(d) /\ owner[d][1] # t BY <1>d
    <3>2. owner[d][1] \in Tty BY <1>a, <3>1, LiveDef
    <3> QED BY <1>b, <1>c, <3>1, <3>2 DEF Due
  <2>2. \A d \in Client : Seen(d)' = Seen(d) BY <1>b DEF Seen
  <2>3. thread' = "complete" /\ active'[event'.client] =>
          stream'[event'.client] = Replayed(out'[EventTty'])
    BY <1>a, <1>b, <1>c, <1>e DEF StreamInv, EventTty
  <2> QED BY <1>a, <1>b, <1>d, <2>1, <2>2, <2>3 DEF StreamInv
<1> QED BY <1>1, <1>2, <1>3, <1>4, <1>5 DEF ConsoleInv

\* vtty_quiesce and vtty_delete begin to close the endpoint.
LEMMA DetachStep ==
  ASSUME ConsoleInv, ConsoleAssumption, NEW t \in Tty, NEW op \in {"quiesce", "delete"},
         Detach(t, op)
  PROVE  ConsoleInv'
<1>a. ConsoleTypes /\ LifeInv /\ InputInv /\ TodoInv /\ StreamInv BY DEF ConsoleInv
<1>b. /\ ctl.pc = "idle" /\ t \in listed /\ list_lock = "none" /\ list_lock' = "ctl"
      /\ op = "delete" => lock[t] = "none"
      /\ endpoint' = [endpoint EXCEPT ![t] = IF @ = "none" THEN @ ELSE "closing"]
      /\ ctl' = [pc |-> "drain", op |-> op, tty |-> t]
      /\ UNCHANGED <<started, running, thread, event, events, lock, exists, listed, gen, out,
                     todo, owner, active, ready, reading, pending, stream>>
  BY DEF Detach, Idle, lifeVars, threadVars, chanVars
<1>c. /\ endpoint' \in [Tty -> {"none", "active", "closing"}]
      /\ \A u \in Tty : /\ endpoint'[u] = "none" <=> endpoint[u] = "none"
                        /\ endpoint'[u] = "active" => endpoint[u] = "active"
  BY <1>a, <1>b DEF ConsoleTypes
<1>d. \A d \in Client : Live(d)' => Live(d) BY <1>a, <1>b, <1>c, LiveLess
<1>1. ConsoleTypes' BY <1>a, <1>b, <1>c DEF ConsoleTypes
<1>2. LifeInv'
  <2>1. thread \notin {"greet", "complete", "input"} BY <1>a, <1>b DEF LifeInv
  <2>2. t \in exists BY <1>a, <1>b DEF ConsoleTypes
  <2> QED BY <1>a, <1>b, <1>c, <2>1, <2>2 DEF LifeInv
<1>3. InputInv' BY <1>a, <1>b, <1>d, InputKept
<1>4. TodoInv'
  <2>1. exists \ listed = {} BY <1>a, <1>b DEF TodoInv, ConsoleTypes
  <2>2. op = "delete" => todo[t] = {} BY <1>a, <1>b DEF TodoInv
  <2> QED BY <1>a, <1>b, <2>1, <2>2 DEF TodoInv, EventTty
<1>5. StreamInv' BY <1>a, <1>b, <1>d, StreamKept
<1> QED BY <1>1, <1>2, <1>3, <1>4, <1>5 DEF ConsoleInv

\* The connections of the terminal are cancelled.
LEMMA DetachedStep ==
  ASSUME ConsoleInv, ConsoleAssumption, Detached
  PROVE  ConsoleInv'
<1> PICK t : t = ctl.tty OBVIOUS
<1>a. ConsoleTypes /\ LifeInv /\ InputInv /\ TodoInv /\ StreamInv BY DEF ConsoleInv
<1>b. /\ ctl.pc = "drain" /\ Cancel(Channels(t))
      /\ endpoint' = [endpoint EXCEPT ![t] = "none"]
      /\ \/ ctl.op = "delete" /\ listed' = listed \ {t} /\ exists' = exists \ {t}
         \/ ctl.op # "delete" /\ listed' = listed /\ exists' = exists
      /\ list_lock' = "none" /\ ctl' = Idle /\ ctl'.pc = "idle"
      /\ UNCHANGED <<started, running, thread, event, events, lock, gen, out, todo>>
  BY DEF Detached, Idle, lifeVars, threadVars
<1>t. t \in Tty BY <1>a, <1>b DEF LifeInv, ConsoleTypes
<1>c. /\ UNCHANGED <<owner, ready, stream>>
      /\ active' \in [Client -> BOOLEAN] /\ reading' \in [Client -> BOOLEAN]
      /\ pending' \in [Client -> 0..Limit]
      /\ \A d \in Client : /\ active'[d] <=> active[d] /\ d \notin Channels(t)
                           /\ reading'[d] <=> reading[d] /\ d \notin Channels(t)
  BY <1>a, <1>b, CancelFacts
<1>e. /\ endpoint' \in [Tty -> {"none", "active", "closing"}] /\ endpoint'[t] = "none"
      /\ \A u \in Tty : u # t => endpoint'[u] = endpoint[u]
  BY <1>a, <1>b, <1>t DEF ConsoleTypes
<1>f. \A u \in Tty : endpoint'[u] = "active" => endpoint[u] = "active" BY <1>e
<1>d. \A d \in Client : Live(d)' => Live(d) BY <1>a, <1>b, <1>c, <1>f, LiveLess
<1>g. thread \notin {"greet", "complete", "input"} BY <1>a, <1>b DEF LifeInv
<1>1. ConsoleTypes' BY <1>a, <1>b, <1>c, <1>e DEF ConsoleTypes, Idle
<1>2. LifeInv' BY <1>a, <1>b, <1>c, <1>e, <1>g DEF LifeInv
<1>3. InputInv'
  <2>1. \A d \in Client : Live(d)' => d \notin Channels(t) BY <1>c DEF Live
  <2>2. \A d \in Client : /\ Live(d)' => Live(d) /\ (reading[d] => reading'[d])
                          /\ reading'[d] => reading[d]
                          /\ active'[d] => active[d]
    BY <1>c, <1>d, <2>1
  <2> QED BY <1>a, <1>b, <1>c, <2>2, InputKept
<1>4. TodoInv'
  <2>1. exists \ listed = {} BY <1>a, <1>b DEF TodoInv, ConsoleTypes
  <2>2. ctl.op = "delete" => todo[t] = {} BY <1>a, <1>b DEF TodoInv
  <2>3. exists' \ listed' = {} BY <1>b, <2>1
  <2>4. \A u \in Tty : todo[u] # {} => lock[u] # "none" /\ u \in exists'
    BY <1>a, <1>b, <2>2 DEF TodoInv
  <2>5. \A u \in Tty : \A d \in todo'[u] : owner'[d][1] = u /\ ready'[d]
    BY <1>a, <1>b, <1>c DEF TodoInv
  <2> QED BY <1>b, <1>g, <2>3, <2>4, <2>5 DEF TodoInv
<1>5. StreamInv' BY <1>a, <1>b, <1>c, <1>d, <1>g, StreamKept
<1> QED BY <1>1, <1>2, <1>3, <1>4, <1>5 DEF ConsoleInv

\* terminals::stop cancels all connections.
LEMMA StopConsoleStep ==
  ASSUME ConsoleInv, ConsoleAssumption, Stop
  PROVE  ConsoleInv'
<1>a. ConsoleTypes /\ LifeInv /\ InputInv /\ TodoInv /\ StreamInv BY DEF ConsoleInv
<1> PICK S : S = {c \in Client : State(c) # "none"} OBVIOUS
<1>b. /\ ctl.pc = "stop" /\ ctl' = [ctl EXCEPT !.pc = "join"] /\ started' = FALSE
      /\ Cancel(S) /\ endpoint' = [t \in Tty |-> "none"] /\ events' = <<>>
      /\ UNCHANGED <<running, thread, event, list_lock, lock, exists, listed, gen, out, todo>>
  BY DEF Stop
<1>p. ctl'.pc = "join" /\ ctl' \in [pc : {"idle", "list", "drain", "stop", "join"},
              op : {"none", "create", "quiesce", "delete", "shutdown"},
              tty : Tty \cup {NoTty}]
  BY <1>a, <1>b DEF ConsoleTypes
<1>c. /\ UNCHANGED <<owner, ready, stream>>
      /\ active' \in [Client -> BOOLEAN] /\ reading' \in [Client -> BOOLEAN]
      /\ pending' \in [Client -> 0..Limit]
      /\ \A d \in Client : /\ active'[d] <=> active[d] /\ d \notin S
                           /\ reading'[d] <=> reading[d] /\ d \notin S
  BY <1>a, <1>b, CancelFacts
<1>e. \A u \in Tty : endpoint'[u] = "none" BY <1>b
<1>d. \A d \in Client : ~Live(d)'
  <2> SUFFICES ASSUME NEW d \in Client, Live(d)' PROVE FALSE OBVIOUS
  <2>1. owner[d][1] # NoTty /\ endpoint'[owner[d][1]] = "active"
    BY <1>c DEF Live, State, Current
  <2>2. owner[d][1] \in Tty BY <1>a, <2>1, OwnerType
  <2> QED BY <1>e, <2>1, <2>2
<1>1. ConsoleTypes'
  <2>1. endpoint' \in [Tty -> {"none", "active", "closing"}] BY <1>b
  <2>2. events' \in Seq(Event) BY <1>b
  <2> QED BY <1>a, <1>b, <1>c, <1>p, <2>1, <2>2 DEF ConsoleTypes
<1>2. LifeInv' BY <1>a, <1>b, <1>c, <1>e, <1>p DEF LifeInv, EventTty
<1>3. InputInv'
  <2>1. DOMAIN events' = {} BY <1>b
  <2>2. event # NoEvent => event.client \in Client BY <1>a DEF ConsoleTypes, Event
  <2>3. event' # NoEvent => ~reading'[event'.client] /\ owner'[event'.client] # NoOwner
    BY <1>a, <1>b, <1>c, <2>2 DEF InputInv
  <2>4. \A d \in Client : owner'[d] = NoOwner => ~active'[d] /\ ~reading'[d]
    BY <1>a, <1>c DEF InputInv
  <2> QED BY <1>d, <2>1, <2>3, <2>4 DEF InputInv
<1>4. TodoInv' BY <1>a, <1>b, <1>c, <1>p, TodoKept
<1>5. StreamInv'
  <2>1. thread = "complete" => event.client \in Client BY <1>a DEF LifeInv, Event
  <2>2. thread' = "complete" /\ active'[event'.client] =>
          stream'[event'.client] = Replayed(out'[EventTty'])
    BY <1>a, <1>b, <1>c, <2>1 DEF StreamInv, EventTty
  <2> QED BY <1>a, <1>c, <1>d, <2>2 DEF StreamInv
<1> QED BY <1>1, <1>2, <1>3, <1>4, <1>5 DEF ConsoleInv

-----------------------------------------------------------------------------
(* The console thread's steps.                                             *)

\* vtty_io_take
LEMMA TakeStep ==
  ASSUME ConsoleInv, ConsoleAssumption, Take
  PROVE  ConsoleInv'
<1>a. ConsoleTypes /\ LifeInv /\ InputInv /\ TodoInv /\ StreamInv BY DEF ConsoleInv
<1>b. /\ thread = "take" /\ thread' = "lock" /\ event = NoEvent
      /\ UNCHANGED <<started, running, list_lock, lock, exists, listed, endpoint, gen, out,
                     todo, ctl, owner, active, ready, reading, pending, stream>>
  BY <1>a DEF Take, LifeInv, lifeVars, ttyVars, chanVars
<1>c. \/ events # <<>> /\ event' = Head(events) /\ events' = Tail(events)
      \/ event' = NoEvent /\ events' = events
  BY DEF Take
<1>d. \A d \in Client : Live(d)' => Live(d) BY <1>a, <1>b, LiveLess
<1>s. events \in Seq(Event) BY <1>a DEF ConsoleTypes
<1>1. ConsoleTypes'
  <2>1. event' \in Event \cup {NoEvent} /\ events' \in Seq(Event) BY <1>c, <1>s, TailAt
  <2> QED BY <1>a, <1>b, <2>1 DEF ConsoleTypes
<1>2. LifeInv' BY <1>a, <1>b DEF LifeInv
<1>3. InputInv'
  <2>1. CASE event' = NoEvent /\ events' = events
    BY <1>a, <1>b, <1>d, <2>1, InputKept
  <2>2. CASE events # <<>> /\ event' = Head(events) /\ events' = Tail(events)
    <3> PICK q, p, h : q = events /\ p = Tail(events) /\ h = Head(events) OBVIOUS
    <3>1. /\ h \in Event /\ 1 \in DOMAIN q /\ q[1] = h /\ DOMAIN p \subseteq 1..Len(p)
          /\ Len(p) \in Nat
          /\ \A k \in DOMAIN p : k + 1 \in DOMAIN q /\ p[k] = q[k + 1]
          /\ \A k \in DOMAIN q : k # 1 => k - 1 \in DOMAIN p /\ p[k - 1] = q[k]
      BY <1>s, <2>2, TailAt
    <3>2. \A k, l \in DOMAIN p : p[k].client = p[l].client => k = l
      <4> SUFFICES ASSUME NEW k \in DOMAIN p, NEW l \in DOMAIN p, p[k].client = p[l].client
                   PROVE  k = l
        OBVIOUS
      <4>1. k + 1 \in DOMAIN q /\ l + 1 \in DOMAIN q /\ q[k + 1].client = q[l + 1].client
        BY <3>1
      <4>2. k + 1 = l + 1 BY <1>a, <4>1 DEF InputInv
      <4> QED BY <3>1, <4>2
    <3>3. ASSUME NEW k \in DOMAIN p
          PROVE  /\ ~reading[p[k].client] /\ h.client # p[k].client
                 /\ owner[p[k].client] # NoOwner
      <4>1. k + 1 \in DOMAIN q /\ k + 1 # 1 /\ p[k] = q[k + 1] BY <3>1
      <4> QED BY <1>a, <3>1, <4>1 DEF InputInv
    <3>4. ~reading[h.client] /\ owner[h.client] # NoOwner BY <1>a, <3>1 DEF InputInv
    <3>5. ASSUME NEW d \in Client, Live(d)'
          PROVE  reading[d] \/ h.client = d \/ \E k \in DOMAIN p : p[k].client = d
      <4>1. reading[d] \/ event.client = d \/ \E k \in DOMAIN q : q[k].client = d
        BY <1>a, <1>d, <3>5 DEF InputInv
      <4>2. event.client # d BY <1>b DEF NoEvent, ConsoleAssumption
      <4>3. reading[d] \/ \E k \in DOMAIN q : q[k].client = d BY <4>1, <4>2
      <4>4. ASSUME NEW k \in DOMAIN q, q[k].client = d
            PROVE  h.client = d \/ \E l \in DOMAIN p : p[l].client = d
        <5>1. CASE k = 1 BY <3>1, <4>4, <5>1
        <5>2. CASE k # 1 BY <3>1, <4>4, <5>2
        <5> QED BY <5>1, <5>2
      <4> QED BY <4>3, <4>4
    <3>6. \A d \in Client : owner'[d] = NoOwner => ~active'[d] /\ ~reading'[d]
      BY <1>a, <1>b DEF InputInv
    <3> QED BY <1>b, <2>2, <3>2, <3>3, <3>4, <3>5, <3>6 DEF InputInv
  <2> QED BY <1>c, <2>1, <2>2
<1>4. TodoInv' BY <1>a, <1>b, TodoKept
<1>5. StreamInv' BY <1>a, <1>b, <1>d, StreamKept
<1> QED BY <1>1, <1>2, <1>3, <1>4, <1>5 DEF ConsoleInv

\* The completion of an event gives its input buffer to a read.
LEMMA CompleteInput ==
  ASSUME ConsoleTypes, ConsoleAssumption, InputInv, CompleteEvent, UNCHANGED <<events, endpoint, gen>>
  PROVE  InputInv'
<1>c. /\ UNCHANGED <<owner, active, pending, stream>> /\ event' = NoEvent
      /\ \A c \in Client : reading'[c] <=> reading[c] \/ (event # NoEvent /\ event.client = c /\ Live(c))
  BY CompleteFacts
<1>1. event'.client \notin Client BY <1>c DEF NoEvent, ConsoleAssumption
<1>2. \A k \in DOMAIN events : events[k].client \in Client BY EventsAt
<1>3. \A k \in DOMAIN events : ~reading'[events[k].client] BY <1>c, <1>2 DEF InputInv
<1>4. \A c \in Client : Live(c)' => Live(c) BY <1>c, LiveLess
<1>5. ASSUME NEW c \in Client, Live(c)'
      PROVE  reading'[c] \/ \E k \in DOMAIN events : events[k].client = c
  <2>1. Live(c) BY <1>4, <1>5
  <2>2. reading[c] \/ event.client = c \/ \E k \in DOMAIN events : events[k].client = c
    BY <2>1 DEF InputInv
  <2>3. event = NoEvent => event.client # c BY DEF NoEvent, ConsoleAssumption
  <2> QED BY <1>c, <2>1, <2>2, <2>3
<1>6. \A c \in Client : owner'[c] = NoOwner => ~active'[c] /\ ~reading'[c]
  BY <1>c DEF InputInv, Live
<1> QED BY <1>c, <1>1, <1>2, <1>3, <1>5, <1>6 DEF InputInv

\* The console thread has vtty_list_mutex.
LEMMA LockListStep ==
  ASSUME ConsoleInv, ConsoleAssumption, LockList
  PROVE  ConsoleInv'
<1>a. ConsoleTypes /\ LifeInv /\ InputInv /\ TodoInv /\ StreamInv BY DEF ConsoleInv
<1>b. /\ thread = "lock" /\ list_lock = "none"
      /\ UNCHANGED <<started, running, events, lock, exists, listed, endpoint, gen, out,
                     todo, ctl>>
  BY DEF LockList, lifeVars, ttyVars
<1>n. ctl.pc # "drain" BY <1>a, <1>b DEF LifeInv
<1>1. CASE /\ running /\ Handles /\ thread' = IF event.connected THEN "greet" ELSE "input"
           /\ list_lock' = "thread" /\ UNCHANGED <<event, chanVars>>
  <2>b. /\ thread' \in {"greet", "input"} /\ (thread' = "greet" <=> event.connected)
        /\ list_lock' = "thread"
        /\ UNCHANGED <<event, owner, active, ready, reading, pending, stream>>
    BY <1>1 DEF chanVars
  <2>d. \A d \in Client : Live(d)' => Live(d) BY <1>a, <1>b, <2>b, LiveLess
  <2>e. event \in Event /\ EventTty \in listed /\ owner[event.client] = <<EventTty, gen[EventTty]>>
    <3>1. event # NoEvent /\ active[event.client] /\ State(event.client) = "active"
          /\ EventTty \in listed
      BY <1>1 DEF Handles, EventActive
    <3>2. event \in Event /\ event.client \in Client BY <1>a, <3>1 DEF ConsoleTypes, Event
    <3>3. owner[event.client][2] = gen[EventTty] BY <1>a, <3>1, <3>2, LiveDef DEF Live, EventTty
    <3>4. owner[event.client] = <<owner[event.client][1], owner[event.client][2]>>
      BY <1>a, <3>2, OwnerType
    <3> QED BY <3>1, <3>2, <3>3, <3>4 DEF EventTty
  <2>1. ConsoleTypes' BY <1>a, <1>b, <2>b DEF ConsoleTypes
  <2>2. LifeInv' BY <1>a, <1>b, <1>n, <2>b, <2>e DEF LifeInv, EventTty
  <2>3. InputInv' BY <1>a, <1>b, <2>b, <2>d, InputKept
  <2>4. TodoInv' BY <1>a, <1>b, <2>b DEF TodoInv
  <2>5. StreamInv' BY <1>a, <1>b, <2>b, <2>d, StreamKept
  <2> QED BY <2>1, <2>2, <2>3, <2>4, <2>5 DEF ConsoleInv
<1>2. CASE /\ ~(running /\ Handles) /\ CompleteEvent
           /\ thread' = IF running THEN "take" ELSE "off"
           /\ UNCHANGED list_lock
  <2>c. /\ UNCHANGED <<owner, active, pending, stream>> /\ event' = NoEvent
        /\ ready' \in [Client -> BOOLEAN] /\ reading' \in [Client -> BOOLEAN]
        /\ \A c \in Client :
             ready'[c] <=> ready[c] \/ (event # NoEvent /\ event.client = c /\ Live(c) /\ event.connected)
    BY <1>2, <1>a, CompleteFacts
  <2>b. thread' \in {"take", "off"} /\ list_lock' = list_lock BY <1>2
  <2>d. \A d \in Client : Live(d)' => Live(d) BY <1>a, <1>b, <2>c, LiveLess
  <2>1. ConsoleTypes' BY <1>a, <1>b, <2>b, <2>c DEF ConsoleTypes
  <2>2. LifeInv' BY <1>a, <1>b, <2>b, <2>c DEF LifeInv
  <2>3. InputInv' BY <1>a, <1>b, <1>2, CompleteInput
  <2>4. TodoInv' BY <1>a, <1>b, <2>b, <2>c, TodoKept
  <2>5. StreamInv'
    <3>1. ASSUME NEW d \in Client, Live(d), ready'[d], ~ready[d], running
          PROVE  stream[d] = <<>> /\ Due(d) = 0
      <4>1. event # NoEvent /\ event.client = d BY <2>c, <3>1
      <4>2. ~(EventTty \in listed) BY <1>2, <3>1, <4>1 DEF Handles, EventActive, Live
      <4>3. EventTty \in Tty /\ EventTty = owner[d][1] /\ endpoint[EventTty] = "active"
        BY <1>a, <3>1, <4>1, LiveDef DEF EventTty
      <4>4. EventTty \in exists \ listed BY <1>a, <4>2, <4>3 DEF LifeInv
      <4>5. out[EventTty] = 0 /\ todo[EventTty] = {} BY <1>a, <4>3, <4>4 DEF TodoInv
      <4>6. stream[d] = <<>> BY <1>a, <1>b, <3>1 DEF StreamInv
      <4> QED BY <4>3, <4>5, <4>6 DEF Due
    <3>2. \A d \in Client : Live(d) /\ ~ready[d] => stream[d] = <<>> BY <1>a, <1>b DEF StreamInv
    <3>3. \A d \in Client : Seen(d)' = Seen(d) /\ Due(d)' = Due(d) BY <1>b, <2>c DEF Seen, Due
    <3>4. ASSUME NEW d \in Client, Live(d), ready'[d], running \/ stream[d] # <<>>
          PROVE  Seen(d) = Due(d)
      <4>1. CASE ready[d] BY <1>a, <3>4, <4>1 DEF StreamInv
      <4>2. CASE ~ready[d] BY <3>1, <3>2, <3>4, <4>2 DEF Seen
      <4> QED BY <4>1, <4>2
    <3>5. ASSUME NEW d \in Client
          PROVE  /\ NoGap(stream'[d])
                 /\ owner'[d] = NoOwner => ~ready'[d] /\ stream'[d] = <<>>
                 /\ Live(d)' /\ ready'[d] /\ (running' \/ stream'[d] # <<>>) => Seen(d)' = Due(d)'
                 /\ Live(d)' /\ ~ready'[d] /\ ~(thread' = "complete" /\ event'.client = d) =>
                      stream'[d] = <<>>
      <4>1. owner[d] = NoOwner => ~Live(d) BY <1>a, OwnerType DEF InputInv, Live
      <4>2. NoGap(stream'[d]) /\ (owner'[d] = NoOwner => ~ready'[d] /\ stream'[d] = <<>>)
        BY <1>a, <2>c, <4>1 DEF StreamInv
      <4>3. Live(d)' /\ ready'[d] /\ (running' \/ stream'[d] # <<>>) => Seen(d)' = Due(d)'
        BY <1>b, <2>c, <2>d, <3>3, <3>4
      <4>4. Live(d)' /\ ~ready'[d] => stream'[d] = <<>> BY <2>c, <2>d, <3>2
      <4> QED BY <4>2, <4>3, <4>4
    <3> QED BY <2>b, <3>5 DEF StreamInv
  <2> QED BY <2>1, <2>2, <2>3, <2>4, <2>5 DEF ConsoleInv
<1> QED BY <1>1, <1>2 DEF LockList

\* The input of an event is handled.
LEMMA InputStep ==
  ASSUME ConsoleInv, ConsoleAssumption, Input
  PROVE  ConsoleInv'
<1>a. ConsoleTypes /\ LifeInv /\ InputInv /\ TodoInv /\ StreamInv BY DEF ConsoleInv
<1>b. /\ thread = "input" /\ thread' = "take" /\ CompleteEvent /\ list_lock' = "none"
      /\ UNCHANGED <<started, running, events, lock, exists, listed, endpoint, gen, out,
                     todo, ctl>>
  BY DEF Input, lifeVars, ttyVars
<1>n. ctl.pc # "drain" BY <1>a, <1>b DEF LifeInv
<1>c. /\ UNCHANGED <<owner, active, pending, stream>> /\ event' = NoEvent
      /\ ready' \in [Client -> BOOLEAN] /\ reading' \in [Client -> BOOLEAN]
      /\ \A c \in Client :
           ready'[c] <=> ready[c] \/ (event # NoEvent /\ event.client = c /\ Live(c) /\ event.connected)
  BY <1>b, <1>a, CompleteFacts
<1>r. ready' = ready
  <2>1. ~event.connected BY <1>a, <1>b DEF TodoInv
  <2>2. ready \in [Client -> BOOLEAN] BY <1>a DEF ConsoleTypes
  <2>3. \A c \in Client : ready'[c] \in BOOLEAN /\ ready[c] \in BOOLEAN BY <1>c, <2>2
  <2>4. \A c \in Client : ready'[c] <=> ready[c] BY <1>c, <2>1
  <2>5. \A c \in Client : ready'[c] = ready[c] BY <2>3, <2>4
  <2>6. ready = [c \in Client |-> ready[c]] /\ ready' = [c \in Client |-> ready'[c]]
    BY <1>c, <2>2
  <2> QED BY <2>5, <2>6
<1>d. \A d \in Client : Live(d)' => Live(d) BY <1>a, <1>b, <1>c, LiveLess
<1>1. ConsoleTypes' BY <1>a, <1>b, <1>c DEF ConsoleTypes
<1>2. LifeInv' BY <1>a, <1>b, <1>c, <1>n DEF LifeInv
<1>3. InputInv' BY <1>a, <1>b, CompleteInput
<1>4. TodoInv' BY <1>a, <1>b, <1>c, <1>r, TodoKept
<1>5. StreamInv' BY <1>a, <1>b, <1>c, <1>d, <1>r, StreamKept
<1> QED BY <1>1, <1>2, <1>3, <1>4, <1>5 DEF ConsoleInv

\* The replay of n characters.
LEMMA ReplayedFacts ==
  ASSUME ConsoleAssumption, NEW n \in Nat
  PROVE  /\ Replayed(n) \in Seq(Nat) /\ Len(Replayed(n)) \in 0..Limit
         /\ NoGap(Replayed(n))
         /\ n = 0 <=> Replayed(n) = <<>>
         /\ n # 0 => Replayed(n)[Len(Replayed(n))] = n
<1>0. Replay \in Nat /\ Replay > 0 /\ Replay <= Limit /\ Limit \in Nat BY DEF ConsoleAssumption
<1>1. CASE n <= Replay
  <2>1. Replayed(n) = [i \in 1..n |-> i] BY <1>1 DEF Replayed
  <2>2. Replayed(n) \in [1..n -> Nat] BY <2>1
  <2>3. Replayed(n) \in Seq(Nat) BY <2>2, SeqDef
  <2>4. Len(Replayed(n)) = n BY <2>2, <2>3
  <2>5. NoGap(Replayed(n)) BY <2>1, <2>4 DEF NoGap
  <2>6. n = 0 <=> Replayed(n) = <<>> BY <2>3, <2>4
  <2>7. n # 0 => Replayed(n)[n] = n BY <2>1
  <2> QED BY <1>0, <1>1, <2>3, <2>4, <2>5, <2>6, <2>7
<1>2. CASE ~(n <= Replay)
  <2>1. Replayed(n) = [i \in 1..Replay |-> n - Replay + i] BY <1>2 DEF Replayed
  <2>2. \A i \in 1..Replay : n - Replay + i \in Nat BY <1>0, <1>2
  <2>3. Replayed(n) \in [1..Replay -> Nat] BY <2>1, <2>2
  <2>4. Replayed(n) \in Seq(Nat) BY <1>0, <2>3, SeqDef
  <2>5. Len(Replayed(n)) = Replay BY <1>0, <2>3, <2>4
  <2>6. NoGap(Replayed(n)) BY <1>0, <2>1, <2>5 DEF NoGap
  <2>7. Replayed(n)[Replay] = n BY <1>0, <2>1
  <2>8. Replayed(n) # <<>> BY <1>0, <2>4, <2>5
  <2> QED BY <1>0, <1>2, <2>4, <2>5, <2>6, <2>7, <2>8
<1> QED BY <1>1, <1>2

\* vtty_tcp_connected: the old text is queued, with the lock of the terminal.
LEMMA GreetStep ==
  ASSUME ConsoleInv, ConsoleAssumption, Greet
  PROVE  ConsoleInv'
<1> PICK c : c = event.client OBVIOUS
<1> PICK t : t = EventTty OBVIOUS
<1> PICK s : s = Replayed(out[t]) OBVIOUS
<1>a. ConsoleTypes /\ LifeInv /\ InputInv /\ TodoInv /\ StreamInv BY DEF ConsoleInv
<1>b. /\ thread = "greet" /\ thread' = "complete" /\ lock[t] = "none"
      /\ lock' = [lock EXCEPT ![t] = "thread"]
      /\ \/ /\ active[c] /\ stream' = [stream EXCEPT ![c] = s]
            /\ pending' = [pending EXCEPT ![c] = Len(s)]
         \/ ~active[c] /\ stream' = stream /\ pending' = pending
      /\ UNCHANGED <<started, running, event, events, list_lock, exists, listed, endpoint, gen,
                     out, todo, ctl, owner, active, ready, reading>>
  BY DEF Greet, lifeVars, ttyVars
<1>t. c \in Client /\ t \in listed /\ t \in Tty /\ owner[c] = <<t, gen[t]>> /\ event.connected
  BY <1>a, <1>b DEF LifeInv, TodoInv, ConsoleTypes, Event
<1>s. /\ s \in Seq(Nat) /\ Len(s) \in 0..Limit /\ NoGap(s)
      /\ out[t] = 0 <=> s = <<>>
      /\ out[t] # 0 => s[Len(s)] = out[t]
  <2>1. out[t] \in Nat BY <1>a, <1>t DEF ConsoleTypes
  <2> QED BY <2>1, ReplayedFacts
<1>c. /\ stream' \in [Client -> Seq(Nat)] /\ pending' \in [Client -> 0..Limit]
      /\ \A d \in Client : stream'[d] = IF d = c /\ active[c] THEN s ELSE stream[d]
  <2>1. stream \in [Client -> Seq(Nat)] /\ pending \in [Client -> 0..Limit]
    BY <1>a DEF ConsoleTypes
  <2>2. CASE ~active[c] /\ stream' = stream /\ pending' = pending BY <2>1, <2>2
  <2>3. CASE /\ active[c] /\ stream' = [stream EXCEPT ![c] = s]
             /\ pending' = [pending EXCEPT ![c] = Len(s)]
    <3> PICK n : n = Len(s) OBVIOUS
    <3>1. pending' \in [Client -> 0..Limit] BY <1>s, <2>1, <2>3
    <3>2. stream' \in [Client -> Seq(Nat)] BY <1>s, <2>1, <2>3
    <3>3. \A d \in Client : stream'[d] = IF d = c THEN s ELSE stream[d] BY <2>1, <2>3
    <3> QED BY <2>3, <3>1, <3>2, <3>3
  <2> QED BY <1>b, <2>2, <2>3
<1>l. /\ lock' \in [Tty -> {"none", "thread", "cpu"}] /\ lock'[t] = "thread"
      /\ \A u \in Tty : u # t => lock'[u] = lock[u]
  BY <1>a, <1>b, <1>t DEF ConsoleTypes
<1>o. todo[t] = {} BY <1>a, <1>b, <1>t DEF TodoInv
<1>d. \A d \in Client : Live(d)' => Live(d) BY <1>a, <1>b, LiveLess
<1>1. ConsoleTypes' BY <1>a, <1>b, <1>c, <1>l DEF ConsoleTypes
<1>2. LifeInv' BY <1>a, <1>b DEF LifeInv, EventTty
<1>3. InputInv' BY <1>a, <1>b, <1>d, InputKept
<1>4. TodoInv'
  <2>1. EventTty' = t BY <1>b DEF EventTty
  <2>2. \A u \in Tty : todo[u] # {} => lock'[u] # "none" /\ u \in exists
    BY <1>a, <1>l DEF TodoInv
  <2> QED BY <1>a, <1>b, <1>l, <1>o, <1>t, <2>1, <2>2 DEF TodoInv
<1>5. StreamInv'
  <2>1. EventTty' = t BY <1>b DEF EventTty
  <2>2. thread' = "complete" /\ active'[event'.client] =>
          stream'[event'.client] = Replayed(out'[EventTty'])
    BY <1>b, <1>c, <1>t, <2>1
  <2>3. \A d \in Client : Due(d)' = Due(d) BY <1>b DEF Due
  <2>4. owner[c] # NoOwner BY <1>t DEF NoOwner, ConsoleAssumption
  <2>5. ASSUME NEW d \in Client
        PROVE  /\ NoGap(stream'[d])
               /\ owner'[d] = NoOwner => ~ready'[d] /\ stream'[d] = <<>>
               /\ Live(d)' /\ ready'[d] /\ (running' \/ stream'[d] # <<>>) => Seen(d)' = Due(d)'
               /\ Live(d)' /\ ~ready'[d] /\ ~(thread' = "complete" /\ event'.client = d) =>
                    stream'[d] = <<>>
    <3>1. CASE d = c /\ active[c]
      <4>1. stream'[d] = s BY <1>c, <3>1
      <4>2. Seen(d)' = out[t] BY <1>s, <4>1 DEF Seen
      <4>3. Due(d) = out[t] BY <1>o, <1>t, <3>1 DEF Due
      <4> QED BY <1>b, <1>s, <2>3, <2>4, <3>1, <4>1, <4>2, <4>3
    <3>2. CASE d # c \/ ~active[c]
      <4>1. stream'[d] = stream[d] BY <1>c, <3>2
      <4>2. Seen(d)' = Seen(d) BY <4>1 DEF Seen
      <4>3. d = c => ~Live(d) BY <3>2 DEF Live
      <4> QED BY <1>a, <1>b, <1>d, <2>3, <4>1, <4>2, <4>3 DEF StreamInv
    <3> QED BY <3>1, <3>2
  <2> QED BY <2>2, <2>5 DEF StreamInv
<1> QED BY <1>1, <1>2, <1>3, <1>4, <1>5 DEF ConsoleInv

\* vtty_io_complete: the connection is ready for output.
LEMMA CompleteStep ==
  ASSUME ConsoleInv, ConsoleAssumption, Complete
  PROVE  ConsoleInv'
<1> PICK c : c = event.client OBVIOUS
<1> PICK t : t = EventTty OBVIOUS
<1>a. ConsoleTypes /\ LifeInv /\ InputInv /\ TodoInv /\ StreamInv BY DEF ConsoleInv
<1>b. /\ thread = "complete" /\ thread' = "take" /\ CompleteEvent /\ list_lock' = "none"
      /\ lock' = Unlocked(t)
      /\ UNCHANGED <<started, running, events, exists, listed, endpoint, gen, out, todo, ctl>>
  BY DEF Complete, lifeVars, ttyVars
<1>n. ctl.pc # "drain" BY <1>a, <1>b DEF LifeInv
<1>t. /\ c \in Client /\ t \in Tty /\ owner[c][1] = t /\ event.connected /\ lock[t] = "thread"
      /\ todo[t] = {} /\ (active[c] => stream[c] = Replayed(out[t])) /\ event # NoEvent
  <2>1. event \in Event /\ c \in Client BY <1>a, <1>b DEF LifeInv, Event
  <2>2. event # NoEvent BY <2>1 DEF NoEvent, ConsoleAssumption
  <2> QED BY <1>a, <1>b, <2>1, <2>2 DEF LifeInv, TodoInv, StreamInv, ConsoleTypes, EventTty
<1>c. /\ UNCHANGED <<owner, active, pending, stream>> /\ event' = NoEvent
      /\ ready' \in [Client -> BOOLEAN] /\ reading' \in [Client -> BOOLEAN]
      /\ \A d \in Client :
           ready'[d] <=> ready[d] \/ (event # NoEvent /\ event.client = d /\ Live(d) /\ event.connected)
  BY <1>b, <1>a, CompleteFacts
<1>l. /\ lock' \in [Tty -> {"none", "thread", "cpu"}]
      /\ \A u \in Tty : u # t => lock'[u] = lock[u]
  BY <1>a, <1>b, <1>t DEF ConsoleTypes, Unlocked
<1>d. \A d \in Client : Live(d)' => Live(d) BY <1>a, <1>b, <1>c, LiveLess
<1>1. ConsoleTypes' BY <1>a, <1>b, <1>c, <1>l DEF ConsoleTypes
<1>2. LifeInv' BY <1>a, <1>b, <1>c, <1>n DEF LifeInv
<1>3. InputInv' BY <1>a, <1>b, CompleteInput
<1>4. TodoInv'
  <2>1. \A u \in Tty : todo[u] # {} => lock'[u] # "none" /\ u \in exists
    BY <1>a, <1>l, <1>t DEF TodoInv
  <2>2. \A u \in Tty : \A d \in todo[u] : owner[d][1] = u /\ ready'[d]
    BY <1>a, <1>c DEF TodoInv, ConsoleTypes
  <2> QED BY <1>a, <1>b, <1>c, <1>n, <2>1, <2>2 DEF TodoInv
<1>5. StreamInv'
  <2>1. \A d \in Client : Seen(d)' = Seen(d) /\ Due(d)' = Due(d) BY <1>b, <1>c DEF Seen, Due
  <2>2. ASSUME NEW d \in Client
        PROVE  /\ NoGap(stream'[d])
               /\ owner'[d] = NoOwner => ~ready'[d] /\ stream'[d] = <<>>
               /\ Live(d)' /\ ready'[d] /\ (running' \/ stream'[d] # <<>>) => Seen(d)' = Due(d)'
               /\ Live(d)' /\ ~ready'[d] => stream'[d] = <<>>
    <3>0. NoGap(stream'[d]) BY <1>a, <1>c DEF StreamInv
    <3>1. CASE d = c
      <4>1. owner[d] # NoOwner BY <1>t, <3>1 DEF NoOwner, ConsoleAssumption
      <4>2. Live(d) => ready'[d] BY <1>c, <1>t, <3>1
      <4>3. Live(d) => Seen(d) = Due(d)
        <5>1. Live(d) => stream[d] = Replayed(out[t]) BY <1>t, <3>1 DEF Live
        <5>2. out[t] \in Nat BY <1>a, <1>t DEF ConsoleTypes
        <5>3. Due(d) = out[t] BY <1>t, <3>1 DEF Due
        <5> QED BY <5>1, <5>2, <5>3, ReplayedFacts DEF Seen
      <4> QED BY <1>c, <1>d, <2>1, <3>0, <4>1, <4>2, <4>3
    <3>2. CASE d # c
      <4>1. ready'[d] <=> ready[d] BY <1>c, <3>2
      <4> QED BY <1>a, <1>b, <1>c, <1>d, <2>1, <3>0, <3>2, <4>1 DEF StreamInv
    <3> QED BY <3>1, <3>2
  <2> QED BY <1>b, <2>2 DEF StreamInv
<1> QED BY <1>1, <1>2, <1>3, <1>4, <1>5 DEF ConsoleInv

-----------------------------------------------------------------------------
(* Output.                                                                 *)

\* The next character on a stream.
LEMMA AppendNoGap ==
  ASSUME NEW s \in Seq(Nat), NEW ch \in Nat, NoGap(s), s # <<>> => ch = s[Len(s)] + 1
  PROVE  /\ NoGap(Append(s, ch)) /\ Append(s, ch) # <<>>
         /\ Append(s, ch)[Len(Append(s, ch))] = ch
<1> PICK p : p = Append(s, ch) OBVIOUS
<1>1. /\ Len(s) \in Nat /\ p \in Seq(Nat) /\ Len(p) = Len(s) + 1 /\ p[Len(s) + 1] = ch
      /\ \A i \in 1..Len(s) : p[i] = s[i]
  OBVIOUS
<1>2. p # <<>> BY <1>1
<1>3. ASSUME NEW i \in 1..(Len(p) - 1) PROVE p[i + 1] = p[i] + 1
  <2>1. i \in 1..Len(s) BY <1>1
  <2>2. CASE i < Len(s)
    <3>1. i \in 1..(Len(s) - 1) /\ i + 1 \in 1..Len(s) BY <1>1, <2>1, <2>2
    <3> QED BY <1>1, <3>1 DEF NoGap
  <2>3. CASE i = Len(s)
    <3>1. s # <<>> BY <1>1, <2>1
    <3> QED BY <1>1, <2>1, <2>3, <3>1
  <2> QED BY <1>1, <2>1, <2>2, <2>3
<1> QED BY <1>1, <1>2, <1>3 DEF NoGap

\* The listeners of an open terminal.
LEMMA ListenersLive ==
  ASSUME ConsoleTypes, ConsoleAssumption, NEW t \in Tty, NEW c \in Client
  PROVE  /\ c \in Listeners(t) => ready[c] /\ owner[c][1] = t /\ owner[c] # NoOwner
         /\ c \in Listeners(t) /\ endpoint[t] = "active" => Live(c)
         /\ Live(c) /\ ready[c] /\ owner[c][1] = t => c \in Listeners(t) /\ endpoint[t] = "active"
<1>1. c \in Listeners(t) <=> active[c] /\ Current(c) /\ owner[c][1] = t /\ ready[c]
  BY DEF Listeners, Channels
<1>2. owner[c][1] = t => owner[c] # NoOwner BY OwnerType
<1> QED BY <1>1, <1>2 DEF Live, State

\* vtty_put_char: the listeners get the character, or the write is held up.
LEMMA PutStep ==
  ASSUME ConsoleInv, ConsoleAssumption, NEW t \in Tty, NEW who \in {"cpu", "thread"}, Put(t, who)
  PROVE  ConsoleInv'
<1>a. ConsoleTypes /\ LifeInv /\ InputInv /\ TodoInv /\ StreamInv BY DEF ConsoleInv
<1>b. /\ t \in exists /\ lock[t] = "none"
      /\ who = "cpu" => ctl.tty # t \/ ctl.op = "quiesce"
      /\ who = "thread" => thread = "input" /\ EventTty = t
      /\ UNCHANGED <<started, running, thread, event, events, list_lock, exists, listed,
                     endpoint, gen, ctl>>
  BY DEF Put, lifeVars, threadVars, ttyVars
<1>l. t \in listed
  <2>1. CASE who = "cpu" BY <1>a, <1>b, <2>1 DEF TodoInv
  <2>2. CASE who = "thread" BY <1>a, <1>b, <2>2 DEF LifeInv
  <2> QED BY <2>1, <2>2
<1>n. ~(ctl.pc = "drain" /\ ctl.op = "delete" /\ ctl.tty = t)
  <2>1. CASE who = "cpu" BY <1>b, <2>1
  <2>2. CASE who = "thread" BY <1>a, <1>b, <2>2 DEF LifeInv
  <2> QED BY <2>1, <2>2
<1>o. todo[t] = {} /\ out[t] \in Nat BY <1>a, <1>b DEF TodoInv, ConsoleTypes
<1>e. thread = "complete" => /\ EventTty # t /\ event.client \in Client
                             /\ owner[event.client][1] = EventTty /\ EventTty \in Tty
  BY <1>a, <1>b DEF TodoInv, LifeInv, Event, ConsoleTypes
<1>1. CASE /\ endpoint[t] = "active" /\ \E c \in Listeners(t) : pending[c] = Limit
           /\ todo' = [todo EXCEPT ![t] = Listeners(t)]
           /\ lock' = [lock EXCEPT ![t] = who]
           /\ UNCHANGED <<chanVars, out>>
  <2>b. UNCHANGED <<out, owner, active, ready, reading, pending, stream>> BY <1>1 DEF chanVars
  <2>c. /\ todo'[t] = Listeners(t) /\ lock'[t] = who /\ Listeners(t) # {}
        /\ \A u \in Tty : u # t => todo'[u] = todo[u] /\ lock'[u] = lock[u]
        /\ todo' \in [Tty -> SUBSET Client] /\ lock' \in [Tty -> {"none", "thread", "cpu"}]
    <3>1. Listeners(t) \subseteq Client BY DEF Listeners, Channels
    <3> QED BY <1>1, <1>a, <3>1 DEF ConsoleTypes
  <2>d. \A d \in Client : Live(d)' => Live(d) BY <1>a, <1>b, <2>b, LiveLess
  <2>1. ConsoleTypes' BY <1>a, <1>b, <2>b, <2>c DEF ConsoleTypes
  <2>2. LifeInv' BY <1>a, <1>b, <2>b, LifeKept DEF ttyVars
  <2>3. InputInv' BY <1>a, <1>b, <2>b, <2>d, InputKept
  <2>4. TodoInv'
    <3>1. \A u \in Tty : todo'[u] # {} => lock'[u] # "none" /\ u \in exists'
      BY <1>a, <1>b, <2>c DEF TodoInv
    <3>2. ASSUME NEW u \in Tty, NEW d \in todo'[u] PROVE owner'[d][1] = u /\ ready'[d]
      <4>1. d \in Client BY <2>c, <3>2
      <4>2. CASE u = t BY <1>a, <2>b, <2>c, <3>2, <4>1, <4>2, ListenersLive
      <4>3. CASE u # t BY <1>a, <2>b, <2>c, <3>2, <4>3 DEF TodoInv
      <4> QED BY <4>2, <4>3
    <3>3. \A u \in Tty : u \in exists' \ listed' =>
            /\ ctl' = [pc |-> "list", op |-> "create", tty |-> u]
            /\ out'[u] = 0 /\ todo'[u] = {}
      BY <1>a, <1>b, <1>l, <2>b, <2>c DEF TodoInv
    <3>4. ctl'.pc = "drain" /\ ctl'.op = "delete" => todo'[ctl'.tty] = {}
      BY <1>a, <1>b, <1>n, <2>c DEF TodoInv, LifeInv, ConsoleTypes
    <3>5. thread' = "complete" =>
            event'.connected /\ lock'[EventTty'] = "thread" /\ todo'[EventTty'] = {}
      <4>1. EventTty' = EventTty BY <1>b, <2>b DEF EventTty
      <4> QED BY <1>a, <1>b, <1>e, <2>c, <4>1 DEF TodoInv
    <3>6. /\ thread' = "greet" => event'.connected
          /\ thread' = "input" => ~event'.connected
      BY <1>a, <1>b DEF TodoInv
    <3> QED BY <3>1, <3>2, <3>3, <3>4, <3>5, <3>6 DEF TodoInv
  <2>5. StreamInv'
    <3>1. ASSUME NEW d \in Client, Live(d), ready[d] PROVE Due(d)' = Due(d)
      <4>1. owner[d][1] \in Tty BY <1>a, <3>1, LiveDef
      <4>2. CASE owner[d][1] = t
        <5>1. d \in Listeners(t) BY <1>a, <3>1, <4>2, ListenersLive
        <5> QED BY <1>o, <2>b, <2>c, <4>2, <5>1 DEF Due
      <4>3. CASE owner[d][1] # t BY <2>b, <2>c, <4>1, <4>3 DEF Due
      <4> QED BY <4>2, <4>3
    <3>2. \A d \in Client : Seen(d)' = Seen(d) BY <2>b DEF Seen
    <3>3. thread' = "complete" /\ active'[event'.client] =>
            stream'[event'.client] = Replayed(out'[EventTty'])
      BY <1>a, <1>b, <2>b DEF StreamInv, EventTty
    <3> QED BY <1>a, <1>b, <2>b, <2>d, <3>1, <3>2, <3>3 DEF StreamInv
  <2> QED BY <2>1, <2>2, <2>3, <2>4, <2>5 DEF ConsoleInv
<1>2. CASE /\ ~(endpoint[t] = "active" /\ \E c \in Listeners(t) : pending[c] = Limit)
           /\ IF endpoint[t] = "active"
              THEN Enqueue(Listeners(t), out[t] + 1) ELSE UNCHANGED chanVars
           /\ out' = [out EXCEPT ![t] = @ + 1]
           /\ UNCHANGED <<todo, lock>>
  <2>c. /\ UNCHANGED <<owner, active, ready, reading, todo, lock>>
        /\ pending' \in [Client -> 0..Limit] /\ stream' \in [Client -> Seq(Nat)]
        /\ \A c \in Client :
             stream'[c] = IF c \in Listeners(t) /\ endpoint[t] = "active"
                          THEN Append(stream[c], out[t] + 1) ELSE stream[c]
    <3>1. CASE endpoint[t] = "active"
      <4>1. Enqueue(Listeners(t), out[t] + 1) /\ \A c \in Listeners(t) : pending[c] # Limit
        BY <1>2, <3>1
      <4>2. out[t] + 1 \in Nat BY <1>o
      <4> PICK S : S = Listeners(t) OBVIOUS
      <4>3. /\ UNCHANGED <<owner, active, ready, reading>>
            /\ pending' \in [Client -> 0..Limit] /\ stream' \in [Client -> Seq(Nat)]
            /\ \A c \in Client : stream'[c] = IF c \in S THEN Append(stream[c], out[t] + 1) ELSE stream[c]
        BY <1>a, <4>1, <4>2, EnqueueFacts
      <4> QED BY <1>2, <3>1, <4>3
    <3>2. CASE endpoint[t] # "active"
      <4>1. UNCHANGED <<owner, active, ready, reading, pending, stream>> BY <1>2, <3>2 DEF chanVars
      <4> QED BY <1>2, <1>a, <3>2, <4>1 DEF ConsoleTypes
    <3> QED BY <3>1, <3>2
  <2>o. /\ out' \in [Tty -> Nat] /\ out'[t] = out[t] + 1
        /\ \A u \in Tty : u # t => out'[u] = out[u]
    BY <1>2, <1>a, <1>o DEF ConsoleTypes
  <2>d. \A d \in Client : Live(d)' => Live(d) BY <1>a, <1>b, <2>c, LiveLess
  <2>1. ConsoleTypes' BY <1>a, <1>b, <2>c, <2>o DEF ConsoleTypes
  <2>2. LifeInv' BY <1>a, <1>b, <2>c, LifeKept DEF ttyVars
  <2>3. InputInv' BY <1>a, <1>b, <2>c, <2>d, InputKept
  <2>4. TodoInv'
    <3>1. \A u \in Tty : u \in exists' \ listed' =>
            /\ ctl' = [pc |-> "list", op |-> "create", tty |-> u]
            /\ out'[u] = 0 /\ todo'[u] = {}
      BY <1>a, <1>b, <1>l, <2>c, <2>o DEF TodoInv
    <3> QED BY <1>a, <1>b, <2>c, <3>1 DEF TodoInv, EventTty
  <2>5. StreamInv'
    <3>1. ASSUME NEW d \in Client, d \in Listeners(t), endpoint[t] = "active"
          PROVE  /\ NoGap(stream'[d]) /\ stream'[d] # <<>> /\ Seen(d)' = out[t] + 1
                 /\ Due(d)' = out[t] + 1 /\ ready[d] /\ owner[d] # NoOwner
      <4>1. Live(d) /\ ready[d] /\ owner[d][1] = t /\ owner[d] # NoOwner
        BY <1>a, <3>1, ListenersLive
      <4>2. Due(d) = out[t] BY <1>o, <4>1 DEF Due
      <4>3. stream[d] \in Seq(Nat) /\ NoGap(stream[d]) BY <1>a DEF ConsoleTypes, StreamInv
      <4>4. stream[d] # <<>> => out[t] + 1 = stream[d][Len(stream[d])] + 1
        BY <1>a, <4>1, <4>2 DEF StreamInv, Seen
      <4>5. stream'[d] = Append(stream[d], out[t] + 1) BY <2>c, <3>1
      <4>6. out[t] + 1 \in Nat BY <1>o
      <4>7. /\ NoGap(stream'[d]) /\ stream'[d] # <<>>
            /\ stream'[d][Len(stream'[d])] = out[t] + 1
        BY <4>3, <4>4, <4>5, <4>6, AppendNoGap
      <4>8. Due(d)' = out[t] + 1 BY <1>o, <2>c, <2>o, <4>1 DEF Due
      <4> QED BY <4>1, <4>7, <4>8 DEF Seen
    <3>2. ASSUME NEW d \in Client, ~(d \in Listeners(t) /\ endpoint[t] = "active")
          PROVE  /\ stream'[d] = stream[d] /\ Seen(d)' = Seen(d)
                 /\ Live(d) /\ ready[d] => Due(d)' = Due(d)
      <4>1. stream'[d] = stream[d] BY <2>c, <3>2
      <4>2. ASSUME Live(d), ready[d] PROVE Due(d)' = Due(d)
        <5>1. owner[d][1] # t BY <1>a, <3>2, <4>2, ListenersLive
        <5>2. owner[d][1] \in Tty BY <1>a, <4>2, LiveDef
        <5> QED BY <2>c, <2>o, <5>1, <5>2 DEF Due
      <4> QED BY <4>1, <4>2 DEF Seen
    <3>3. thread' = "complete" /\ active'[event'.client] =>
            stream'[event'.client] = Replayed(out'[EventTty'])
      <4> SUFFICES ASSUME thread = "complete", active[event.client]
                   PROVE  stream'[event.client] = Replayed(out'[EventTty'])
        BY <1>b, <2>c
      <4> PICK c : c = event.client OBVIOUS
      <4>1. c \in Client /\ owner[c][1] # t /\ EventTty # t /\ EventTty \in Tty BY <1>e
      <4>2. c \notin Listeners(t) BY <1>a, <4>1, ListenersLive
      <4>3. stream'[c] = stream[c] /\ stream[c] = Replayed(out[EventTty])
        BY <1>a, <3>2, <4>1, <4>2 DEF StreamInv
      <4>4. out'[EventTty] = out[EventTty] BY <2>o, <4>1
      <4>5. EventTty' = EventTty BY <1>b, <2>c DEF EventTty
      <4> QED BY <4>3, <4>4, <4>5
    <3>4. ASSUME NEW d \in Client
          PROVE  /\ NoGap(stream'[d])
                 /\ owner'[d] = NoOwner => ~ready'[d] /\ stream'[d] = <<>>
                 /\ Live(d)' /\ ready'[d] /\ (running' \/ stream'[d] # <<>>) => Seen(d)' = Due(d)'
                 /\ Live(d)' /\ ~ready'[d] /\ ~(thread' = "complete" /\ event'.client = d) =>
                      stream'[d] = <<>>
      <4>1. CASE d \in Listeners(t) /\ endpoint[t] = "active" BY <2>c, <3>1, <4>1
      <4>2. CASE ~(d \in Listeners(t) /\ endpoint[t] = "active")
        BY <1>a, <1>b, <2>c, <2>d, <3>2, <4>2 DEF StreamInv
      <4> QED BY <4>1, <4>2
    <3> QED BY <3>3, <3>4 DEF StreamInv
  <2> QED BY <2>1, <2>2, <2>3, <2>4, <2>5 DEF ConsoleInv
<1> QED BY <1>1, <1>2 DEF Put

\* A write that was held up serves its next listener.
LEMMA PutWaitStep ==
  ASSUME ConsoleInv, ConsoleAssumption, NEW t \in Tty, NEW c \in Client, PutWait(t, c)
  PROVE  ConsoleInv'
<1>a. ConsoleTypes /\ LifeInv /\ InputInv /\ TodoInv /\ StreamInv BY DEF ConsoleInv
<1>b. /\ c \in todo[t] /\ todo' = [todo EXCEPT ![t] = @ \ {c}]
      /\ \/ todo'[t] = {} /\ out' = [out EXCEPT ![t] = @ + 1] /\ lock' = [lock EXCEPT ![t] = "none"]
         \/ todo'[t] # {} /\ out' = out /\ lock' = lock
      /\ UNCHANGED <<started, running, thread, event, events, list_lock, exists, listed,
                     endpoint, gen, ctl>>
  BY DEF PutWait, Record, lifeVars, threadVars, ttyVars
<1>k. owner[c][1] = t /\ ready[c] /\ owner[c] # NoOwner /\ out[t] \in Nat
  BY <1>a, <1>b, OwnerType DEF TodoInv, ConsoleTypes
<1>s. \/ Live(c) /\ pending[c] < Limit /\ Enqueue({c}, out[t] + 1)
      \/ Live(c) /\ Cancel({c})
      \/ ~Live(c) /\ UNCHANGED chanVars
  <2>1. pending[c] < Limit \/ pending[c] = Limit BY <1>a DEF ConsoleTypes, ConsoleAssumption
  <2> QED BY <2>1 DEF PutWait, Live
<1>c. /\ UNCHANGED <<owner, ready>>
      /\ active' \in [Client -> BOOLEAN] /\ reading' \in [Client -> BOOLEAN]
      /\ pending' \in [Client -> 0..Limit] /\ stream' \in [Client -> Seq(Nat)]
      /\ \A d \in Client : /\ active'[d] => active[d]
                           /\ reading'[d] => reading[d]
                           /\ reading[d] /\ active'[d] => reading'[d]
                           /\ d # c => stream'[d] = stream[d]
                           /\ d # c => active'[d] = active[d] /\ reading'[d] = reading[d]
      /\ \/ Live(c) /\ stream'[c] = Append(stream[c], out[t] + 1) /\ reading'[c] = reading[c]
         \/ (active'[c] => ~Live(c)) /\ stream'[c] = stream[c] /\ (Live(c) \/ reading'[c] = reading[c])
  <2>1. CASE Live(c) /\ pending[c] < Limit /\ Enqueue({c}, out[t] + 1)
    <3> PICK S : S = {c} OBVIOUS
    <3>1. out[t] + 1 \in Nat BY <1>k
    <3>2. \A d \in S : pending[d] # Limit BY <2>1, <1>a DEF ConsoleTypes, ConsoleAssumption
    <3>3. /\ UNCHANGED <<owner, active, ready, reading>>
          /\ pending' \in [Client -> 0..Limit] /\ stream' \in [Client -> Seq(Nat)]
          /\ \A d \in Client : stream'[d] = IF d \in S THEN Append(stream[d], out[t] + 1) ELSE stream[d]
      BY <1>a, <2>1, <3>1, <3>2, EnqueueFacts
    <3>4. active' \in [Client -> BOOLEAN] /\ reading' \in [Client -> BOOLEAN]
      BY <1>a, <3>3 DEF ConsoleTypes
    <3> QED BY <2>1, <3>3, <3>4
  <2>2. CASE Live(c) /\ Cancel({c})
    <3> PICK S : S = {c} OBVIOUS
    <3>1. /\ UNCHANGED <<owner, ready, stream>>
          /\ active' \in [Client -> BOOLEAN] /\ reading' \in [Client -> BOOLEAN]
          /\ pending' \in [Client -> 0..Limit]
          /\ \A d \in Client : /\ active'[d] <=> active[d] /\ d \notin S
                               /\ reading'[d] <=> reading[d] /\ d \notin S
      BY <1>a, <2>2, CancelFacts
    <3>2. stream' \in [Client -> Seq(Nat)] BY <1>a, <3>1 DEF ConsoleTypes
    <3>3. ASSUME NEW d \in Client, d # c
          PROVE  active'[d] = active[d] /\ reading'[d] = reading[d]
      <4>1. d \notin S /\ (active'[d] <=> active[d]) /\ (reading'[d] <=> reading[d])
        BY <3>1, <3>3
      <4>2. active[d] \in BOOLEAN /\ reading[d] \in BOOLEAN BY <1>a DEF ConsoleTypes
      <4>3. active'[d] \in BOOLEAN /\ reading'[d] \in BOOLEAN BY <3>1
      <4> QED BY <4>1, <4>2, <4>3
    <3> QED BY <2>2, <3>1, <3>2, <3>3
  <2>3. CASE ~Live(c) /\ UNCHANGED chanVars
    <3>1. UNCHANGED <<owner, active, ready, reading, pending, stream>> BY <2>3 DEF chanVars
    <3> QED BY <1>a, <2>3, <3>1 DEF ConsoleTypes
  <2> QED BY <1>s, <2>1, <2>2, <2>3
<1>t. /\ todo'[t] = todo[t] \ {c} /\ todo' \in [Tty -> SUBSET Client]
      /\ \A u \in Tty : u # t => todo'[u] = todo[u]
  BY <1>a, <1>b DEF ConsoleTypes
<1>l. /\ lock' \in [Tty -> {"none", "thread", "cpu"}]
      /\ \A u \in Tty : u # t => lock'[u] = lock[u]
      /\ todo'[t] # {} => lock'[t] = lock[t]
  BY <1>a, <1>b DEF ConsoleTypes
<1>o. /\ out' \in [Tty -> Nat] /\ out'[t] = IF todo'[t] = {} THEN out[t] + 1 ELSE out[t]
      /\ \A u \in Tty : u # t => out'[u] = out[u]
  <2>1. out \in [Tty -> Nat] /\ out[t] + 1 \in Nat BY <1>a, <1>k DEF ConsoleTypes
  <2>2. CASE todo'[t] = {} /\ out' = [out EXCEPT ![t] = @ + 1] BY <2>1, <2>2
  <2>3. CASE todo'[t] # {} /\ out' = out BY <2>1, <2>3
  <2> QED BY <1>b, <2>2, <2>3
<1>d. \A d \in Client : Live(d)' => Live(d) BY <1>a, <1>b, <1>c, LiveLess
<1>e. thread = "complete" => /\ EventTty # t /\ event.client \in Client /\ event.client # c
                             /\ owner[event.client][1] = EventTty /\ EventTty \in Tty
  BY <1>a, <1>b, <1>k DEF TodoInv, LifeInv, Event, ConsoleTypes
<1>1. ConsoleTypes'
  <2>1. UNCHANGED <<started, running, thread, event, events, exists, listed, endpoint, gen,
                    owner, ready, ctl>>
    BY <1>b, <1>c
  <2>2. out' \in [Tty -> Nat] BY <1>o
  <2>3. /\ active' \in [Client -> BOOLEAN] /\ reading' \in [Client -> BOOLEAN]
        /\ pending' \in [Client -> 0..Limit] /\ stream' \in [Client -> Seq(Nat)]
    BY <1>c
  <2> QED BY <1>a, <1>l, <1>t, <2>1, <2>2, <2>3 DEF ConsoleTypes
<1>2. LifeInv' BY <1>a, <1>b, <1>c, LifeKept DEF ttyVars
<1>3. InputInv'
  <2>1. \A d \in Client : Live(d)' => (reading[d] => reading'[d]) BY <1>c DEF Live
  <2> QED BY <1>a, <1>b, <1>c, <1>d, <2>1, InputKept
<1>4. TodoInv'
  <2>1. \A u \in Tty : todo'[u] # {} => lock'[u] # "none" /\ u \in exists'
    BY <1>a, <1>b, <1>l, <1>t DEF TodoInv
  <2>2. \A u \in Tty : \A d \in todo'[u] : owner'[d][1] = u /\ ready'[d]
    BY <1>a, <1>b, <1>c, <1>t DEF TodoInv
  <2>3. \A u \in Tty : u \in exists' \ listed' =>
          /\ ctl' = [pc |-> "list", op |-> "create", tty |-> u]
          /\ out'[u] = 0 /\ todo'[u] = {}
    BY <1>a, <1>b, <1>o, <1>t DEF TodoInv
  <2>4. ctl'.pc = "drain" /\ ctl'.op = "delete" => todo'[ctl'.tty] = {}
    BY <1>a, <1>b, <1>t DEF TodoInv, LifeInv, ConsoleTypes
  <2>5. thread' = "complete" =>
          event'.connected /\ lock'[EventTty'] = "thread" /\ todo'[EventTty'] = {}
    <3>1. EventTty' = EventTty BY <1>b, <1>c DEF EventTty
    <3> QED BY <1>a, <1>b, <1>e, <1>l, <1>t, <3>1 DEF TodoInv
  <2>6. /\ thread' = "greet" => event'.connected
        /\ thread' = "input" => ~event'.connected
    BY <1>a, <1>b DEF TodoInv
  <2> QED BY <2>1, <2>2, <2>3, <2>4, <2>5, <2>6 DEF TodoInv
<1>5. StreamInv'
  <2>1. ASSUME NEW d \in Client, Live(d), d # c PROVE Due(d)' = Due(d)
    <3>1. owner[d][1] \in Tty BY <1>a, <2>1, LiveDef
    <3>2. CASE owner[d][1] = t
      <4>1. CASE todo'[t] = {}
        <5>1. todo[t] # {} /\ d \notin todo[t] BY <1>b, <1>t, <2>1, <4>1
        <5> QED BY <1>c, <1>o, <3>2, <4>1, <5>1 DEF Due
      <4>2. CASE todo'[t] # {}
        <5>1. todo[t] # {} /\ (d \in todo'[t] <=> d \in todo[t]) BY <1>b, <1>t, <2>1
        <5> QED BY <1>c, <1>o, <3>2, <4>2, <5>1 DEF Due
      <4> QED BY <4>1, <4>2
    <3>3. CASE owner[d][1] # t BY <1>c, <1>o, <1>t, <3>1, <3>3 DEF Due
    <3> QED BY <3>2, <3>3
  <2>2. Due(c) = out[t] /\ Due(c)' = out[t] + 1 BY <1>b, <1>c, <1>k, <1>o, <1>t DEF Due
  <2>3. CASE Live(c) /\ stream'[c] = Append(stream[c], out[t] + 1)
    <3>1. stream[c] \in Seq(Nat) /\ NoGap(stream[c]) BY <1>a DEF ConsoleTypes, StreamInv
    <3>2. stream[c] # <<>> => out[t] + 1 = stream[c][Len(stream[c])] + 1
      BY <1>a, <1>k, <2>2, <2>3 DEF StreamInv, Seen
    <3>3. out[t] + 1 \in Nat BY <1>k
    <3>4. /\ NoGap(stream'[c]) /\ stream'[c] # <<>> /\ Seen(c)' = out[t] + 1
      BY <2>3, <3>1, <3>2, <3>3, AppendNoGap DEF Seen
    <3>5. ASSUME NEW d \in Client
          PROVE  /\ NoGap(stream'[d])
                 /\ owner'[d] = NoOwner => ~ready'[d] /\ stream'[d] = <<>>
                 /\ Live(d)' /\ ready'[d] /\ (running' \/ stream'[d] # <<>>) => Seen(d)' = Due(d)'
                 /\ Live(d)' /\ ~ready'[d] /\ ~(thread' = "complete" /\ event'.client = d) =>
                      stream'[d] = <<>>
      <4>1. CASE d = c BY <1>c, <1>k, <2>2, <3>4, <4>1
      <4>2. CASE d # c
        <5>1. stream'[d] = stream[d] /\ Seen(d)' = Seen(d) BY <1>c, <4>2 DEF Seen
        <5> QED BY <1>a, <1>b, <1>c, <1>d, <2>1, <4>2, <5>1 DEF StreamInv
      <4> QED BY <4>1, <4>2
    <3>6. thread' = "complete" /\ active'[event'.client] =>
            stream'[event'.client] = Replayed(out'[EventTty'])
      BY <1>a, <1>b, <1>c, <1>e, <1>o DEF StreamInv, EventTty
    <3> QED BY <3>5, <3>6 DEF StreamInv
  <2>4. CASE (active'[c] => ~Live(c)) /\ stream'[c] = stream[c]
    <3>1. ~Live(c)' BY <1>d, <2>4 DEF Live
    <3>2. ASSUME NEW d \in Client
          PROVE  /\ NoGap(stream'[d])
                 /\ owner'[d] = NoOwner => ~ready'[d] /\ stream'[d] = <<>>
                 /\ Live(d)' /\ ready'[d] /\ (running' \/ stream'[d] # <<>>) => Seen(d)' = Due(d)'
                 /\ Live(d)' /\ ~ready'[d] /\ ~(thread' = "complete" /\ event'.client = d) =>
                      stream'[d] = <<>>
      <4>1. stream'[d] = stream[d] /\ Seen(d)' = Seen(d) BY <1>c, <2>4 DEF Seen
      <4>2. Live(d)' => d # c BY <3>1
      <4> QED BY <1>a, <1>b, <1>c, <1>d, <2>1, <4>1, <4>2 DEF StreamInv
    <3>3. thread' = "complete" /\ active'[event'.client] =>
            stream'[event'.client] = Replayed(out'[EventTty'])
      BY <1>a, <1>b, <1>c, <1>e, <1>o DEF StreamInv, EventTty
    <3> QED BY <3>2, <3>3 DEF StreamInv
  <2> QED BY <1>c, <2>3, <2>4
<1> QED BY <1>1, <1>2, <1>3, <1>4, <1>5 DEF ConsoleInv

-----------------------------------------------------------------------------
(* The invariant of the terminals.                                         *)

\* Nothing is there before the first start.
LEMMA ConsoleStarts ==
  ASSUME Init, ConsoleAssumption
  PROVE  ConsoleInv
<1>1. /\ started = FALSE /\ running = FALSE /\ thread = "off" /\ event = NoEvent /\ events = <<>>
      /\ list_lock = "none" /\ exists = {} /\ listed = {} /\ ctl = Idle
      /\ lock = [t \in Tty |-> "none"] /\ endpoint = [t \in Tty |-> "none"]
      /\ gen = [t \in Tty |-> 0] /\ out = [t \in Tty |-> 0] /\ todo = [t \in Tty |-> {}]
  BY DEF Init
<1>2. /\ owner = [c \in Client |-> NoOwner] /\ active = [c \in Client |-> FALSE]
      /\ ready = [c \in Client |-> FALSE] /\ reading = [c \in Client |-> FALSE]
      /\ pending = [c \in Client |-> 0] /\ stream = [c \in Client |-> <<>>]
  BY DEF Init
<1>3. ctl.pc = "idle" /\ ctl.op = "none" /\ ctl.tty = NoTty BY <1>1 DEF Idle
<1>4. ConsoleTypes
  <2>1. /\ events \in Seq(Event) /\ <<>> \in Seq(Nat) /\ 0 \in 0..Limit
    BY <1>1 DEF ConsoleAssumption
  <2>2. stream \in [Client -> Seq(Nat)] /\ pending \in [Client -> 0..Limit] BY <1>2, <2>1
  <2>3. todo \in [Tty -> SUBSET Client] BY <1>1
  <2>4. ctl \in [pc : {"idle", "list", "drain", "stop", "join"},
                 op : {"none", "create", "quiesce", "delete", "shutdown"},
                 tty : Tty \cup {NoTty}]
    BY <1>1 DEF Idle
  <2>5. owner \in [Client -> (Tty \X Nat) \cup {NoOwner}] BY <1>2
  <2> QED BY <1>1, <1>2, <2>1, <2>2, <2>3, <2>4, <2>5 DEF ConsoleTypes
<1>5. LifeInv BY <1>1, <1>2, <1>3 DEF LifeInv
<1>6. \A c \in Client : ~Live(c) BY <1>2 DEF Live
<1>7. InputInv
  <2>1. DOMAIN events = {} BY <1>1
  <2> QED BY <1>1, <1>2, <1>6, <2>1 DEF InputInv
<1>8. TodoInv BY <1>1, <1>3 DEF TodoInv
<1>9. StreamInv
  <2>1. NoGap(<<>>) BY DEF NoGap
  <2> QED BY <1>1, <1>2, <1>6, <2>1 DEF StreamInv
<1> QED BY <1>4, <1>5, <1>7, <1>8, <1>9 DEF ConsoleInv

\* A step of the timers leaves the terminals alone.
LEMMA ConsoleRests ==
  ASSUME ConsoleInv, ConsoleAssumption, UNCHANGED vars
  PROVE  ConsoleInv'
<1>a. ConsoleTypes /\ LifeInv /\ InputInv /\ TodoInv /\ StreamInv BY DEF ConsoleInv
<1>b. UNCHANGED <<started, running, thread, event, events, list_lock, lock, exists, listed,
                  endpoint, gen, out, todo, owner, active, ready, reading, pending, stream, ctl>>
  BY DEF vars, lifeVars, threadVars, ttyVars, chanVars
<1>d. \A d \in Client : Live(d)' => Live(d) BY <1>a, <1>b, LiveLess
<1>1. ConsoleTypes' BY <1>a, <1>b DEF ConsoleTypes
<1>2. LifeInv' BY <1>a, <1>b, LifeKept DEF ttyVars
<1>3. InputInv' BY <1>a, <1>b, <1>d, InputKept
<1>4. TodoInv' BY <1>a, <1>b, TodoKept
<1>5. StreamInv' BY <1>a, <1>b, <1>d, StreamKept
<1> QED BY <1>1, <1>2, <1>3, <1>4, <1>5 DEF ConsoleInv

\* Every step of the terminals keeps the invariant.
LEMMA ConsoleSteps ==
  ASSUME ConsoleInv, ConsoleAssumption, Next
  PROVE  ConsoleInv'
<1>1. CASE Thread
  BY <1>1, TakeStep, LockListStep, GreetStep, CompleteStep, InputStep DEF Thread
<1>2. CASE Held BY <1>2, PutWaitStep DEF Held
<1>3. CASE Controller
  BY <1>3, CreateListedStep, DetachedStep, StopConsoleStep, JoinStep DEF Controller
<1>4. CASE \E c \in Client : Received(c) \/ Disconnected(c) \/ Sent(c)
  BY <1>4, ReceivedStep, DisconnectedStep, SentStep
<1>5. CASE \E c \in Client, t \in Tty : Accepted(c, t) BY <1>5, AcceptedStep
<1>6. CASE \E t \in Tty : Put(t, "cpu") \/ Put(t, "thread") \/ Create(t)
  BY <1>6, PutStep, CreateStep
<1>7. CASE \E t \in Tty, op \in {"quiesce", "delete"} : Detach(t, op) BY <1>7, DetachStep
<1>8. CASE Start \/ Shutdown BY <1>8, StartConsoleStep, ShutdownStep
<1> QED BY <1>1, <1>2, <1>3, <1>4, <1>5, <1>6, <1>7, <1>8 DEF Next

\* The invariant of the terminals holds in every behaviour of the services.
LEMMA ConsoleAlways == ServicesSpec => []ConsoleInv
<1>1. ServicesInit => ConsoleInv
  BY ConsoleStarts, ServicesAssumption DEF ServicesInit
<1>2. ConsoleInv /\ [ServicesNext]_<<service, vars, timerVars>> => ConsoleInv'
  BY ConsoleSteps, ConsoleRests, ServicesAssumption DEF ServicesNext, ConsoleStep, TimerStep
<1> QED BY <1>1, <1>2, PTL DEF ServicesSpec

-----------------------------------------------------------------------------
(* What the invariants say of the properties.                              *)

\* The terminal of an event that is worked on is listed, and exists.
LEMMA ConsoleOwned ==
  ASSUME ConsoleInv
  PROVE  EventOwned
BY DEF ConsoleInv, ConsoleTypes, LifeInv, EventOwned

\* Of the three uses of an input buffer a connection has at most one, and if it
\* is open, one.
LEMMA ConsoleInputOnce ==
  ASSUME ConsoleInv
  PROVE  OneInput
<1>a. InputInv BY DEF ConsoleInv
<1> SUFFICES ASSUME NEW c \in Client
             PROVE  /\ Cardinality(Uses(c)) <= 1
                    /\ active[c] /\ State(c) = "active" => Uses(c) # {}
  BY DEF OneInput
<1>u. \A u : u \in Uses(c) <=> \/ u = <<"read", 0>> /\ reading[c]
                               \/ \E k \in DOMAIN events : u = <<"queued", k>> /\ events[k].client = c
                               \/ u = <<"taken", 0>> /\ event.client = c
  BY DEF Uses
<1>1. \A u, w \in Uses(c) : u = w
  <2>1. event.client = c => event # NoEvent
    BY ServicesAssumption DEF NoEvent, ConsoleAssumption
  <2> QED BY <1>a, <1>u, <2>1 DEF InputInv
<1>2. Cardinality(Uses(c)) <= 1
  <2>1. CASE Uses(c) = {} BY <2>1, FS_EmptySet
  <2>2. CASE Uses(c) # {}
    <3>1. PICK u : Uses(c) = {u} BY <1>1, <2>2
    <3> QED BY <3>1, FS_Singleton
  <2> QED BY <2>1, <2>2
<1>3. active[c] /\ State(c) = "active" => Uses(c) # {}
  <2> SUFFICES ASSUME Live(c) PROVE Uses(c) # {} BY DEF Live
  <2>1. reading[c] \/ event.client = c \/ \E k \in DOMAIN events : events[k].client = c
    BY <1>a DEF InputInv
  <2> QED BY <1>u, <2>1
<1> QED BY <1>2, <1>3

\* What a listener was sent ends with the character that is due.
LEMMA ConsoleContiguous ==
  ASSUME ConsoleInv
  PROVE  OutputContiguous
<1>a. ConsoleTypes /\ StreamInv BY DEF ConsoleInv
<1>b. ConsoleAssumption BY ServicesAssumption
<1> SUFFICES ASSUME NEW c \in Client
             PROVE  /\ NoGap(stream[c])
                    /\ \A t \in Tty : running /\ c \in Listeners(t) /\ endpoint[t] = "active" =>
                         Seen(c) = IF todo[t] = {} \/ c \in todo[t] THEN out[t] ELSE out[t] + 1
  BY DEF OutputContiguous, NoGap
<1>1. NoGap(stream[c]) BY <1>a DEF StreamInv
<1>2. ASSUME NEW t \in Tty, running, c \in Listeners(t), endpoint[t] = "active"
      PROVE  Seen(c) = IF todo[t] = {} \/ c \in todo[t] THEN out[t] ELSE out[t] + 1
  <2>1. Live(c) /\ ready[c] /\ owner[c][1] = t BY <1>a, <1>b, <1>2, ListenersLive
  <2>2. Seen(c) = Due(c) BY <1>a, <1>2, <2>1 DEF StreamInv
  <2> QED BY <2>1, <2>2 DEF Due
<1> QED BY <1>1, <1>2

-----------------------------------------------------------------------------
(* The theorems.                                                           *)

\* No callback for a removed timer, no event for another terminal
\* (timer.cpp, remove and arm; vtty_thread_main, vtty_io_active).
THEOREM ServicesCallbacksOwned == ServicesSpec => []CallbacksOwned
<1>1. TimerInv /\ ConsoleInv => CallbacksOwned
  BY TimerOwned, ConsoleOwned DEF CallbacksOwned
<1> QED BY <1>1, TimerAlways, ConsoleAlways, PTL

\* A registered timer has one wait, an open connection one use of its input
\* buffer (timer.cpp, arm and on_wait; terminals::read, vtty_io_complete).
THEOREM ServicesOnePending == ServicesSpec => []OnePending
<1>1. TimerInv /\ ConsoleInv => OnePending
  BY TimerLive, ConsoleInputOnce, ServicesAssumption DEF OnePending
<1> QED BY <1>1, TimerAlways, ConsoleAlways, PTL

\* A connection gets the replayed text and then what the guest writes, without
\* gap or repetition (vtty_tcp_connected, vtty_put_char, write).
THEOREM ServicesOutputContiguous == ServicesSpec => []OutputContiguous
<1>1. ConsoleInv => OutputContiguous BY ConsoleContiguous
<1> QED BY <1>1, ConsoleAlways, PTL

\* No callback begins for a timer whose creator was told of a failure: a wait
\* that is queued is of a timer that is cancelled by then (timer.cpp, invoke
\* and stop).
THEOREM ServicesRefusedSilent == ServicesSpec => RefusedSilent
<1>1. TimerInv /\ [ServicesNext]_<<service, vars, timerVars>>
        => [worker # "callback" /\ worker' = "callback" => t_active'.id \notin refused]_(T!vars)
  <2> SUFFICES ASSUME TimerInv, [ServicesNext]_<<service, vars, timerVars>>,
                      worker # "callback", worker' = "callback"
               PROVE  t_active'.id \notin refused
    OBVIOUS
  <2>1. worker' # worker OBVIOUS
  <2>2. T!Next BY <2>1 DEF ServicesNext, ConsoleStep, TimerStep, timerVars
  <2>3. T!CallbackBegins
    BY <2>1, <2>2 DEF T!Next, T!Worker, T!Caller, T!Start, T!Stop, T!StopJoined, T!Expire,
       T!TakeTask, T!RunTask, T!DropWait, T!CallbackEnds, T!CallbackOperates, T!WorkerEnds,
       T!Begin, T!Check, T!Post, T!Return, T!GiveUp, T!workVars
  <2>4. ~stopped /\ t_active'.id \notin cancelled
    BY <2>3 DEF T!CallbackBegins, T!Stale
  <2> QED BY <2>4 DEF TimerInv, ToldInv
<1> QED BY <1>1, TimerAlways, PTL DEF ServicesSpec, RefusedSilent, T!RefusedSilent
=============================================================================
