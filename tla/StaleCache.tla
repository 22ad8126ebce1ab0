----------------------------- MODULE StaleCache -----------------------------
(***************************************************************************)
(* What a cache promises whose entries were derived from something that    *)
(* can change behind it: the code of a page of instructions, the physical  *)
(* page of a virtual one.  An answer is the value of now, or one that was  *)
(* right at some time since the last operation that had to make the cache  *)
(* forget the key.  The code caches and the translation caches of both     *)
(* processors are shown to implement this.  The keys are the domain of     *)
(* what they stand for.                                                    *)
(***************************************************************************)
VARIABLES current,         \* what each key stands for now
          stale,           \* earlier values that may still be answered
          said             \* the last operation, and the answer it gave

Keys == DOMAIN current

cacheVars == <<current, stale, said>>

Operations == {"start", "change", "forget", "use", "other"}

Init ==
  /\ stale = [k \in Keys |-> {}]
  /\ said.op = "start"

(* A value that was overtaken may be kept; one that was dropped, or never   *)
(* was right, does not come back.                                           *)
Ages(k) == \A x \in stale'[k] : x = current[k] \/ x \in stale[k]

(* The values change, and nobody tells the cache.                           *)
Change == said'.op = "change" /\ \A k \in Keys : Ages(k)

(* The cache has to forget these keys, whatever changes at the same time.   *)
Forget ==
  /\ said'.op = "forget"
  /\ \A k \in Keys : IF k \in said'.keys THEN stale'[k] = {} ELSE Ages(k)

(* An answer.  To give it changes nothing that the keys stand for.          *)
Use ==
  /\ said'.op = "use"
  /\ said'.value = current[said'.key] \/ said'.value \in stale[said'.key]
  /\ current' = current
  /\ \A k \in Keys : stale'[k] \subseteq stale[k]

Other ==
  /\ said'.op = "other"
  /\ current' = current
  /\ \A k \in Keys : stale'[k] \subseteq stale[k]

Next == Change \/ Forget \/ Use \/ Other

Spec == Init /\ [][Next]_cacheVars
=============================================================================
