-------------------------------- MODULE Ver --------------------------------
(***************************************************************************)
(* Versions (verp/ver.h, verp/ver.c, include/refcnt-lock.h): a tree of     *)
(* versions that point to their parents, each with a reference count that  *)
(* threads raise and lower under the lock of the count.  Lowering the last *)
(* reference releases the version, which puts its reference to its parent, *)
(* which may release the parent, and so on; on the way back the versions   *)
(* go to a pool of the releasing thread, chained through ->parent.         *)
(*                                                                         *)
(* A reference the program holds is a handle, a variable of one thread.    *)
(* The program follows the rules of the interface: it operates on a        *)
(* version through a handle and puts each of its references once.          *)
(***************************************************************************)
EXTENDS Integers, Sequences, FiniteSets

CONSTANTS
  Versions,    (* the ver_t structures malloc may return *)
  Threads,
  Handles,     (* variables of the program that hold a reference *)
  Owner,       (* the thread of each handle              *)
  Null         (* the null pointer                       *)

ASSUME VersionsAssumption == IsFiniteSet(Versions) /\ Null \notin Versions
ASSUME ThreadsAssumption == IsFiniteSet(Threads)
ASSUME HandlesAssumption == IsFiniteSet(Handles) /\ Owner \in [Handles -> Threads]

VARIABLES
  parent,   (* ver->parent                                               *)
  rfcnt,    (* ver->rfcnt                                                *)
  status,   (* raw: not malloc'ed; live; dead: being released, its count *)
            (* is zero; free: in the pool of a thread                    *)
  ref,      (* the version each handle refers to                         *)
  drop,     (* the version a thread is about to refcnt_dec               *)
  stack,    (* the calls of ver_release a thread is in, innermost first  *)
  pool,     (* Ver_mm of each thread: the chain of free versions         *)
  look      (* ver_leq in progress: the versions compared, how far it is *)

vars == <<parent, rfcnt, status, ref, drop, stack, pool, look>>

NoLook == [on |-> FALSE, key |-> Null, from |-> Null, at |-> Null]

TypeOK ==
  /\ parent \in [Versions -> Versions \union {Null}]
  /\ rfcnt \in [Versions -> Nat]
  /\ status \in [Versions -> {"raw", "live", "dead", "free"}]
  /\ ref \in [Handles -> Versions \union {Null}]
  /\ drop \in [Threads -> Versions \union {Null}]
  /\ stack \in [Threads -> Seq(Versions)]
  /\ pool \in [Threads -> Seq(Versions)]
  /\ look \in [Threads -> [on : BOOLEAN, key : Versions \union {Null},
                           from : Versions \union {Null}, at : Versions \union {Null}]]

Init ==
  /\ parent = [v \in Versions |-> Null]
  /\ rfcnt = [v \in Versions |-> 0]
  /\ status = [v \in Versions |-> "raw"]
  /\ ref = [h \in Handles |-> Null]
  /\ drop = [t \in Threads |-> Null]
  /\ stack = [t \in Threads |-> <<>>]
  /\ pool = [t \in Threads |-> <<>>]
  /\ look = [t \in Threads |-> NoLook]

(* The thread is not inside one of the functions that take several steps. *)
Idle(t) == drop[t] = Null /\ stack[t] = <<>> /\ ~ look[t].on

(* A handle of t in use, and one that is not. *)
Holds(t, h) == Owner[h] = t /\ ref[h] # Null
Unused(t, h) == Owner[h] = t /\ ref[h] = Null

-----------------------------------------------------------------------------
(* Allocation *)

(* ver_mm_alloc gives v to t: the head of its pool, or fresh memory. *)
CanAlloc(t, v) ==
  IF pool[t] = <<>> THEN status[v] = "raw" ELSE v = Head(pool[t])

(* ver_mm_alloc and ver_init__ *)
AllocInit(t, v) ==
  /\ CanAlloc(t, v)
  /\ status' = [status EXCEPT ![v] = "live"]
  /\ pool' = [pool EXCEPT ![t] = IF @ = <<>> THEN @ ELSE Tail(@)]

(* ver_create *)
Create(t, h, v) ==
  /\ Idle(t) /\ Unused(t, h)
  /\ AllocInit(t, v)
  /\ parent' = [parent EXCEPT ![v] = Null]
  /\ rfcnt' = [rfcnt EXCEPT ![v] = 1]
  /\ ref' = [ref EXCEPT ![h] = v]
  /\ UNCHANGED <<drop, stack, look>>

(* ver_branch: v is a child of the version of h, and h2 refers to it. *)
Branch_NoParentRef(t, h, h2, v) ==
  /\ Idle(t) /\ Holds(t, h) /\ Unused(t, h2)
  /\ AllocInit(t, v)
  /\ rfcnt' = [rfcnt EXCEPT ![v] = 1]
  /\ parent' = [parent EXCEPT ![v] = ref[h]]
  /\ ref' = [ref EXCEPT ![h2] = v]
  /\ UNCHANGED <<drop, stack, look>>

Branch(t, h, h2, v) ==
  /\ Idle(t) /\ Holds(t, h) /\ Unused(t, h2)
  /\ AllocInit(t, v)
  /\ rfcnt' = [rfcnt EXCEPT ![v] = 1, ![ref[h]] = @ + 1]
  /\ parent' = [parent EXCEPT ![v] = ref[h]]
  /\ ref' = [ref EXCEPT ![h2] = v]
  /\ UNCHANGED <<drop, stack, look>>

-----------------------------------------------------------------------------
(* References *)

(* ver_getref, for a version that any thread refers to *)
GetRef(t, h, h2) ==
  /\ Idle(t) /\ ref[h] # Null /\ Unused(t, h2)
  /\ rfcnt' = [rfcnt EXCEPT ![ref[h]] = @ + 1]
  /\ ref' = [ref EXCEPT ![h2] = ref[h]]
  /\ UNCHANGED <<parent, status, drop, stack, pool, look>>

(* ver_putref (and ver_unpin) called; Decrement follows. *)
PutRef(t, h) ==
  /\ Idle(t) /\ Holds(t, h)
  /\ drop' = [drop EXCEPT ![t] = ref[h]]
  /\ ref' = [ref EXCEPT ![h] = Null]
  /\ UNCHANGED <<parent, rfcnt, status, stack, pool, look>>

(* ver_pin: refer to the new version, then put the reference to the old    *)
(* one, h2.                                                                *)
Pin(t, h, h2) ==
  /\ Idle(t) /\ Holds(t, h) /\ Holds(t, h2) /\ h # h2
  /\ rfcnt' = [rfcnt EXCEPT ![ref[h]] = @ + 1]
  /\ ref' = [ref EXCEPT ![h2] = ref[h]]
  /\ drop' = [drop EXCEPT ![t] = ref[h2]]
  /\ UNCHANGED <<parent, status, stack, pool, look>>

(* refcnt_dec: lower the count; at zero ver_release takes over, with the   *)
(* lock of the count held for good, and first puts the parent.             *)
Decrement_FreesAtOne(t) ==
  /\ drop[t] # Null
  /\ LET v == drop[t]
         last == rfcnt[v] <= 2
     IN  /\ rfcnt' = [rfcnt EXCEPT ![v] = @ - 1]
         /\ status' = IF last THEN [status EXCEPT ![v] = "dead"] ELSE status
         /\ stack' = IF last THEN [stack EXCEPT ![t] = <<v>> \o @] ELSE stack
         /\ drop' = [drop EXCEPT ![t] = IF last THEN parent[v] ELSE Null]
  /\ UNCHANGED <<parent, ref, pool, look>>

Decrement_ForgetsParent(t) ==
  /\ drop[t] # Null
  /\ LET v == drop[t]
         last == rfcnt[v] = 1
     IN  /\ rfcnt' = [rfcnt EXCEPT ![v] = @ - 1]
         /\ status' = IF last THEN [status EXCEPT ![v] = "dead"] ELSE status
         /\ stack' = IF last THEN [stack EXCEPT ![t] = <<v>> \o @] ELSE stack
         /\ drop' = [drop EXCEPT ![t] = Null]
  /\ UNCHANGED <<parent, ref, pool, look>>

Decrement(t) ==
  /\ drop[t] # Null
  /\ LET v == drop[t]
         last == rfcnt[v] = 1
     IN  /\ rfcnt' = [rfcnt EXCEPT ![v] = @ - 1]
         /\ status' = IF last THEN [status EXCEPT ![v] = "dead"] ELSE status
         /\ stack' = IF last THEN [stack EXCEPT ![t] = <<v>> \o @] ELSE stack
         /\ drop' = [drop EXCEPT ![t] = IF last THEN parent[v] ELSE Null]
  /\ UNCHANGED <<parent, ref, pool, look>>

(* ver_mm_free, on the way back through the calls of ver_release *)
Free_NotLinked(t) ==
  /\ drop[t] = Null /\ stack[t] # <<>>
  /\ LET v == Head(stack[t])
     IN  /\ status' = [status EXCEPT ![v] = "free"]
         /\ pool' = [pool EXCEPT ![t] = <<v>> \o @]
  /\ stack' = [stack EXCEPT ![t] = Tail(@)]
  /\ UNCHANGED <<parent, rfcnt, ref, drop, look>>

Free_OnlyOutermost(t) ==
  /\ drop[t] = Null /\ Len(stack[t]) = 1
  /\ status' = [status EXCEPT ![Head(stack[t])] = "free"]
  /\ parent' = [parent EXCEPT ![Head(stack[t])] = IF pool[t] = <<>> THEN Null ELSE Head(pool[t])]
  /\ pool' = [pool EXCEPT ![t] = stack[t] \o @]
  /\ stack' = [stack EXCEPT ![t] = <<>>]
  /\ UNCHANGED <<rfcnt, ref, drop, look>>

Free(t) ==
  /\ drop[t] = Null /\ stack[t] # <<>>
  /\ LET v == Head(stack[t])
     IN  /\ status' = [status EXCEPT ![v] = "free"]
         /\ parent' = [parent EXCEPT ![v] = IF pool[t] = <<>> THEN Null ELSE Head(pool[t])]
         /\ pool' = [pool EXCEPT ![t] = <<v>> \o @]
  /\ stack' = [stack EXCEPT ![t] = Tail(@)]
  /\ UNCHANGED <<rfcnt, ref, drop, look>>

-----------------------------------------------------------------------------
(* The partial order *)

(* ver_leq: is the version of h an ancestor of that of h2, or the same?    *)
(* The walk reads ->parent of one version after the other, with no lock.   *)
LeqStart_AtParent(t, h, h2) ==
  /\ Idle(t) /\ Holds(t, h) /\ Holds(t, h2)
  /\ look' = [look EXCEPT ![t] = [on |-> TRUE, key |-> ref[h], from |-> ref[h2],
                                  at |-> parent[ref[h2]]]]
  /\ UNCHANGED <<parent, rfcnt, status, ref, drop, stack, pool>>

LeqStart(t, h, h2) ==
  /\ Idle(t) /\ Holds(t, h) /\ Holds(t, h2)
  /\ look' = [look EXCEPT ![t] = [on |-> TRUE, key |-> ref[h], from |-> ref[h2], at |-> ref[h2]]]
  /\ UNCHANGED <<parent, rfcnt, status, ref, drop, stack, pool>>

LeqStep(t) ==
  /\ look[t].on /\ look[t].at \notin {look[t].key, Null}
  /\ look' = [look EXCEPT ![t].at = parent[look[t].at]]
  /\ UNCHANGED <<parent, rfcnt, status, ref, drop, stack, pool>>

LeqReturn(t) ==
  /\ look[t].on /\ look[t].at \in {look[t].key, Null}
  /\ look' = [look EXCEPT ![t] = NoLook]
  /\ UNCHANGED <<parent, rfcnt, status, ref, drop, stack, pool>>

Next ==
  \E t \in Threads :
    \/ \E h \in Handles, v \in Versions : Create(t, h, v)
    \/ \E h, h2 \in Handles, v \in Versions : Branch(t, h, h2, v)
    \/ \E h, h2 \in Handles : GetRef(t, h, h2) \/ Pin(t, h, h2) \/ LeqStart(t, h, h2)
    \/ \E h \in Handles : PutRef(t, h)
    \/ Decrement(t) \/ Free(t) \/ LeqStep(t) \/ LeqReturn(t)

Spec == Init /\ [][Next]_vars

(* A thread that is releasing goes on: nothing it waits for can last. *)
Fairness == \A t \in Threads : WF_vars(Decrement(t)) /\ WF_vars(Free(t))
FairSpec == Spec /\ Fairness

-----------------------------------------------------------------------------
(* Properties *)

(* How many x refer to v through f. *)
Count(f, v) == Cardinality({x \in DOMAIN f : f[x] = v})

(* The parent a version holds a reference to. *)
Claim == [v \in Versions |-> IF status[v] = "live" THEN parent[v] ELSE Null]

Refs(v) == Count(ref, v) + Count(Claim, v) + Count(drop, v)

(* The count of a version is the number of its references, from handles,   *)
(* children and threads about to put one; it is alive exactly as long as   *)
(* there is one.  So no handle and no child ever refers to a version that  *)
(* is released, and no version is released twice (refcnt-lock.h:78,88).    *)
RefcountsExact ==
  \A v \in Versions :
    IF status[v] = "live" THEN rfcnt[v] = Refs(v) /\ rfcnt[v] > 0 ELSE Refs(v) = 0

(* A version a thread holds, or whose descendant a thread holds, is alive. *)
HeldIsLive ==
  /\ \A h \in Handles : ref[h] # Null => status[ref[h]] = "live"
  /\ \A v \in Versions : (status[v] = "live" /\ parent[v] # Null) => status[parent[v]] = "live"

(* The ancestors of v, v included. *)
Ancestors(v) ==
  LET up[k \in Nat] ==
        IF k = 0 THEN {v}
        ELSE up[k - 1] \union ({parent[u] : u \in up[k - 1]} \ {Null})
  IN  up[Cardinality(Versions)]

Leq(v1, v2) == v1 \in Ancestors(v2)

(* Nothing leaks (the commented-out warning of ver_release, ver.h:211):    *)
(* when no release is in progress, a live version is an ancestor of one    *)
(* the program holds.  In particular the tree has no cycle.                *)
NothingLeaks ==
  (\A t \in Threads : drop[t] = Null /\ stack[t] = <<>>) =>
    \A v \in Versions : status[v] = "live" =>
      \E h \in Handles : ref[h] # Null /\ Leq(v, ref[h])

(* The pool is a chain through ->parent of versions no one else has, as    *)
(* ver_mm_alloc takes it for.                                              *)
PoolsAreChains ==
  /\ \A t \in Threads : \A i \in DOMAIN pool[t] :
       /\ status[pool[t][i]] = "free"
       /\ i < Len(pool[t]) => parent[pool[t][i]] = pool[t][i + 1]
  /\ \A v \in Versions : status[v] = "free" =>
       Cardinality({slot \in Threads \X (1..Cardinality(Versions)) :
                      /\ slot[2] \in DOMAIN pool[slot[1]]
                      /\ pool[slot[1]][slot[2]] = v}) = 1

(* ver_leq tells whether one version is an ancestor of the other, whatever *)
(* the other threads do meanwhile.                                         *)
LeqAnswersRight ==
  \A t \in Threads : look[t].on /\ look[t].at \in {look[t].key, Null} =>
    (look[t].at = look[t].key <=> Leq(look[t].key, look[t].from))

(* A release comes to an end, however long the chain. *)
ReleaseEnds == \A t \in Threads : (drop[t] # Null \/ stack[t] # <<>>) ~> Idle(t)
=============================================================================
