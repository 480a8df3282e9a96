------------------------------- MODULE VerGC -------------------------------
(***************************************************************************)
(* Ver with the functions that take versions off the tree: ver_tree_gc,    *)
(* which cuts the chain above a pinned version, and ver_detach.            *)
(*                                                                         *)
(* "This function is not reentrant" (ver.h:259), so one of them runs at a  *)
(* time; other threads branch, refer to versions and release them          *)
(* meanwhile.                                                              *)
(***************************************************************************)
EXTENDS Ver

CONSTANT Comparing   (* TRUE: ver_leq may run while ver_tree_gc does *)

ASSUME ComparingAssumption == Comparing \in BOOLEAN

VARIABLE gc
  (* phase   none; walk, cut: ver_tree_gc; detach: ver_detach            *)
  (* by      the thread that cuts                                        *)
  (* ver     the version whose parent will be cut off                    *)
  (* at      the version the walk, or the removal of the chain, is at    *)

gcVars == <<vars, gc>>

NoGC == [phase |-> "none", by |-> Null, ver |-> Null, at |-> Null]

GCTypeOK ==
  /\ TypeOK
  /\ gc \in [phase : {"none", "walk", "cut", "detach"}, by : Threads \union {Null},
             ver : Versions \union {Null}, at : Versions \union {Null}]

GCInit == Init /\ gc = NoGC

NoLooks == \A u \in Threads : ~ look[u].on

(* ver_tree_gc on the version of h *)
GCStart(t, h) ==
  /\ Idle(t) /\ Holds(t, h) /\ gc = NoGC /\ (Comparing \/ NoLooks)
  /\ gc' = [phase |-> "walk", by |-> t, ver |-> ref[h], at |-> parent[ref[h]]]
  /\ UNCHANGED vars

(* One version up: the counts are read without their locks; a count above  *)
(* one is a branch, or a version someone holds, and moves the cut there.   *)
GCWalk_IgnoresBranches(t) ==
  /\ gc.phase = "walk" /\ gc.by = t /\ gc.at # Null
  /\ gc' = [gc EXCEPT !.at = parent[gc.at]]
  /\ UNCHANGED vars

GCWalk_SamePlace(t) ==
  /\ gc.phase = "walk" /\ gc.by = t /\ gc.at # Null
  /\ gc' = [gc EXCEPT !.ver = IF rfcnt[gc.at] > 1 THEN gc.at ELSE @]
  /\ UNCHANGED vars

GCWalk(t) ==
  /\ gc.phase = "walk" /\ gc.by = t /\ gc.at # Null
  /\ gc' = [gc EXCEPT !.ver = IF rfcnt[gc.at] > 1 THEN gc.at ELSE @,
                      !.at = parent[gc.at]]
  /\ UNCHANGED vars

GCCut(t) ==
  /\ gc.phase = "walk" /\ gc.by = t /\ gc.at = Null
  /\ gc' = [gc EXCEPT !.phase = "cut", !.at = parent[gc.ver]]
  /\ UNCHANGED vars

(* v->parent = NULL; ver_putref(v), for the next version of the chain      *)
GCPut_KeepsLink(t) ==
  /\ gc.phase = "cut" /\ gc.by = t /\ gc.at # Null /\ Idle(t)
  /\ drop' = [drop EXCEPT ![t] = gc.at]
  /\ gc' = [gc EXCEPT !.at = parent[gc.at]]
  /\ UNCHANGED <<parent, rfcnt, status, ref, stack, pool, look>>

GCPut_OnlyUnlinks(t) ==
  /\ gc.phase = "cut" /\ gc.by = t /\ gc.at # Null /\ Idle(t)
  /\ parent' = [parent EXCEPT ![gc.at] = Null]
  /\ gc' = [gc EXCEPT !.at = parent[gc.at]]
  /\ UNCHANGED <<rfcnt, status, ref, drop, stack, pool, look>>

GCPut(t) ==
  /\ gc.phase = "cut" /\ gc.by = t /\ gc.at # Null /\ Idle(t)
  /\ parent' = [parent EXCEPT ![gc.at] = Null]
  /\ drop' = [drop EXCEPT ![t] = gc.at]
  /\ gc' = [gc EXCEPT !.at = parent[gc.at]]
  /\ UNCHANGED <<rfcnt, status, ref, stack, pool, look>>

(* ver->parent = NULL, the end of ver_tree_gc and of ver_detach: until     *)
(* then ->parent of the version is a pointer to what may be released.      *)
GCEnd(t) ==
  /\ gc.phase \in {"cut", "detach"} /\ gc.by = t /\ gc.at = Null /\ Idle(t)
  /\ parent' = [parent EXCEPT ![gc.ver] = Null]
  /\ gc' = NoGC
  /\ UNCHANGED <<rfcnt, status, ref, drop, stack, pool, look>>

(* ver_detach on the version of h; GCEnd follows.  It changes the order,   *)
(* so no comparison is in progress.                                        *)
Detach(t, h) ==
  /\ Idle(t) /\ Holds(t, h) /\ gc = NoGC /\ NoLooks
  /\ gc' = [phase |-> "detach", by |-> t, ver |-> ref[h], at |-> Null]
  /\ drop' = [drop EXCEPT ![t] = parent[ref[h]]]
  /\ UNCHANGED <<parent, rfcnt, status, ref, stack, pool, look>>

(* The other operations; a thread that cuts only finishes its releases. *)
Other ==
  \E t \in Threads :
    \/ Decrement(t) \/ Free(t) \/ LeqStep(t) \/ LeqReturn(t)
    \/ /\ gc.by # t
       /\ \/ \E h \in Handles, v \in Versions : Create(t, h, v)
          \/ \E h, h2 \in Handles, v \in Versions : Branch(t, h, h2, v)
          \/ \E h, h2 \in Handles : GetRef(t, h, h2) \/ Pin(t, h, h2)
          \/ /\ gc = NoGC \/ (Comparing /\ gc.phase # "detach")
             /\ \E h, h2 \in Handles : LeqStart(t, h, h2)
          \/ \E h \in Handles : PutRef(t, h)

GCNext ==
  \/ Other /\ UNCHANGED gc
  \/ \E t \in Threads :
       \/ \E h \in Handles : GCStart(t, h) \/ Detach(t, h)
       \/ GCWalk(t) \/ GCCut(t) \/ GCPut(t) \/ GCEnd(t)

GCSpec == GCInit /\ [][GCNext]_gcVars

GCFairness ==
  Fairness /\ \A t \in Threads :
    WF_gcVars(GCWalk(t)) /\ WF_gcVars(GCCut(t)) /\ WF_gcVars(GCPut(t)) /\ WF_gcVars(GCEnd(t))
GCFairSpec == GCSpec /\ GCFairness

-----------------------------------------------------------------------------
(* Properties *)

(* While a chain is cut off, the pointer of the version below it no longer *)
(* stands for a reference; the collector has it, or is dropping it.        *)
GCClaim == [v \in Versions |->
  IF status[v] = "live" /\ ~ (gc.phase \in {"cut", "detach"} /\ gc.ver = v) THEN parent[v] ELSE Null]
GCRefs(v) ==
  Count(ref, v) + Count(GCClaim, v) + Count(drop, v)
    + (IF gc.phase = "cut" /\ gc.at = v THEN 1 ELSE 0)

(* RefcountsExact with the collector at work: the counts it reads without  *)
(* locks never make it release a version that someone still refers to.     *)
GCRefcountsExact ==
  \A v \in Versions :
    IF status[v] = "live" THEN rfcnt[v] = GCRefs(v) /\ rfcnt[v] > 0 ELSE GCRefs(v) = 0

(* "GC guarantees that it won't try to collect versions from the pinned    *)
(* version and beyond" (ver.h:48): collecting does not change which held   *)
(* version is an ancestor of which.                                        *)
GCOrderIsKept ==
  [][\A h, h2 \in Handles :
       (gc.phase # "detach" /\ gc'.phase # "detach" /\ ref[h] # Null /\ ref[h2] # Null /\
        ref'[h] = ref[h] /\ ref'[h2] = ref[h2]) =>
          (Leq(ref[h], ref[h2])' <=> Leq(ref[h], ref[h2]))]_gcVars

(* When the collector is done no count is left over: what is alive is an   *)
(* ancestor of a version that is held.                                     *)
GCNothingLeaks == gc = NoGC => NothingLeaks

(* The collector ends, and with it the releases it starts. *)
GCEnds == (gc # NoGC) ~> (gc = NoGC)
=============================================================================
