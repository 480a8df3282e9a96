--------------------------- MODULE FloorplanTasks ---------------------------
(***************************************************************************)
(* The other builds of the search of Floorplan: the OpenMP programs of     *)
(* floorplan/floorplan-bots.c, which differ in where they stop to make     *)
(* tasks, and the sequential floorplan/floorplan-serial.c (its             *)
(* compute_floorplan; main leaves out the call of it).                     *)
(*                                                                         *)
(* starts and lay_down are those of Floorplan without versioned arrays.    *)
(* A call of add_cell makes the positions of all shapes tasks at once and  *)
(* then waits; floorplan.c goes through the shapes one after the other.    *)
(***************************************************************************)
EXTENDS Floorplan

VARIABLE build   (* the build that runs *)

taskVars == <<vars, build>>

(* cilk: floorplan.c; if, final, manual: IF_CUTOFF, FINAL_CUTOFF and       *)
(* MANUAL_CUTOFF; plain: floorplan-bots.c with none of them; serial        *)
Builds == {"cilk", "if", "final", "manual", "plain", "serial"}

(* Where add_cell makes tasks that others may run.  An undeferred task (if *)
(* is false) is run at once by the thread that meets it, and so is a task  *)
(* made within a final one; add_cell_ser makes none.                       *)
Deferred(board) ==
  CASE build = "if" -> Len(board) < Cutoff
    [] build = "final" -> Len(board) <= Cutoff
    [] build = "manual" -> board = <<>> \/ Len(board) < Cutoff
    [] build = "plain" -> TRUE
    [] OTHER -> FALSE

(* The positions that starts gives for the orientations of a cell. *)
Positions(board, id) == UNION {Starts(board, id, alt) : alt \in DOMAIN Cells[id].alt}

(* A new call for the next cell of the board. *)
TaskCall(board, fp) ==
  IF Deferred(board)
  THEN [alt |-> Len(Cells[NextCell(board)].alt), footprint |-> fp,
        todo |-> Positions(board, NextCell(board))]
  ELSE CallOn(board, fp)
CallAfter(board, r) == TaskCall(Append(board, r), Extend(calls[board].footprint, r))

TaskInit ==
  /\ build \in Builds /\ (XVArray => build = "cilk")
  /\ minArea = MaxArea /\ footprint = <<0, 0>> /\ best = Null /\ lock = Null
  /\ calls = With(<<>>, <<>>, TaskCall(<<>>, <<0, 0>>))
  /\ iters = <<>>

(* A task of each build, up to the critical section.                       *)
MayBegin(board, r) == Deferred(board) \/ InOrder(board, r)

IfTask(board, r) ==
  build = "if" /\ MayBegin(board, r) /\ TryWith(board, r, CallAfter(board, r))

FinalTask(board, r) ==
  build = "final" /\ MayBegin(board, r) /\ TryWith(board, r, CallAfter(board, r))

ManualTask(board, r) ==
  build = "manual" /\ Deferred(board) /\ TryWith(board, r, CallAfter(board, r))

ManualSer(board, r) ==
  /\ build = "manual" /\ ~ Deferred(board) /\ InOrder(board, r)
  /\ TryWith(board, r, CallAfter(board, r))

PlainTask(board, r) == build = "plain" /\ TryWith(board, r, CallAfter(board, r))

(* omp critical, entered after the same comparison as inside *)
Critical(brd) == build \in {"if", "final", "manual", "plain"} /\ (Lock(brd) \/ Compare(brd) \/ Store(brd))

(* The sequential program: an iteration that does not better the best      *)
(* board, and one that does.                                               *)
Betters(board, r) == Fits(board, r) /\ Cells[r.id].next = 0

SerialTry(board, r) ==
  /\ build = "serial" /\ InOrder(board, r) /\ ~ Betters(board, r)
  /\ TryWith(board, r, CallAfter(board, r))

SerialBest(board, r) ==
  /\ build = "serial" /\ r \in calls[board].todo /\ InOrder(board, r) /\ Betters(board, r)
  /\ LET fp == Extend(calls[board].footprint, r)
     IN  minArea' = Area(fp) /\ footprint' = fp
  /\ best' = Append(board, r)
  /\ calls' = Finish(calls, Append(board, r))
  /\ UNCHANGED <<lock, iters>>

TaskStep ==
  \/ \E board \in DOMAIN calls :
       \/ \E r \in calls[board].todo :
            \/ IfTask(board, r) \/ FinalTask(board, r) \/ PlainTask(board, r)
            \/ ManualTask(board, r) \/ ManualSer(board, r)
            \/ SerialTry(board, r) \/ SerialBest(board, r)
       \/ build # "cilk" /\ (NextShape(board) \/ Return(board))
  \/ \E brd \in DOMAIN iters : Critical(brd)

TaskNext ==
  /\ TaskStep \/ (build = "cilk" /\ Next)
  /\ UNCHANGED build

TaskSpec == TaskInit /\ [][TaskNext]_taskVars

(* Some worker goes on as long as any can. *)
FairTaskSpec == TaskSpec /\ WF_taskVars(TaskNext)
=============================================================================
