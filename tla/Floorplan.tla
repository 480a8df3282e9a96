------------------------------ MODULE Floorplan ------------------------------
(***************************************************************************)
(* floorplan/floorplan.c: a parallel branch and bound search for the       *)
(* placement of cells whose bounding box is smallest.  add_cell tries all  *)
(* orientations and positions of one cell, the positions in parallel (a    *)
(* cilk_for), and calls itself for the next cell; below the cutoff level   *)
(* add_cell_ser does so sequentially.  The tasks share the best area found *)
(* so far: it is read without a lock to prune, and lowered by double       *)
(* checked locking together with the best board.                           *)
(*                                                                         *)
(* A board is the sequence of the rectangles laid on it, in the order of   *)
(* the cells; it names the iteration that lays the last one, and the call  *)
(* of add_cell that continues from it.  The counts of tried positions are  *)
(* statistics and are left out.                                            *)
(***************************************************************************)
EXTENDS Integers, Sequences, FiniteSets

CONSTANTS
  Cells,       (* gcells: alt (sequence of <<rows, cols>>), left, above, next *)
  MaxArea,     (* ROWS * COLS                                             *)
  Cutoff,      (* cutoff_level                                            *)
  XVArray,     (* TRUE: built with FLOORPLAN_XVARRAY                      *)
  Null

(* An input lists the cells in the order they are laid down, and a cell    *)
(* touches one before it (or the dummy cell 0) on at least one side.       *)
CellTypes == [alt : Seq(Nat \X Nat), left : Int, above : Int, next : Nat]
ASSUME CellsAssumption ==
  /\ Cells \in Seq(CellTypes) /\ Cells # <<>>
  /\ \A id \in DOMAIN Cells :
       /\ Cells[id].alt # <<>>
       /\ Cells[id].left < id /\ Cells[id].above < id
       /\ Cells[id].left >= 0 \/ Cells[id].above >= 0
       /\ Cells[id].next = IF id = Len(Cells) THEN 0 ELSE id + 1
ASSUME MaxAreaAssumption == MaxArea \in Nat /\ XVArray \in BOOLEAN

VARIABLES
  minArea,     (* MIN_AREA                                                *)
  footprint,   (* MIN_FOOTPRINT                                           *)
  best,        (* BEST_BOARD                                              *)
  lock,        (* the iteration that holds xlock                          *)
  calls,       (* the calls of add_cell in progress, by board: the        *)
               (* orientation, the positions of it not done with, and the *)
               (* footprint of the board                                  *)
  iters        (* the iterations that are in try_update_min, by board:    *)
               (* where they are and the footprint they propose           *)

vars == <<minArea, footprint, best, lock, calls, iters>>

-----------------------------------------------------------------------------
(* Geometry *)

Rectangles == [id : Nat, top : Int, lhs : Int, bot : Int, rhs : Int]
Boards == Seq(Rectangles)

Larger(a, b) == IF a > b THEN a ELSE b

(* The dummy cell, in the corner of the board, and the cells laid down. *)
Corner == [id |-> 0, top |-> 0, lhs |-> -1, bot |-> 0, rhs |-> -1]
CellOn(board, id) == IF id = 0 THEN Corner ELSE board[id]

(* The cell that goes on the board next. *)
NextCell(board) == IF board = <<>> THEN 1 ELSE Cells[Len(board)].next

ASSUME NullAssumption == Null \notin Boards

(* starts: the rectangles a cell may take, given the cells it must touch. *)
(* Boards are large enough for all of them (min(.., ROWS) is left out).   *)
Starts(board, id, alt) ==
  LET rows == Cells[id].alt[alt][1]
      cols == Cells[id].alt[alt][2]
      left == CellOn(board, Cells[id].left)
      above == CellOn(board, Cells[id].above)
      at(top, lhs) == [id |-> id, top |-> top, lhs |-> lhs,
                       bot |-> top + rows - 1, rhs |-> lhs + cols - 1]
      touches(r) == /\ r.top <= left.bot /\ r.bot + 1 >= left.top
                    /\ r.lhs <= above.rhs /\ r.rhs + 1 >= above.lhs
      bothSides == {at(above.bot + 1, left.rhs + 1)}
  IN  IF Cells[id].left >= 0 /\ Cells[id].above >= 0 THEN {r \in bothSides : touches(r)}
      ELSE IF Cells[id].left >= 0
      THEN {at(t, left.rhs + 1) : t \in Larger(left.top - rows + 1, 0)..left.bot}
      ELSE {at(above.bot + 1, l) : l \in Larger(above.lhs - cols + 1, 0)..above.rhs}

Overlap(r, s) == r.top <= s.bot /\ s.top <= r.bot /\ r.lhs <= s.rhs /\ s.lhs <= r.rhs
Free(board, r) == \A k \in DOMAIN board : ~ Overlap(r, board[k])

(* lay_down succeeds.  The versioned variant reads one row more than the   *)
(* cell has: its loop ends when i++ == nrows.  (It stores the chunk of that *)
(* row one slot past its array, which is taken to be harmless.)            *)
LayDown(board, r) == Free(board, IF XVArray THEN [r EXCEPT !.bot = @ + 1] ELSE r)

(* The footprint of the board, as add_cell extends it cell by cell. *)
Extend(fp, r) == <<Larger(fp[1], r.bot + 1), Larger(fp[2], r.rhs + 1)>>
Area(fp) == fp[1] * fp[2]

-----------------------------------------------------------------------------
(* The search *)

(* Iterations of a call run in parallel above the cutoff, and in order     *)
(* (starts gives the positions row by row or column by column) below it.   *)
InOrder(board, r) == \A s \in calls[board].todo : r.top <= s.top /\ r.lhs <= s.lhs
MayStart(board, r) == Len(board) <= Cutoff \/ InOrder(board, r)

(* A new call for the next cell of the board. *)
CallOn(board, fp) ==
  [alt |-> 1, todo |-> Starts(board, NextCell(board), 1), footprint |-> fp]

(* f extended with, or without, one board. *)
With(f, board, x) == [b \in DOMAIN f \union {board} |-> IF b = board THEN x ELSE f[b]]
Without(f, board) == [b \in DOMAIN f \ {board} |-> f[b]]

(* The parent's call is done with the last rectangle of the board. *)
Parent(board) == SubSeq(board, 1, Len(board) - 1)
Finish(f, board) ==
  [f EXCEPT ![Parent(board)].todo = @ \ {board[Len(board)]}]

Init ==
  /\ minArea = MaxArea /\ footprint = <<0, 0>> /\ best = Null /\ lock = Null
  /\ calls = With(<<>>, <<>>, CallOn(<<>>, <<0, 0>>))
  /\ iters = <<>>

(* One iteration: branch a board, lay the cell down, and read MIN_AREA to  *)
(* decide whether to go on.                                                *)
Fits(board, r) == LayDown(board, r) /\ Area(Extend(calls[board].footprint, r)) < minArea

(* The iteration, where the call it makes begins as newCall. *)
TryWith(board, r, newCall) ==
  LET brd == Append(board, r)
      fp == Extend(calls[board].footprint, r)
      goesOn == Fits(board, r)
      last == Cells[r.id].next = 0
  IN  /\ r \in calls[board].todo /\ brd \notin DOMAIN calls \union DOMAIN iters
      /\ calls' = CASE ~ goesOn -> Finish(calls, brd)
                    [] goesOn /\ ~ last -> With(calls, brd, newCall)
                    [] OTHER -> calls
      /\ iters' = IF goesOn /\ last THEN With(iters, brd, [pc |-> "lock", footprint |-> fp])
                  ELSE iters
      /\ UNCHANGED <<minArea, footprint, best, lock>>

Try(board, r) ==
  /\ MayStart(board, r)
  /\ TryWith(board, r, CallOn(Append(board, r), Extend(calls[board].footprint, r)))

(* try_update_min after its first comparison: spin_lock *)
Lock_Broken(brd) ==
  /\ iters[brd].pc = "lock"
  /\ lock' = brd
  /\ iters' = [iters EXCEPT ![brd].pc = "compare"]
  /\ UNCHANGED <<minArea, footprint, best, calls>>

Lock(brd) ==
  /\ iters[brd].pc = "lock" /\ lock = Null
  /\ lock' = brd
  /\ iters' = [iters EXCEPT ![brd].pc = "compare"]
  /\ UNCHANGED <<minArea, footprint, best, calls>>

(* The second comparison; MIN_AREA is lowered before the rest. *)
Compare_Once(brd) ==
  /\ iters[brd].pc = "compare"
  /\ minArea' = Area(iters[brd].footprint)
  /\ iters' = [iters EXCEPT ![brd].pc = "store"]
  /\ UNCHANGED <<footprint, best, lock, calls>>

Compare_KeepsLock(brd) ==
  /\ iters[brd].pc = "compare"
  /\ IF Area(iters[brd].footprint) < minArea
     THEN /\ minArea' = Area(iters[brd].footprint)
          /\ iters' = [iters EXCEPT ![brd].pc = "store"]
          /\ UNCHANGED calls
     ELSE /\ iters' = Without(iters, brd)
          /\ calls' = Finish(calls, brd)
          /\ UNCHANGED minArea
  /\ UNCHANGED <<footprint, best, lock>>

Compare(brd) ==
  /\ iters[brd].pc = "compare"
  /\ IF Area(iters[brd].footprint) < minArea
     THEN /\ minArea' = Area(iters[brd].footprint)
          /\ iters' = [iters EXCEPT ![brd].pc = "store"]
          /\ UNCHANGED <<lock, calls>>
     ELSE /\ lock' = Null
          /\ iters' = Without(iters, brd)
          /\ calls' = Finish(calls, brd)
          /\ UNCHANGED minArea
  /\ UNCHANGED <<footprint, best>>

(* MIN_FOOTPRINT and BEST_BOARD, and spin_unlock *)
Store(brd) ==
  /\ iters[brd].pc = "store"
  /\ footprint' = iters[brd].footprint /\ best' = brd /\ lock' = Null
  /\ iters' = Without(iters, brd)
  /\ calls' = Finish(calls, brd)
  /\ UNCHANGED minArea

(* All positions are done with (the end of the cilk_for): on to the next   *)
(* orientation, or back to the iteration that called.                      *)
NextShape(board) ==
  /\ calls[board].todo = {} /\ calls[board].alt < Len(Cells[NextCell(board)].alt)
  /\ LET alt == calls[board].alt + 1
     IN  calls' = [calls EXCEPT ![board].alt = alt,
                                ![board].todo = Starts(board, NextCell(board), alt)]
  /\ UNCHANGED <<minArea, footprint, best, lock, iters>>

Return_First(board) ==
  /\ calls[board].todo = {}
  /\ calls' = IF board = <<>> THEN Without(calls, board)
              ELSE Finish(Without(calls, board), board)
  /\ UNCHANGED <<minArea, footprint, best, lock, iters>>

Return(board) ==
  /\ calls[board].todo = {} /\ calls[board].alt = Len(Cells[NextCell(board)].alt)
  /\ calls' = IF board = <<>> THEN Without(calls, board)
              ELSE Finish(Without(calls, board), board)
  /\ UNCHANGED <<minArea, footprint, best, lock, iters>>

Next ==
  \/ \E board \in DOMAIN calls :
       \/ \E r \in calls[board].todo : Try(board, r)
       \/ NextShape(board) \/ Return(board)
  \/ \E brd \in DOMAIN iters : Lock(brd) \/ Compare(brd) \/ Store(brd)

Spec == Init /\ [][Next]_vars

(* Some worker goes on as long as any can. *)
FairSpec == Spec /\ WF_vars(Next)

-----------------------------------------------------------------------------
(* Properties *)

Calls == [alt : Nat, todo : SUBSET Rectangles, footprint : Nat \X Nat]
Iterations == [pc : {"lock", "compare", "store"}, footprint : Nat \X Nat]
TypeOK ==
  /\ minArea \in Nat /\ footprint \in Nat \X Nat
  /\ best \in Boards \union {Null} /\ lock \in DOMAIN iters \union {Null}
  /\ DOMAIN calls \subseteq Boards /\ \A board \in DOMAIN calls : calls[board] \in Calls
  /\ DOMAIN iters \subseteq Boards /\ \A brd \in DOMAIN iters : iters[brd] \in Iterations

(* fp is the smallest box in the corner that covers the board. *)
IsFootprint(fp, board) ==
  /\ \A k \in DOMAIN board : board[k].bot < fp[1] /\ board[k].rhs < fp[2]
  /\ fp[1] = 0 \/ \E k \in DOMAIN board : board[k].bot = fp[1] - 1
  /\ fp[2] = 0 \/ \E k \in DOMAIN board : board[k].rhs = fp[2] - 1

(* When no task is in the critical section the best board, its footprint   *)
(* and the best area belong together (try_update_min changes them one      *)
(* after the other).                                                       *)
BestIsConsistent ==
  lock = Null =>
    IF best = Null THEN minArea = MaxArea
    ELSE IsFootprint(footprint, best) /\ minArea = Area(footprint)

(* The best area never rises: a task that read it to prune was right to do *)
(* so, and no task overwrites a better result (floorplan.c:387-389).       *)
AreaOnlyFalls == [][minArea' <= minArea]_vars

(* Every way to lay k cells down, by brute force. *)
Layouts ==
  LET placed[k \in Nat] ==
        IF k = 0 THEN {<<>>}
        ELSE UNION {UNION {{Append(board, r) : r \in {s \in Starts(board, NextCell(board), alt) : Free(board, s)}} :
                             alt \in DOMAIN Cells[NextCell(board)].alt} :
                      board \in {b \in placed[k - 1] : NextCell(b) # 0}}
  IN  UNION {{b \in placed[k] : NextCell(b) = 0} : k \in 1..Len(Cells)}

(* The search returns the smallest area of all layouts, though tasks prune *)
(* by a bound that others lower meanwhile (floorplan_verify aborts when    *)
(* MIN_AREA is not the solution of the input).                             *)
FindsMinimum ==
  calls = <<>> =>
    /\ \A board \in Layouts : \A fp \in (0..MaxArea) \X (0..MaxArea) :
         IsFootprint(fp, board) => minArea <= Area(fp)
    /\ best # Null => best \in Layouts

(* The search ends: every iteration finishes and is waited for. *)
SearchEnds == <>(calls = <<>>)
=============================================================================
